--------------------------- MODULE Workspace_proofs ---------------------------
(***************************************************************************)
(* Proofs about Workspace for every set of resources, names, contents, job *)
(* ids and faults: its type invariant, what a handler at work can rely on, *)
(* and the few shapes that all steps of all handlers have.                 *)
(***************************************************************************)
EXTENDS WorkspaceProperties, TLAPS

(* The id of an object on the server: the server's own for a job, its name *)
(* for the others.                                                         *)
IdOK(k, object) == IF k = "job" THEN object.id \in JobId ELSE object.id = object.name

(* What a handler at work can rely on: what it knows of its object is what *)
(* the state says, or, in a create, what it has been told.                 *)
HandlerOK(r) ==
  /\ Managed(r) => IdOK(kind[r], state[r].object)
  /\ call[r].rpc = "none" => call[r] = Idle
  /\ call[r] # Idle =>
       /\ call[r].pc \in {"Exists", "Read", "Create", "Update", "Delete"}
       /\ call[r].rpc # "none" /\ call[r].data \in Object /\ phase # "idle"
       /\ call[r].rpc = "refresh" <=> phase = "refresh"
       /\ IF call[r].pc = "Create" THEN call[r].data.id = NoId
          ELSE IdOK(kind[r], call[r].data)
  /\ call[r].pc \in {"Create", "Update"} => call[r].data.content \in Content
  /\ call[r].pc = "Create" => call[r].rpc = "create"
  /\ call[r].pc = "Exists" => call[r].rpc = "refresh"
  /\ call[r].pc = "Update" => \/ call[r].rpc = "update"
                              \/ call[r].rpc = "create" /\ kind[r] = "project"
  /\ call[r].pc = "Delete" <=> call[r].rpc \in {"delete", "replace"}
  /\ call[r].rpc = "create" => ~Managed(r)
  /\ call[r].rpc = "replace" => config[r] # NoBlock
  /\ call[r].rpc \notin {"none", "create"} =>
       Managed(r) /\ call[r].data.id = state[r].object.id

(* What an answer says of the object.                                      *)
ReplyOK(r) ==
  call[r].reply # NoReply =>
    LET reply == call[r].reply
    IN /\ reply.id # NoId => kind[r] = "job" /\ reply.status = "200"
       /\ reply.id # NoId => IF call[r].pc = "Create" THEN reply.id \in JobId
                             ELSE reply.id = call[r].data.id
       /\ call[r].pc = "Read" /\ reply.status = "200" =>
            /\ reply.content \in Stored
            /\ kind[r] = "job" => reply.id # NoId /\ reply.name \in Name

IInv == TypeOK /\ \A r \in Resource : HandlerOK(r) /\ ReplyOK(r)

StateRow == [object : Object \cup {NoObject}, tainted : BOOLEAN]
Only(r)  == \A s \in Resource \ {r} : state'[s] = state[s] /\ call'[s] = call[s]

----------------------------------------------------------------------------
(* Initially every handler is idle and every object absent. *)
LEMMA InitIInv == Init => IInv
<1> SUFFICES ASSUME Init PROVE IInv
  OBVIOUS
<1> USE ObjectAssumption DEF Init
<1>1. TypeOK
  <2>1. Idle \in Calls
    BY RetryAttemptsAssumption DEF Idle, At, Calls, RPCs, PCs, Quiet
  <2>2. projects \in [Name -> Projects \cup {Gone}]
    BY DEF Projects, Stored
  <2> QED
    BY <2>1, <2>2 DEF TypeOK, Absent, Phases, Outcomes
<1>2. ASSUME NEW r \in Resource PROVE HandlerOK(r) /\ ReplyOK(r)
  BY DEF HandlerOK, ReplyOK, Managed, Absent, Idle, At
<1> QED
  BY <1>1, <1>2 DEF IInv

(* A step that changes the rows of one resource keeps the invariant if it  *)
(* does so for that resource.                                              *)
LEMMA OneRow ==
  ASSUME IInv, NEW r \in Resource, Only(r),
         UNCHANGED <<env, kind, config, phase>>, outcome' \in Outcomes, clean' \in BOOLEAN,
         state' \in [Resource -> StateRow], call' \in [Resource -> Calls],
         policies' \in [Name -> (Content \ Malformed) \cup {Gone}],
         projects' \in [Name -> Projects \cup {Gone}],
         jobs' \in [JobId -> Jobs \cup {Gone}],
         HandlerOK(r)', ReplyOK(r)'
  PROVE  IInv'
<1>1. TypeOK'
  BY DEF IInv, TypeOK, StateRow
<1>2. ASSUME NEW s \in Resource PROVE HandlerOK(s)' /\ ReplyOK(s)'
  <2>1. CASE s = r
    BY <2>1
  <2>2. CASE s # r
    BY <2>2 DEF Only, IInv, HandlerOK, ReplyOK, Managed
  <2> QED
    BY <2>1, <2>2
<1> QED
  BY <1>1, <1>2 DEF IInv

----------------------------------------------------------------------------
(* The server and the client. *)

LEMMA PlainReply ==
  \A status \in Status : /\ Plain(status) \in Reply /\ Plain(status) # NoReply
                         /\ Plain(status).status = status /\ Plain(status).id = NoId
  BY ObjectAssumption DEF Plain, Reply

(* A handler that waits for an answer has a ResourceData. *)
LEMMA WaitingData ==
  ASSUME IInv, NEW r \in Resource, Waiting(r)
  PROVE  /\ call[r] # Idle /\ call[r].reply = NoReply /\ call[r].data \in Object
         /\ call[r].data.name \in Name /\ call[r].data.id \in Id \cup {NoId}
         /\ call[r].pc \in {"Exists", "Read", "Create", "Update", "Delete"}
         /\ call[r].pc # "Create" => IdOK(kind[r], call[r].data)
<1>1. call[r] # Idle /\ call[r].reply = NoReply
  BY DEF Waiting, Quiet, Idle, At
<1> QED
  BY <1>1 DEF IInv, HandlerOK, Object

(* The server keeps what it is sent, under an id of its own choice for a   *)
(* new job.                                                                *)
LEMMA AppliedTypes ==
  ASSUME IInv, NEW r \in Resource, Waiting(r), Applied(r)
  PROVE  /\ policies' \in [Name -> (Content \ Malformed) \cup {Gone}]
         /\ projects' \in [Name -> Projects \cup {Gone}]
         /\ jobs' \in [JobId -> Jobs \cup {Gone}]
<1> DEFINE n == call[r].data.name
           c == call[r].data.content
<1>1. /\ policies \in [Name -> (Content \ Malformed) \cup {Gone}]
      /\ projects \in [Name -> Projects \cup {Gone}]
      /\ jobs \in [JobId -> Jobs \cup {Gone}]
  BY DEF IInv, TypeOK
<1>2. /\ n \in Name /\ c \in Stored
      /\ call[r].pc \in {"Create", "Update"} => c \in Content
  BY WaitingData DEF IInv, HandlerOK, Object
<1>3. policies' \in [Name -> (Content \ Malformed) \cup {Gone}]
  BY <1>1, <1>2 DEF Applied, PolicyApplied
<1>4. projects' \in [Name -> Projects \cup {Gone}]
  <2>1. [content |-> Bare, by |-> r] \in Projects
    BY DEF Projects, Stored
  <2>2. projects[n] # Gone => [content |-> c, by |-> projects[n].by] \in Projects
    BY <1>1, <1>2 DEF Projects
  <2> QED
    BY <1>1, <2>1, <2>2 DEF Applied, ProjectApplied
<1>5. jobs' \in [JobId -> Jobs \cup {Gone}]
  <2>1. Imports(r) => Import(r) \in Jobs
    BY <1>2 DEF Imports, Import, Jobs
  <2> QED
    BY <1>1, <2>1 DEF Applied, JobApplied
<1> QED
  BY <1>3, <1>4, <1>5

LEMMA NextIdFresh ==
  ASSUME NEW r \in Resource, kind[r] = "job", call[r].pc = "Create", Applied(r)
  PROVE  NextId \in Fresh /\ NextId \in JobId
  BY DEF Applied, IdLeft, NextId, Fresh

LEMMA AnswerReply ==
  ASSUME IInv, NEW r \in Resource, Waiting(r), Applied(r)
  PROVE  /\ Answer(r) \in Reply
         /\ Answer(r).id # NoId => /\ kind[r] = "job" /\ Answer(r).status = "200"
                                   /\ IF call[r].pc = "Create" THEN Answer(r).id \in JobId
                                      ELSE Answer(r).id = call[r].data.id
         /\ call[r].pc = "Read" /\ Answer(r).status = "200" =>
              /\ Answer(r).content \in Stored
              /\ kind[r] = "job" => Answer(r).id # NoId /\ Answer(r).name \in Name
<1> DEFINE n == call[r].data.name
           i == call[r].data.id
<1>0. /\ kind[r] \in {"policy", "project", "job"} /\ n \in Name
      /\ \A status \in Status : Plain(status) \in Reply
  BY WaitingData, PlainReply, ObjectAssumption DEF IInv, TypeOK
<1>1. CASE kind[r] = "policy"
  <2>1. policies[n] # Gone => policies[n] \in Stored
    BY <1>0 DEF IInv, TypeOK, Stored
  <2> QED
    BY <1>0, <1>1, <2>1, ObjectAssumption DEF Answer, PolicyAnswer, Plain, Reply, Status
<1>2. CASE kind[r] = "project"
  <2>1. projects[n] # Gone => projects[n].content \in Stored
    BY <1>0 DEF IInv, TypeOK, Projects
  <2> QED
    BY <1>0, <1>2, <2>1, ObjectAssumption DEF Answer, ProjectAnswer, Plain, Reply, Status
<1>3. CASE kind[r] = "job"
  <2>1. call[r].pc = "Create" => NextId \in JobId
    BY <1>3, NextIdFresh
  <2>2. call[r].pc # "Create" =>
          i \in JobId /\ (jobs[i] # Gone => jobs[i].name \in Name /\ jobs[i].content \in Content)
    BY <1>3, WaitingData DEF IdOK, IInv, TypeOK, Jobs
  <2>3. JobId \subseteq Id /\ NoId \notin JobId /\ Content \subseteq Stored
    BY ObjectAssumption DEF Id, Stored
  <2>4. CASE Imports(r)
    <3>1. ImportId(r) \in JobId /\ (call[r].pc # "Create" => ImportId(r) = i)
      BY <2>1, <2>2 DEF ImportId
    <3>2. Answer(r) = [Plain("200") EXCEPT !.id = ImportId(r)]
      BY <1>3, <2>4 DEF Answer, JobAnswer
    <3>3. call[r].pc # "Read"
      BY <2>4 DEF Imports
    <3> QED
      BY <1>0, <1>3, <2>3, <3>1, <3>2, <3>3 DEF Plain, Reply, Status
  <2>5. CASE ~Imports(r) /\ call[r].pc \in {"Create", "Update"}
    <3>1. Answer(r) = Plain("200")
      BY <1>3, <2>5 DEF Answer, JobAnswer
    <3> QED
      BY <1>0, <2>5, <3>1 DEF Plain, Reply, Status
  <2>6. CASE ~Imports(r) /\ call[r].pc \notin {"Create", "Update"}
    <3>1. CASE jobs[i] = Gone
      <4>1. Answer(r) = Plain("404")
        BY <1>3, <2>6, <3>1 DEF Answer, JobAnswer
      <4> QED
        BY <1>0, <4>1 DEF Plain, Reply, Status
    <3>2. CASE jobs[i] # Gone
      <4>1. Answer(r) = [status |-> "200", id |-> i, name |-> jobs[i].name,
                         content |-> jobs[i].content]
        BY <1>3, <2>6, <3>2 DEF Answer, JobAnswer, Plain
      <4> QED
        BY <1>3, <2>2, <2>3, <2>6, <3>2, <4>1 DEF Reply, Status
    <3> QED
      BY <3>1, <3>2
  <2> QED
    BY <2>4, <2>5, <2>6
<1> QED
  BY <1>0, <1>1, <1>2, <1>3

(* An answer, or a retry, changes nothing a handler relies on.             *)
LEMMA ReplyIInv ==
  ASSUME IInv, NEW r \in Resource, call[r] # Idle,
         NEW reply \in Reply \cup {NoReply}, NEW tries \in 0..RetryAttempts,
         call' = [call EXCEPT ![r].reply = reply, ![r].tries = tries],
         UNCHANGED <<bookVars, kind>>, clean' \in BOOLEAN,
         policies' \in [Name -> (Content \ Malformed) \cup {Gone}],
         projects' \in [Name -> Projects \cup {Gone}],
         jobs' \in [JobId -> Jobs \cup {Gone}],
         reply # NoReply =>
           /\ reply.id # NoId => kind[r] = "job" /\ reply.status = "200"
           /\ reply.id # NoId => IF call[r].pc = "Create" THEN reply.id \in JobId
                                 ELSE reply.id = call[r].data.id
           /\ call[r].pc = "Read" /\ reply.status = "200" =>
                /\ reply.content \in Stored
                /\ kind[r] = "job" => reply.id # NoId /\ reply.name \in Name
  PROVE  IInv'
<1> USE DEF bookVars
<1>1. call[r] \in Calls
  BY DEF IInv, TypeOK
<1>2. /\ call'[r] \in Calls /\ call'[r].pc = call[r].pc /\ call'[r].reply = reply
      /\ call'[r].rpc = call[r].rpc /\ call'[r].data = call[r].data
  BY <1>1 DEF Calls, IInv, TypeOK
<1>3. HandlerOK(r)'
  BY <1>2 DEF HandlerOK, IInv, Managed, Idle, At
<1>4. ReplyOK(r)'
  BY <1>2 DEF ReplyOK
<1>5. Only(r) /\ call' \in [Resource -> Calls]
  BY <1>2 DEF Only, IInv, TypeOK
<1> QED
  BY <1>3, <1>4, <1>5, OneRow DEF IInv, TypeOK, StateRow

LEMMA ServeIInv ==
  ASSUME IInv, NEW r \in Resource, Serve(r)
  PROVE  IInv'
<1>1. /\ Waiting(r) /\ Applied(r) /\ Reached(r, Answer(r))
      /\ UNCHANGED <<bookVars, kind, clean>>
  BY DEF Serve
<1>2. call' = [call EXCEPT ![r].reply = Answer(r), ![r].tries = call[r].tries]
  BY <1>1 DEF Reached, Calls, IInv, TypeOK
<1>3. /\ call[r] # Idle /\ call[r].tries \in 0..RetryAttempts /\ clean \in BOOLEAN
      /\ Answer(r) \in Reply \cup {NoReply}
  BY <1>1, WaitingData, AnswerReply DEF IInv, TypeOK, Calls
<1> QED
  BY <1>1, <1>2, <1>3, AnswerReply, AppliedTypes, ReplyIInv

(* What a request that is refused or lost gets for an answer.              *)
LEMMA DisturbFrame ==
  ASSUME IInv, NEW r \in Resource, Disturb(r)
  PROVE  /\ Waiting(r) /\ UNCHANGED <<bookVars, kind>> /\ clean' = FALSE
         /\ Applied(r) \/ UNCHANGED serverVars
         /\ AnswersArrive => UNCHANGED serverVars
         /\ \E status \in Status \ {"200", "400", "404", "409"} :
              Reached(r, Plain(status))
<1>1. PICK f \in env.faults :
        /\ IF f.applied THEN SpareIds(r) /\ Applied(r) ELSE UNCHANGED serverVars
        /\ Reached(r, Plain(f.status))
  BY DEF Disturb
<1>2. f.status \in Status \ {"200", "400", "404", "409"} /\ f.applied \in BOOLEAN
  BY EnvironmentAssumption DEF IInv, TypeOK, Fault, Status, NetworkErrors
<1> QED
  BY <1>1, <1>2 DEF Disturb, AnswersArrive

LEMMA DisturbIInv ==
  ASSUME IInv, NEW r \in Resource, Disturb(r)
  PROVE  IInv'
<1>1. PICK status \in Status \ {"200", "400", "404", "409"} : Reached(r, Plain(status))
  BY DisturbFrame
<1>2. call' = [call EXCEPT ![r].reply = Plain(status), ![r].tries = call[r].tries]
  BY <1>1 DEF Reached, Calls, IInv, TypeOK
<1>3. /\ call[r] # Idle /\ call[r].tries \in 0..RetryAttempts
      /\ Plain(status) \in Reply \cup {NoReply} /\ Plain(status).id = NoId
  BY DisturbFrame, WaitingData, PlainReply DEF IInv, TypeOK, Calls
<1>4. Plain(status).status # "200"
  BY PlainReply
<1>5. /\ policies' \in [Name -> (Content \ Malformed) \cup {Gone}]
      /\ projects' \in [Name -> Projects \cup {Gone}]
      /\ jobs' \in [JobId -> Jobs \cup {Gone}]
  BY DisturbFrame, AppliedTypes DEF serverVars, IInv, TypeOK
<1> QED
  BY <1>2, <1>3, <1>4, <1>5, DisturbFrame, ReplyIInv

LEMMA RetryFrame ==
  ASSUME IInv, NEW r \in Resource, Retry(r)
  PROVE  /\ call[r] # Idle /\ call[r].reply # NoReply
         /\ call[r].reply.status \notin {"200", "404", "409"}
         /\ UNCHANGED <<bookVars, serverVars, kind, clean>>
         /\ \E tries \in 0..RetryAttempts :
              call' = [call EXCEPT ![r].reply = NoReply, ![r].tries = tries]
<1> DEFINE tries == IF Counted(call[r].reply.status) THEN call[r].tries + 1
                                                     ELSE call[r].tries
<1>1. call[r] \in Calls /\ call[r] # Idle /\ CanRetry(r)
  BY DEF Retry, Resend, CanRetry, IInv, TypeOK, Idle, At
<1>2. tries \in 0..RetryAttempts
  BY <1>1, RetryAttemptsAssumption DEF CanRetry, MayRetry, Counted, Calls
<1>3. call' = [call EXCEPT ![r].reply = NoReply, ![r].tries = tries]
  BY <1>1 DEF Retry, Resend, Calls, IInv, TypeOK
<1> QED
  BY <1>1, <1>2, <1>3 DEF Retry, Resend, CanRetry, MayRetry

LEMMA RetryIInv ==
  ASSUME IInv, NEW r \in Resource, Retry(r)
  PROVE  IInv'
<1>1. PICK tries \in 0..RetryAttempts :
        call' = [call EXCEPT ![r].reply = NoReply, ![r].tries = tries]
  BY RetryFrame
<1>2. clean' \in BOOLEAN
  BY RetryFrame DEF IInv, TypeOK
<1>3. /\ policies' \in [Name -> (Content \ Malformed) \cup {Gone}]
      /\ projects' \in [Name -> Projects \cup {Gone}]
      /\ jobs' \in [JobId -> Jobs \cup {Gone}]
  BY RetryFrame DEF serverVars, IInv, TypeOK
<1>4. call[r] # Idle /\ UNCHANGED <<bookVars, kind>>
  BY RetryFrame
<1> QED
  BY <1>1, <1>2, <1>3, <1>4, ReplyIInv

(* What other people do on the server touches no handler.                  *)
LEMMA ElsewhereIInv == IInv /\ Elsewhere => IInv'
<1> SUFFICES ASSUME IInv, Elsewhere PROVE IInv'
  OBVIOUS
<1>1. policies' \in [Name -> (Content \ Malformed) \cup {Gone}]
  BY DEF Elsewhere, IInv, TypeOK
<1>2. projects' \in [Name -> Projects \cup {Gone}]
  BY DEF Elsewhere, IInv, TypeOK, Projects, Stored
<1>3. jobs' \in [JobId -> Jobs \cup {Gone}]
  BY DEF Elsewhere, IInv, TypeOK, Jobs
<1>4. UNCHANGED <<env, config, state, phase, outcome, call, kind>> /\ clean' \in BOOLEAN
  BY DEF Elsewhere, coreVars, bookVars
<1> QED
  BY <1>1, <1>2, <1>3, <1>4 DEF IInv, TypeOK, HandlerOK, ReplyOK, Managed

----------------------------------------------------------------------------
(* The handlers.  Whatever a handler makes of an answer, what its resource *)
(* owns (OwnedId) stays the same: it returns and core records just that,   *)
(* or it goes on with it, or it has lost it and starts anew.               *)

Records(r, object) ==
  IF object = NoObject THEN OwnedId(r) = NoId
                       ELSE IdOK(kind[r], object) /\ OwnedId(r) = object.id
Settles(r) ==
  /\ Return(r)
  /\ \E object \in Object \cup {NoObject}, tainted \in BOOLEAN :
       Records(r, object) /\ Record(r, object, tainted)
GoesOn(r) ==
  /\ state' = state /\ call[r] # Idle /\ call[r].rpc \notin {"delete", "replace"}
  /\ \E pc \in {"Read", "Update"}, data \in Object :
       /\ Send(r, pc, data)
       /\ IdOK(kind[r], data) /\ OwnedId(r) = data.id
       /\ call[r].rpc # "create" => data.id = state[r].object.id
       /\ pc = "Update" => /\ data.content \in Content
                           /\ kind[r] = "project" /\ call[r].rpc = "create"
StartsAnew(r) ==
  /\ OwnedId(r) = NoId /\ config[r] # NoBlock /\ phase \notin {"idle", "refresh"}
  /\ Record(r, NoObject, FALSE)
  /\ call' = [call EXCEPT ![r] = CallCreate(r)]

Keeps == UNCHANGED <<env, config, phase>> /\ outcome' \in Outcomes
Steady(r) == Keeps /\ (Settles(r) \/ GoesOn(r) \/ StartsAnew(r))

(* Until it is told otherwise, a handler's ResourceData has the id of what *)
(* its resource owns.                                                      *)
LEMMA OwnedAtWork ==
  ASSUME IInv, NEW r \in Resource, call[r] # Idle, ~Made(r), ~Ended(r)
  PROVE  OwnedId(r) = call[r].data.id
  BY DEF OwnedId, IInv, HandlerOK

LEMMA HeardData ==
  ASSUME IInv, NEW r \in Resource, NEW pc \in PCs, Heard(r, pc)
  PROVE  /\ call[r] # Idle /\ call[r].pc = pc /\ call[r].data \in Object
         /\ call[r].reply # NoReply /\ call[r].reply \in Reply
         /\ call[r].rpc # "none" /\ call[r].rpc \in RPCs
         /\ pc # "Create" => IdOK(kind[r], call[r].data)
         /\ pc = "Create" => call[r].data.id = NoId
<1>1. /\ call[r] # Idle /\ call[r].pc = pc /\ call[r].reply # NoReply
      /\ call[r].reply \in Reply /\ call[r].rpc \in RPCs
  BY DEF Heard, Idle, At, IInv, TypeOK, Calls
<1> QED
  BY <1>1 DEF IInv, HandlerOK

(* A handler returns with what its resource owns. *)
LEMMA RecordSettles ==
  ASSUME IInv, NEW r \in Resource, NEW object \in Object \cup {NoObject},
         NEW err \in BOOLEAN, Records(r, object),
         Refreshed(r, object) \/ Created(r, object, err) \/ Updated(r, object, err)
  PROVE  Steady(r)
<1>1. PICK tainted \in BOOLEAN : Record(r, object, tainted)
  <2>1. (object # NoObject /\ state[r].tainted) \in BOOLEAN
    OBVIOUS
  <2>2. (err /\ object # NoObject) \in BOOLEAN
    OBVIOUS
  <2> QED
    BY <2>1, <2>2 DEF Refreshed, Created, Updated
<1>2. Keeps
  BY DEF Keeps, Refreshed, Created, Updated, Note, Outcomes, IInv, TypeOK
<1>3. Return(r)
  BY DEF Refreshed, Created, Updated
<1> QED
  BY <1>1, <1>2, <1>3 DEF Steady, Settles

(* A handler fails, and core keeps what it had. *)
LEMMA FailureSettles ==
  ASSUME IInv, NEW r \in Resource, call[r] # Idle, ~Made(r), ~Ended(r),
         call[r].rpc # "create", RefreshFailed(r) \/ DeleteFailed(r)
  PROVE  Steady(r)
<1> DEFINE o == state[r].object
<1>1. /\ o \in Object \cup {NoObject} /\ o # NoObject
      /\ IdOK(kind[r], o) /\ OwnedId(r) = o.id
  BY OwnedAtWork DEF IInv, TypeOK, HandlerOK, Managed
<1>2. PICK tainted \in BOOLEAN : Record(r, o, tainted)
  <2>1. state[r].tainted \in BOOLEAN
    BY DEF IInv, TypeOK
  <2>2. RefreshFailed(r) => Record(r, o, state[r].tainted)
    BY DEF RefreshFailed, Record, IInv, TypeOK
  <2> QED
    BY <2>1, <2>2 DEF DeleteFailed
<1>3. Keeps
  BY DEF Keeps, RefreshFailed, DeleteFailed, Note, Outcomes, IInv, TypeOK
<1>4. Return(r)
  BY DEF RefreshFailed, DeleteFailed
<1> QED
  BY <1>1, <1>2, <1>3, <1>4 DEF Steady, Settles, Records

LEMMA ReadReturnsSettles ==
  ASSUME IInv, NEW r \in Resource, call[r] # Idle, ~Made(r), ~Ended(r),
         NEW object \in Object, NEW err \in BOOLEAN,
         IdOK(kind[r], object), object.id = call[r].data.id,
         ReadReturns(r, object, err)
  PROVE  Steady(r)
<1>1. Records(r, object)
  BY OwnedAtWork, ObjectAssumption DEF Records
<1> QED
  BY <1>1, RecordSettles, FailureSettles DEF ReadReturns

LEMMA SendGoesOn ==
  ASSUME IInv, NEW r \in Resource, call[r] # Idle, call[r].pc # "Delete",
         NEW pc \in {"Read", "Update"}, NEW data \in Object,
         Send(r, pc, data), UNCHANGED bookVars,
         IdOK(kind[r], data), OwnedId(r) = data.id,
         call[r].pc # "Create" => data.id = call[r].data.id,
         pc = "Update" => /\ data.content \in Content
                          /\ kind[r] = "project" /\ call[r].pc = "Create"
  PROVE  Steady(r)
<1>1. Keeps
  BY DEF Keeps, bookVars, IInv, TypeOK
<1>2. call[r].rpc \notin {"none", "delete", "replace"}
  BY DEF IInv, HandlerOK
<1>3. call[r].rpc # "create" => data.id = state[r].object.id
  BY <1>2 DEF IInv, HandlerOK
<1>4. pc = "Update" => call[r].rpc = "create"
  BY DEF IInv, HandlerOK
<1>5. state' = state
  BY DEF bookVars
<1> QED
  BY <1>1, <1>2, <1>3, <1>4, <1>5 DEF Steady, GoesOn

(* Exists and Read, the same for every kind. *)
LEMMA ExistsSteady ==
  ASSUME IInv, NEW r \in Resource, NEW op \in DOMAIN Accepted,
         Accepted[op] = {"200", "404"}, ObjectExists(r, op)
  PROVE  Steady(r)
<1> DEFINE d == call[r].data
<1>0. /\ call[r] # Idle /\ call[r].pc = "Exists" /\ call[r].reply # NoReply
      /\ d \in Object /\ IdOK(kind[r], d) /\ call[r].rpc = "refresh"
  BY HeardData DEF ObjectExists, PCs, IInv, HandlerOK
<1>1. CASE Err(r, op) /\ RefreshFailed(r)
  <2>1. ~Made(r) /\ ~Ended(r) /\ call[r].rpc # "create"
    BY <1>0, <1>1 DEF Made, Ended, Err, Code, Failed
  <2> QED
    BY <1>0, <1>1, <2>1, FailureSettles
<1>2. CASE Code(r) = "404" /\ Refreshed(r, NoObject)
  <2>1. OwnedId(r) = NoId
    BY <1>0, <1>2 DEF OwnedId, Made, Ended, Code
  <2> QED
    BY <1>2, <2>1, RecordSettles DEF Records
<1>3. CASE Code(r) = "200" /\ Send(r, "Read", d) /\ UNCHANGED bookVars
  <2>1. ~Made(r) /\ ~Ended(r)
    BY <1>0, <1>3 DEF Made, Ended, Code
  <2> QED
    BY <1>0, <1>3, <2>1, OwnedAtWork, SendGoesOn
<1> QED
  BY <1>1, <1>2, <1>3 DEF ObjectExists

LEMMA ReadSteady ==
  ASSUME IInv, NEW r \in Resource, NEW op \in DOMAIN Accepted,
         NEW found,
         Code(r) = "200" /\ Heard(r, "Read") =>
           found \in Object /\ IdOK(kind[r], found) /\ found.id = call[r].data.id,
         ReadObject(r, op, found)
  PROVE  Steady(r)
<1>0. /\ call[r] # Idle /\ call[r].pc = "Read" /\ Heard(r, "Read")
      /\ call[r].data \in Object /\ IdOK(kind[r], call[r].data)
      /\ ~Made(r) /\ ~Ended(r)
  BY HeardData DEF ReadObject, PCs, Made, Ended
<1> QED
  BY <1>0, ReadReturnsSettles DEF ReadObject

(* A destroy, and the first half of a replacement. *)
LEMMA DeleteSteady ==
  ASSUME IInv, NEW r \in Resource, NEW op \in DOMAIN Accepted,
         Accepted[op] = IF kind[r] = "project" THEN {"200"} ELSE {"200", "404"},
         DeleteObject(r, op)
  PROVE  Steady(r)
<1>0. /\ call[r] # Idle /\ call[r].pc = "Delete" /\ call[r].reply # NoReply
      /\ call[r].rpc \in {"delete", "replace"} /\ ~Made(r)
  BY HeardData DEF DeleteObject, PCs, Made, IInv, HandlerOK
<1>1. CASE Err(r, op) /\ DeleteFailed(r)
  <2>1. ~Ended(r) /\ call[r].rpc # "create"
    BY <1>0, <1>1 DEF Ended, Err, Code, Failed
  <2> QED
    BY <1>0, <1>1, <2>1, FailureSettles
<1>2. CASE ~Err(r, op) /\ Deleted(r, CallCreate(r))
  <2>1. OwnedId(r) = NoId
    BY <1>0, <1>2 DEF OwnedId, Ended, Err, Code, Failed
  <2>2. Keeps /\ Record(r, NoObject, FALSE)
    BY <1>2 DEF Deleted, Keeps, IInv, TypeOK
  <2>3. CASE call[r].rpc = "delete"
    <3>1. Return(r)
      BY <1>2, <2>3 DEF Deleted, Return
    <3> QED
      BY <2>1, <2>2, <3>1 DEF Steady, Settles, Records
  <2>4. CASE call[r].rpc = "replace"
    <3>1. call' = [call EXCEPT ![r] = CallCreate(r)] /\ config[r] # NoBlock
      BY <1>2, <2>4 DEF Deleted, IInv, HandlerOK
    <3>2. phase \notin {"idle", "refresh"}
      BY <1>0 DEF IInv, HandlerOK
    <3> QED
      BY <2>1, <2>2, <3>1, <3>2 DEF Steady, StartsAnew
  <2> QED
    BY <1>0, <2>3, <2>4
<1> QED
  BY <1>1, <1>2 DEF DeleteObject

(* A create or an update that leaves no doubt. *)
LEMMA NothingCreated ==
  ASSUME IInv, NEW r \in Resource, call[r].pc = "Create", ~Made(r),
         Created(r, NoObject, TRUE)
  PROVE  Steady(r)
<1>1. OwnedId(r) = NoId
  BY OwnedAtWork DEF IInv, HandlerOK, Ended, Idle, At
<1> QED
  BY <1>1, RecordSettles DEF Records

LEMMA UpdateSettles ==
  ASSUME IInv, NEW r \in Resource, call[r].pc = "Update", NEW err \in BOOLEAN,
         Updated(r, call[r].data, err)
  PROVE  Steady(r)
<1>0. /\ call[r] # Idle /\ call[r].data \in Object /\ IdOK(kind[r], call[r].data)
      /\ ~Made(r) /\ ~Ended(r) /\ call[r].data # NoObject
  BY ObjectAssumption DEF IInv, HandlerOK, Made, Ended, Idle, At
<1> QED
  BY <1>0, OwnedAtWork, RecordSettles DEF Records

LEMMA PolicySteady ==
  ASSUME IInv, NEW r \in Resource, AclPolicyHandler(r)
  PROVE  Steady(r)
<1> DEFINE d == call[r].data
<1>0. kind[r] = "policy"
  BY DEF AclPolicyHandler
<1>1. CASE AclPolicyExists(r)
  BY <1>1, ExistsSteady DEF AclPolicyExists, Accepted
<1>2. CASE ReadAclPolicy(r)
  <2> DEFINE found == [d EXCEPT !.content = call[r].reply.content]
  <2>1. ASSUME Code(r) = "200", Heard(r, "Read")
        PROVE  found \in Object /\ IdOK("policy", found) /\ found.id = d.id
    <3>1. d \in Object /\ IdOK(kind[r], d) /\ call[r].reply.content \in Stored
      BY <2>1, HeardData DEF PCs, IInv, ReplyOK, Code
    <3> QED
      BY <1>0, <3>1 DEF Object, IdOK
  <2> HIDE DEF found
  <2>2. ReadObject(r, "SystemACLPolicyGet", found)
    BY <1>2 DEF ReadAclPolicy, found
  <2> QED
    BY <1>0, <2>1, <2>2, ReadSteady DEF Accepted
<1>3. CASE CreateAclPolicy(r)
  <2>0. /\ Heard(r, "Create") /\ call[r].pc = "Create" /\ call[r].reply # NoReply
        /\ d \in Object
    BY <1>3, HeardData DEF CreateAclPolicy, PCs
  <2>1. CASE Code(r) = "200"
    <3> DEFINE object == [d EXCEPT !.id = d.name]
    <3>1. object \in Object /\ object.id = d.name /\ object.name = d.name
      BY <2>0 DEF Object, Id
    <3>2. OwnedId(r) = d.name /\ Created(r, object, FALSE)
      BY <1>0, <1>3, <2>0, <2>1 DEF CreateAclPolicy, OwnedId, Made, Code
    <3> HIDE DEF object
    <3> QED
      BY <1>0, <3>1, <3>2, RecordSettles, ObjectAssumption DEF Records, IdOK
  <2>2. CASE Code(r) # "200"
    <3>1. ~Made(r) /\ Created(r, NoObject, TRUE)
      BY <1>0, <1>3, <2>2 DEF Made, Code, CreateAclPolicy
    <3> QED
      BY <2>0, <3>1, NothingCreated
  <2> QED
    BY <2>1, <2>2
<1>4. CASE UpdateAclPolicy(r)
  <2>1. PICK err \in BOOLEAN : Updated(r, d, err)
    <3>1. Err(r, "SystemACLPolicyUpdate") \in BOOLEAN
      BY DEF Err, Failed
    <3> QED
      BY <1>4, <3>1 DEF UpdateAclPolicy
  <2>2. call[r].pc = "Update"
    BY <1>4 DEF UpdateAclPolicy, Heard
  <2> QED
    BY <2>1, <2>2, UpdateSettles
<1>5. CASE AclPolicyDelete(r)
  BY <1>0, <1>5, DeleteSteady DEF AclPolicyDelete, Accepted
<1> QED
  BY <1>1, <1>2, <1>3, <1>4, <1>5 DEF AclPolicyHandler

LEMMA ProjectSteady ==
  ASSUME IInv, NEW r \in Resource, ProjectHandler(r)
  PROVE  Steady(r)
<1> DEFINE d == call[r].data
<1>0. kind[r] = "project"
  BY DEF ProjectHandler
<1>1. CASE ProjectExists(r)
  BY <1>1, ExistsSteady DEF ProjectExists, Accepted
<1>2. CASE ReadProject(r)
  <2> DEFINE found == [d EXCEPT !.content = call[r].reply.content]
  <2>1. ASSUME Code(r) = "200", Heard(r, "Read")
        PROVE  found \in Object /\ IdOK("project", found) /\ found.id = d.id
    <3>1. d \in Object /\ IdOK(kind[r], d) /\ call[r].reply.content \in Stored
      BY <2>1, HeardData DEF PCs, IInv, ReplyOK, Code
    <3> QED
      BY <1>0, <3>1 DEF Object, IdOK
  <2> HIDE DEF found
  <2>2. ReadObject(r, "ProjectGet", found)
    BY <1>2 DEF ReadProject, found
  <2> QED
    BY <1>0, <2>1, <2>2, ReadSteady DEF Accepted
<1>3. CASE CreateProject(r)
  <2>0. /\ Heard(r, "Create") /\ call[r].pc = "Create" /\ call[r].reply # NoReply
        /\ call[r] # Idle /\ d \in Object /\ d.content \in Content
    BY <1>3, HeardData DEF CreateProject, PCs, IInv, HandlerOK
  <2>1. CASE Err(r, "ProjectCreate")
    <3>1. ~Made(r) /\ Created(r, NoObject, TRUE)
      BY <1>0, <1>3, <2>1 DEF Made, Code, Err, Failed, Accepted, CreateProject
    <3> QED
      BY <2>0, <3>1, NothingCreated
  <2>2. CASE ~Err(r, "ProjectCreate")
    <3> DEFINE data == [d EXCEPT !.id = d.name]
    <3>1. /\ data \in Object /\ data.id = d.name /\ data.name = d.name
          /\ data.content \in Content
      BY <2>0 DEF Object, Id
    <3>2. Made(r) /\ OwnedId(r) = d.name /\ Send(r, "Update", data) /\ UNCHANGED bookVars
      BY <1>0, <1>3, <2>0, <2>2
      DEF CreateProject, OwnedId, Made, Code, Err, Failed, Accepted
    <3> HIDE DEF data
    <3> QED
      BY <1>0, <2>0, <3>1, <3>2, SendGoesOn DEF IdOK
  <2> QED
    BY <2>1, <2>2
<1>4. CASE UpdateProject(r)
  <2>0. /\ call[r].pc = "Update" /\ call[r] # Idle /\ d \in Object /\ IdOK(kind[r], d)
        /\ ~Made(r) /\ ~Ended(r)
    BY <1>4, HeardData DEF UpdateProject, PCs, Made, Ended
  <2>1. CASE ReadReturns(r, d, TRUE)
    BY <2>0, <2>1, ReadReturnsSettles
  <2>2. CASE Send(r, "Read", d) /\ UNCHANGED bookVars
    BY <2>0, <2>2, OwnedAtWork, SendGoesOn
  <2> QED
    BY <1>4, <2>1, <2>2 DEF UpdateProject
<1>5. CASE DeleteProject(r)
  BY <1>0, <1>5, DeleteSteady DEF DeleteProject, Accepted
<1> QED
  BY <1>1, <1>2, <1>3, <1>4, <1>5 DEF ProjectHandler

LEMMA ImportSteady ==
  ASSUME IInv, NEW r \in Resource, kind[r] = "job", ImportJob(r)
  PROVE  Steady(r)
<1> DEFINE d == call[r].data
           i == call[r].reply.id
<1>0. /\ call[r].pc \in {"Create", "Update"} /\ call[r].reply # NoReply
      /\ call[r] # Idle /\ d \in Object /\ ~Ended(r)
      /\ call[r].pc = "Create" <=> call[r].rpc = "create"
  BY HeardData DEF ImportJob, PCs, Ended, IInv, HandlerOK
<1>1. CASE ImportFails(r)
  <2>1. CASE call[r].rpc = "create" /\ Created(r, NoObject, TRUE)
    <3>1. OwnedId(r) = NoId
      BY <1>0, <1>1, <2>1, HeardData
      DEF OwnedId, Made, Code, ImportFails, Err, Failed, Accepted, ImportJob, PCs
    <3> QED
      BY <2>1, <3>1, RecordSettles DEF Records
  <2>2. CASE call[r].rpc = "update" /\ Updated(r, d, TRUE)
    BY <1>0, <2>2, UpdateSettles
  <2> QED
    BY <1>1, <2>1, <2>2 DEF ImportJob
<1>2. CASE ~ImportFails(r)
  <2> DEFINE data == [d EXCEPT !.id = i]
  <2>1. /\ call[r].reply.status = "200" /\ i # NoId
        /\ IF call[r].pc = "Create" THEN i \in JobId ELSE i = d.id
    BY <1>0, <1>2 DEF ImportFails, Err, Failed, Accepted, Code, IInv, ReplyOK
  <2>2. i \in JobId
    BY <1>0, <2>1 DEF IInv, HandlerOK, IdOK
  <2>3. data \in Object /\ data.id = i
    BY <1>0, <2>2 DEF Object, Id
  <2>4. OwnedId(r) = i
    BY <1>0, <2>1, OwnedAtWork DEF OwnedId, Made, Code
  <2>5. Send(r, "Read", data) /\ UNCHANGED bookVars
    BY <1>2 DEF ImportJob
  <2> HIDE DEF data
  <2> QED
    BY <1>0, <2>1, <2>2, <2>3, <2>4, <2>5, SendGoesOn DEF IdOK
<1> QED
  BY <1>1, <1>2

LEMMA JobSteady ==
  ASSUME IInv, NEW r \in Resource, JobHandler(r)
  PROVE  Steady(r)
<1> DEFINE d == call[r].data
<1>0. kind[r] = "job"
  BY DEF JobHandler
<1>1. CASE JobExists(r)
  BY <1>1, ExistsSteady DEF JobExists, Accepted
<1>2. CASE ReadJob(r)
  <2> DEFINE found == [id |-> call[r].reply.id, name |-> call[r].reply.name,
                       content |-> call[r].reply.content]
  <2>1. ASSUME Code(r) = "200", Heard(r, "Read")
        PROVE  found \in Object /\ IdOK("job", found) /\ found.id = d.id
    <3>1. /\ d \in Object /\ IdOK(kind[r], d) /\ call[r].reply.content \in Stored
          /\ call[r].reply.id = d.id /\ call[r].reply.name \in Name
      BY <1>0, <2>1, HeardData DEF PCs, IInv, ReplyOK, Code
    <3> QED
      BY <1>0, <3>1 DEF Object, IdOK
  <2> HIDE DEF found
  <2>2. ReadObject(r, "JobGet", found)
    BY <1>2 DEF ReadJob, found
  <2> QED
    BY <1>0, <2>1, <2>2, ReadSteady DEF Accepted
<1>3. CASE ImportJob(r)
  BY <1>0, <1>3, ImportSteady
<1>4. CASE RejectJob(r)
  <2>1. call[r].pc \in {"Create", "Update"} /\ call[r].reply = NoReply /\ ~Made(r)
    BY <1>4 DEF RejectJob, Waiting, Made
  <2>2. CASE call[r].rpc = "create" /\ Created(r, NoObject, TRUE)
    <3>1. call[r].pc = "Create"
      BY <1>0, <2>1, <2>2 DEF IInv, HandlerOK
    <3> QED
      BY <2>1, <2>2, <3>1, NothingCreated
  <2>3. CASE call[r].rpc = "update" /\ Updated(r, d, TRUE)
    <3>1. call[r].pc = "Update"
      BY <2>1, <2>3 DEF IInv, HandlerOK
    <3> QED
      BY <2>3, <3>1, UpdateSettles
  <2> QED
    BY <1>4, <2>2, <2>3 DEF RejectJob
<1>5. CASE DeleteJob(r)
  BY <1>0, <1>5, DeleteSteady DEF DeleteJob, Accepted
<1> QED
  BY <1>1, <1>2, <1>3, <1>4, <1>5 DEF JobHandler

LEMMA HandlerSteady ==
  ASSUME IInv, NEW r \in Resource, Handler(r)
  PROVE  Steady(r) /\ UNCHANGED <<serverVars, kind, clean>>
  BY PolicySteady, ProjectSteady, JobSteady DEF Handler

(* Its rows before and after. *)
LEMMA SteadyRows ==
  ASSUME IInv, NEW r \in Resource, Steady(r), UNCHANGED kind
  PROVE  /\ Only(r) /\ call' \in [Resource -> Calls] /\ state' \in [Resource -> StateRow]
         /\ OwnedId(r)' = OwnedId(r) /\ call'[r].reply = NoReply
         /\ HandlerOK(r)'
<1>0. DOMAIN call = Resource /\ DOMAIN state = Resource
  BY DEF IInv, TypeOK
<1>1. CASE Settles(r)
  <2>1. PICK object \in Object \cup {NoObject}, tainted \in BOOLEAN :
          Records(r, object) /\ Record(r, object, tainted)
    BY <1>1 DEF Settles
  <2>2. call'[r] = Idle /\ Idle \in Calls /\ call' = [call EXCEPT ![r] = Idle]
    BY <1>0, <1>1, RetryAttemptsAssumption
    DEF Settles, Return, Idle, At, Calls, RPCs, PCs, Quiet
  <2>3. /\ state' = [state EXCEPT ![r] = [object |-> object, tainted |-> tainted]]
        /\ state'[r].object = object
    BY <1>0, <2>1 DEF Record
  <2>4. Only(r) /\ call' \in [Resource -> Calls] /\ state' \in [Resource -> StateRow]
    BY <2>2, <2>3 DEF Only, IInv, TypeOK, StateRow
  <2>5. OwnedId(r)' = IF object = NoObject THEN NoId ELSE object.id
    BY <2>2, <2>3 DEF OwnedId, Made, Ended, Managed, Idle, At
  <2>6. HandlerOK(r)'
    BY <2>1, <2>2, <2>3 DEF HandlerOK, Managed, Idle, At, Records
  <2> QED
    BY <2>1, <2>2, <2>4, <2>5, <2>6 DEF Records, Idle, At
<1>2. CASE GoesOn(r)
  <2>1. PICK pc \in {"Read", "Update"}, data \in Object :
          /\ Send(r, pc, data)
          /\ IdOK(kind[r], data) /\ OwnedId(r) = data.id
          /\ call[r].rpc # "create" => data.id = state[r].object.id
          /\ pc = "Update" => /\ data.content \in Content
                              /\ kind[r] = "project" /\ call[r].rpc = "create"
    BY <1>2 DEF GoesOn
  <2>2. /\ call[r].rpc \in RPCs \ {"none", "delete", "replace"} /\ state' = state
        /\ call[r].rpc # "create" => Managed(r)
    BY <1>2 DEF GoesOn, IInv, HandlerOK, TypeOK, Calls
  <2>3. /\ call'[r] = At(call[r].rpc, pc, data) /\ call'[r] \in Calls
        /\ call' = [call EXCEPT ![r] = call'[r]]
    BY <1>0, <2>1, <2>2, RetryAttemptsAssumption DEF Send, At, Calls, PCs
  <2>4. Only(r) /\ call' \in [Resource -> Calls] /\ state' \in [Resource -> StateRow]
    BY <2>2, <2>3 DEF Only, IInv, TypeOK, StateRow
  <2>5. OwnedId(r)' = data.id
    <3>1. /\ call'[r].reply = NoReply /\ call'[r].rpc = call[r].rpc
          /\ call'[r].data = data
      BY <2>3 DEF At
    <3>2. ~Made(r)' /\ ~Ended(r)'
      BY <3>1 DEF Made, Ended
    <3>3. call[r].rpc # "create" => Managed(r)' /\ state'[r].object.id = data.id
      BY <2>1, <2>2 DEF Managed
    <3> QED
      BY <3>1, <3>2, <3>3 DEF OwnedId
  <2>6. HandlerOK(r)'
    BY <2>1, <2>2, <2>3 DEF HandlerOK, IInv, Managed, Idle, At, Steady, Keeps
  <2> QED
    BY <2>1, <2>3, <2>4, <2>5, <2>6 DEF At
<1>3. CASE StartsAnew(r)
  <2>1. config[r] \in Block
    BY <1>3 DEF StartsAnew, IInv, TypeOK
  <2> DEFINE new == CallCreate(r)
  <2>2. /\ new.rpc = "create" /\ new.pc = "Create" /\ new.reply = NoReply
        /\ new \in Calls /\ new.data \in Object /\ new.data.id = NoId
        /\ new.data.content \in Content
    BY <2>1, RetryAttemptsAssumption
    DEF CallCreate, NewObject, At, Calls, RPCs, PCs, Object, Block, Stored
  <2> HIDE DEF new
  <2>3. /\ call' = [call EXCEPT ![r] = new] /\ call'[r] = new
        /\ state' = [state EXCEPT ![r] = [object |-> NoObject, tainted |-> FALSE]]
        /\ state'[r].object = NoObject
    BY <1>0, <1>3 DEF StartsAnew, Record, new
  <2>4. Only(r) /\ call' \in [Resource -> Calls] /\ state' \in [Resource -> StateRow]
    BY <2>2, <2>3 DEF Only, IInv, TypeOK, StateRow
  <2>5. OwnedId(r)' = NoId
    BY <2>2, <2>3 DEF OwnedId, Made, Ended
  <2>6. HandlerOK(r)'
    BY <1>3, <2>2, <2>3 DEF HandlerOK, Managed, Idle, At, Steady, StartsAnew, Keeps
  <2> QED
    BY <1>3, <2>2, <2>3, <2>4, <2>5, <2>6 DEF StartsAnew
<1> QED
  BY <1>1, <1>2, <1>3 DEF Steady

LEMMA HandlerIInv ==
  ASSUME IInv, NEW r \in Resource, Handler(r)
  PROVE  IInv'
<1>1. Steady(r) /\ UNCHANGED <<serverVars, kind, clean>>
  BY HandlerSteady
<1>2. /\ Only(r) /\ call' \in [Resource -> Calls] /\ state' \in [Resource -> StateRow]
      /\ call'[r].reply = NoReply /\ HandlerOK(r)'
  BY <1>1, SteadyRows
<1>3. ReplyOK(r)'
  BY <1>2 DEF ReplyOK
<1> QED
  BY <1>1, <1>2, <1>3, OneRow DEF Steady, Keeps, serverVars, IInv, TypeOK

----------------------------------------------------------------------------
(* Runs. *)

(* The calls that a phase starts with. *)
LEMMA CallsIInv ==
  ASSUME IInv, UNCHANGED <<env, config, state, serverVars, kind>>,
         phase' \in Phases, outcome' \in Outcomes, clean' \in BOOLEAN,
         call' \in [Resource -> Calls],
         \A r \in Resource : call'[r].reply = NoReply /\ HandlerOK(r)'
  PROVE  IInv'
<1>1. \A r \in Resource : ReplyOK(r)'
  BY DEF ReplyOK
<1> QED
  BY <1>1 DEF IInv, TypeOK, serverVars

LEMMA IdleHandlerOK ==
  ASSUME IInv, NEW r \in Resource, UNCHANGED <<state, kind, config>>, call'[r] = Idle
  PROVE  HandlerOK(r)' /\ OwnedId(r)' = IF Managed(r) THEN state[r].object.id ELSE NoId
  BY DEF IInv, HandlerOK, Managed, Idle, At, OwnedId, Made, Ended

LEMMA IdleOwned ==
  ASSUME NEW r \in Resource, call[r] = Idle
  PROVE  OwnedId(r) = IF Managed(r) THEN state[r].object.id ELSE NoId
  BY DEF OwnedId, Made, Ended, Idle, At

LEMMA StartRows ==
  ASSUME IInv, Start
  PROVE  /\ call' \in [Resource -> Calls]
         /\ \A r \in Resource : /\ call[r] = Idle /\ call'[r].reply = NoReply
                                /\ HandlerOK(r)' /\ OwnedId(r)' = OwnedId(r)
                                /\ call'[r] # Idle => call'[r].data = state[r].object
<1> USE DEF Start, StartRun
<1>0. Idle \in Calls
  BY RetryAttemptsAssumption DEF Idle, At, Calls, RPCs, PCs, Quiet
<1>1. ASSUME NEW r \in Resource
      PROVE  /\ call'[r] \in Calls /\ call[r] = Idle /\ call'[r].reply = NoReply
             /\ HandlerOK(r)' /\ OwnedId(r)' = OwnedId(r)
             /\ call'[r] # Idle => call'[r].data = state[r].object
  <2>0. call[r] = Idle
    BY DEF IInv, HandlerOK
  <2>1. CASE ~Managed(r)
    BY <1>0, <2>0, <2>1, IdleHandlerOK, IdleOwned DEF Idle, At
  <2>2. CASE Managed(r)
    <3>1. /\ state[r].object \in Object /\ IdOK(kind[r], state[r].object)
          /\ call'[r] = At("refresh", "Exists", state[r].object)
      BY <2>2 DEF IInv, TypeOK, HandlerOK, Managed
    <3>2. call'[r] \in Calls /\ call'[r].reply = NoReply
      BY <3>1, RetryAttemptsAssumption DEF At, Calls, RPCs, PCs
    <3>3. HandlerOK(r)'
      BY <2>2, <3>1 DEF HandlerOK, Managed, At, Idle
    <3>4. OwnedId(r)' = OwnedId(r)
      BY <2>0, <2>2, <3>1, IdleOwned DEF OwnedId, Made, Ended, Managed, At
    <3> QED
      BY <2>0, <3>1, <3>2, <3>3, <3>4 DEF At
  <2> QED
    BY <2>1, <2>2
<1> QED
  BY <1>1

PlanRow(r) ==
  /\ call[r] = Idle /\ call'[r].reply = NoReply
  /\ HandlerOK(r)' /\ OwnedId(r)' = OwnedId(r)
  /\ call'[r] # Idle => \/ call'[r].data.id = NoId
                        \/ Managed(r) /\ call'[r].data.id = state[r].object.id

LEMMA PlanRows ==
  ASSUME IInv, PlanAll
  PROVE  call' \in [Resource -> Calls] /\ \A r \in Resource : PlanRow(r)
<1> USE DEF PlanAll, PlanObjects, Plan, PlanRow
<1>0. Idle \in Calls
  BY RetryAttemptsAssumption DEF Idle, At, Calls, RPCs, PCs, Quiet
<1>1. ASSUME NEW r \in Resource
      PROVE  PlanRow(r) /\ call'[r] \in Calls
  <2>0. /\ call[r] = Idle /\ call'[r] = PlanObject(r)
        /\ config[r] \in Block \cup {NoBlock}
        /\ Managed(r) => state[r].object \in Object /\ IdOK(kind[r], state[r].object)
    BY DEF AllIdle, IInv, TypeOK, HandlerOK, Managed
  <2>1. CASE call'[r] = Idle
    BY <1>0, <2>0, <2>1, IdleHandlerOK, IdleOwned DEF Idle, At
  <2>2. CASE config[r] # NoBlock /\ ~Managed(r) /\ call'[r] = CallCreate(r)
    <3> DEFINE new == CallCreate(r)
    <3>1. /\ new.rpc = "create" /\ new.pc = "Create" /\ new.reply = NoReply
          /\ new \in Calls /\ new.data \in Object /\ new.data.id = NoId
          /\ new.data.content \in Content
      BY <2>0, <2>2, RetryAttemptsAssumption
      DEF CallCreate, NewObject, At, Calls, RPCs, PCs, Object, Block, Stored
    <3> HIDE DEF new
    <3>2. call'[r] = new
      BY <2>2 DEF new
    <3>3. HandlerOK(r)' /\ OwnedId(r)' = NoId
      BY <2>2, <3>1, <3>2 DEF HandlerOK, OwnedId, Made, Ended, Managed, Idle, At
    <3> QED
      BY <2>0, <2>2, <3>1, <3>2, <3>3, IdleOwned
  <2>3. CASE config[r] # NoBlock /\ Managed(r) /\ call'[r] = CallUpdate(r)
    <3> DEFINE new == CallUpdate(r)
    <3>1. /\ new.rpc = "update" /\ new.pc = "Update" /\ new.reply = NoReply
          /\ new \in Calls /\ new.data \in Object /\ new.data.content \in Content
          /\ new.data.id = state[r].object.id /\ IdOK(kind[r], new.data)
      BY <2>0, <2>3, RetryAttemptsAssumption
      DEF CallUpdate, At, Calls, RPCs, PCs, Object, Block, Stored, IdOK
    <3> HIDE DEF new
    <3>2. call'[r] = new
      BY <2>3 DEF new
    <3>3. HandlerOK(r)' /\ OwnedId(r)' = state[r].object.id
      BY <2>0, <2>3, <3>1, <3>2
      DEF HandlerOK, OwnedId, Made, Ended, Managed, Idle, At
    <3> QED
      BY <2>0, <2>3, <3>1, <3>2, <3>3, IdleOwned
  <2>4. ASSUME NEW rpc \in {"delete", "replace"}, Managed(r),
               rpc = "replace" => config[r] # NoBlock, call'[r] = CallDelete(r, rpc)
        PROVE  PlanRow(r) /\ call'[r] \in Calls
    <3> DEFINE new == CallDelete(r, rpc)
    <3>1. /\ new.rpc = rpc /\ new.pc = "Delete" /\ new.reply = NoReply
          /\ new \in Calls /\ new.data = state[r].object
      BY <2>0, <2>4, RetryAttemptsAssumption DEF CallDelete, At, Calls, RPCs, PCs
    <3> HIDE DEF new
    <3>2. call'[r] = new
      BY <2>4 DEF new
    <3>3. HandlerOK(r)' /\ OwnedId(r)' = state[r].object.id
      BY <2>0, <2>4, <3>1, <3>2
      DEF HandlerOK, OwnedId, Made, Ended, Managed, Idle, At
    <3> QED
      BY <2>0, <2>4, <3>1, <3>2, <3>3, IdleOwned
  <2> QED
    BY <2>0, <2>1, <2>2, <2>3, <2>4 DEF PlanObject, Action
<1> QED
  BY <1>1

(* The end of a run, and an edit between runs, find every handler idle.    *)
LEMMA QuietIInv ==
  ASSUME IInv, End \/ (\E r \in Resource : Edit(r))
  PROVE  IInv' /\ UNCHANGED <<env, state, call, serverVars, kind>>
<1>1. /\ UNCHANGED <<env, state, call, serverVars, kind>>
      /\ clean' \in BOOLEAN /\ phase' \in Phases /\ outcome' = outcome
      /\ config' \in [Resource -> Block \cup {NoBlock}]
  BY DEF End, EndRun, Edit, EditConfig, Phases, IInv, TypeOK
<1>2. \A r \in Resource : call[r] = Idle
  BY DEF End, EndRun, AllIdle, Edit, EditConfig, IInv, HandlerOK
<1>3. ASSUME NEW r \in Resource PROVE HandlerOK(r)' /\ ReplyOK(r)'
  BY <1>1, <1>2 DEF IInv, HandlerOK, ReplyOK, Managed, Idle, At
<1> QED
  BY <1>1, <1>3 DEF IInv, TypeOK, serverVars

LEMMA PhaseIInv ==
  ASSUME IInv, Start \/ PlanAll \/ End \/ (\E r \in Resource : Edit(r))
  PROVE  IInv'
<1>1. CASE Start
  <2>1. clean' \in BOOLEAN
    <3>1. (~Contested) \in BOOLEAN
      OBVIOUS
    <3> QED
      BY <1>1, <3>1 DEF Start
  <2> QED
    BY <1>1, <2>1, StartRows, CallsIInv DEF Start, StartRun, Phases, Outcomes
<1>2. CASE PlanAll
  BY <1>2, PlanRows, CallsIInv
  DEF PlanAll, PlanObjects, Plan, PlanRow, Phases, IInv, TypeOK
<1> QED
  BY <1>1, <1>2, QuietIInv

LEMMA NextIInv == IInv /\ [Next]_vars => IInv'
<1> SUFFICES ASSUME IInv, [Next]_vars PROVE IInv'
  OBVIOUS
<1>1. CASE UNCHANGED vars
  BY <1>1 DEF vars, coreVars, bookVars, serverVars, IInv, TypeOK, HandlerOK, ReplyOK, Managed
<1> QED
  BY <1>1, ServeIInv, DisturbIInv, RetryIInv, HandlerIInv, ElsewhereIInv, PhaseIInv
  DEF Next, Step

LEMMA InductiveInvariant == Spec => []IInv
  BY InitIInv, NextIInv, PTL DEF Spec

(* Whatever is lost, refused, retried or written by others: objects,       *)
(* answers and handlers are of their types, and what a handler at work     *)
(* goes by exists.                                                         *)
THEOREM WorkspaceTypeCorrect == Spec => []TypeOK
<1>1. IInv => TypeOK
  BY DEF IInv
<1> QED
  BY InductiveInvariant, <1>1, PTL
=============================================================================
