------------------------ MODULE ObjectOwnership_proofs ------------------------
(***************************************************************************)
(* Proofs that ACL policies, projects and jobs implement Ownership, that   *)
(* no job is lost or shared, and that a refresh forgets no object that the *)
(* server holds.                                                           *)
(***************************************************************************)
EXTENDS Workspace_proofs

Trusted == AnswersArrive /\ ~env.others

(* Where the id i is remembered on behalf of r. *)
Holds(r, i) ==
  \/ Managed(r) /\ state[r].object.id = i
  \/ call[r] # Idle /\ call[r].data.id = i
  \/ call[r].reply # NoReply /\ call[r].reply.id = i

UniqueIds == \A r, s \in Resource, i \in JobId :
  kind[r] = "job" /\ kind[s] = "job" /\ Holds(r, i) /\ Holds(s, i) => r = s

(* Nobody brings back a job that its resource has been told is gone.       *)
EndedOK(r) == kind[r] = "job" /\ Ended(r) => jobs[call[r].data.id] = Gone

Remembered == AnswersArrive =>
  \A i \in JobId : jobs[i] # Gone => \E r \in Resource : kind[r] = "job" /\ OwnedId(r) = i

(* A refresh is told that an object is gone only if it is. *)
SeenOK(r) ==
  ~env.others /\ phase = "refresh" /\ call[r].pc = "Exists" /\ Ended(r) =>
    Held(kind[r], state[r].object) = Gone

(* In a trusted world it is told so of no policy and no job.               *)
AnswerOK(r) ==
  Trusted /\ kind[r] # "project" /\ call[r].pc = "Exists" => ~Ended(r)

----------------------------------------------------------------------------
(* What the steps do to the ids that resources remember and own. *)

LEMMA OwnedHeld ==
  ASSUME IInv, NEW r \in Resource, NEW i \in JobId, kind[r] = "job", OwnedId(r) = i
  PROVE  Holds(r, i)
<1>1. i # NoId
  BY ObjectAssumption DEF Id
<1>2. call[r].rpc = "create" => call[r] # Idle
  BY DEF Idle, At
<1> QED
  BY <1>1, <1>2 DEF OwnedId, Holds, Made

(* Who has an id, has a proper one. *)
LEMMA OwnedType ==
  ASSUME IInv, NEW r \in Resource, OwnedId(r) # NoId
  PROVE  OwnedId(r) \in IF kind[r] = "job" THEN JobId ELSE Name
<1>1. CASE Made(r)
  <2>1. call[r] # Idle /\ call[r].data \in Object /\ call[r].reply # NoReply
        /\ call[r].pc = "Create"
    BY <1>1 DEF Made, Idle, At, IInv, HandlerOK
  <2> QED
    BY <1>1, <2>1 DEF OwnedId, IInv, ReplyOK, Object
<1>2. CASE ~Made(r) /\ call[r].rpc = "create"
  <2>1. call[r] # Idle
    BY <1>2 DEF Idle, At
  <2>2. call[r].data \in Object /\ IdOK(kind[r], call[r].data)
    BY <1>2, <2>1 DEF OwnedId, IInv, HandlerOK
  <2> QED
    BY <1>2, <2>2 DEF OwnedId, IdOK, Object
<1>3. CASE ~Made(r) /\ call[r].rpc # "create"
  <2>1. Managed(r) /\ OwnedId(r) = state[r].object.id
    BY <1>3 DEF OwnedId
  <2>2. state[r].object \in Object /\ IdOK(kind[r], state[r].object)
    BY <2>1 DEF Managed, IInv, TypeOK, HandlerOK
  <2> QED
    BY <2>1, <2>2 DEF IdOK, Object
<1> QED
  BY <1>1, <1>2, <1>3

LEMMA SameRow ==
  ASSUME NEW s \in Resource, state'[s] = state[s], call'[s] = call[s], UNCHANGED kind
  PROVE  /\ OwnedId(s)' = OwnedId(s) /\ Ended(s)' = Ended(s)
         /\ \A i : Holds(s, i)' = Holds(s, i)
  BY DEF OwnedId, Made, Ended, Managed, Holds

LEMMA HandlerIds ==
  ASSUME IInv, NEW r \in Resource, Handler(r)
  PROVE  /\ Only(r) /\ OwnedId(r)' = OwnedId(r) /\ ~Ended(r)'
         /\ UNCHANGED <<env, phase, serverVars, kind>>
         /\ \A i \in JobId : kind[r] = "job" /\ Holds(r, i)' => Holds(r, i)
<1>1. Steady(r) /\ UNCHANGED <<serverVars, kind, clean>>
  BY HandlerSteady
<1>2. /\ Only(r) /\ OwnedId(r)' = OwnedId(r) /\ call'[r].reply = NoReply
      /\ DOMAIN call = Resource /\ DOMAIN state = Resource
  BY <1>1, SteadyRows DEF IInv, TypeOK
<1>3. ASSUME NEW i \in JobId, kind[r] = "job", Holds(r, i)' PROVE Holds(r, i)
  <2>0. i # NoId
    BY ObjectAssumption DEF Id
  <2>1. CASE Settles(r)
    <3>1. PICK object \in Object \cup {NoObject}, tainted \in BOOLEAN :
            Records(r, object) /\ Record(r, object, tainted)
      BY <2>1 DEF Settles
    <3>2. call'[r] = Idle /\ state'[r].object = object
      BY <1>2, <2>1, <3>1 DEF Settles, Return, Record
    <3>3. object # NoObject /\ object.id = i
      BY <1>3, <3>2 DEF Holds, Managed, Idle, At
    <3> QED
      BY <1>3, <3>1, <3>3, OwnedHeld DEF Records
  <2>2. CASE GoesOn(r)
    <3>1. PICK pc \in {"Read", "Update"}, data \in Object :
            Send(r, pc, data) /\ OwnedId(r) = data.id
      BY <2>2 DEF GoesOn
    <3>2. call'[r].data = data /\ state' = state
      BY <1>2, <2>2, <3>1 DEF Send, At, GoesOn
    <3> QED
      BY <1>2, <1>3, <3>1, <3>2, OwnedHeld DEF Holds, Managed
  <2>3. CASE StartsAnew(r)
    <3>1. call'[r].data.id = NoId /\ state'[r].object = NoObject
      BY <1>2, <2>3 DEF StartsAnew, Record, CallCreate, NewObject, At
    <3> QED
      BY <1>2, <1>3, <2>0, <3>1 DEF Holds, Managed
  <2> QED
    BY <1>1, <2>1, <2>2, <2>3 DEF Steady
<1>4. ~Ended(r)'
  BY <1>2 DEF Ended
<1> QED
  BY <1>1, <1>2, <1>3, <1>4 DEF Steady, Keeps

(* An answer that says nothing of an object, and a retry of one.           *)
LEMMA RequestRow ==
  ASSUME IInv, NEW r \in Resource, UNCHANGED <<bookVars, kind>>, call[r] # Idle,
         NEW reply, NEW tries,
         call' = [call EXCEPT ![r].reply = reply, ![r].tries = tries]
  PROVE  /\ Only(r) /\ Managed(r)' = Managed(r)
         /\ call'[r].pc = call[r].pc /\ call'[r].rpc = call[r].rpc
         /\ call'[r].data = call[r].data /\ call'[r].reply = reply
<1>1. call[r] \in Calls /\ DOMAIN call = Resource
  BY DEF IInv, TypeOK
<1> QED
  BY <1>1 DEF Only, Calls, bookVars, Managed

LEMMA DisturbIds ==
  ASSUME IInv, NEW r \in Resource, Disturb(r)
  PROVE  /\ Only(r) /\ OwnedId(r)' = OwnedId(r) /\ ~Ended(r)'
         /\ UNCHANGED <<env, phase, state, kind>>
         /\ \A i \in JobId : Holds(r, i)' => Holds(r, i)
<1>1. PICK status \in Status \ {"200", "400", "404", "409"} : Reached(r, Plain(status))
  BY DisturbFrame
<1>2. /\ Waiting(r) /\ UNCHANGED <<bookVars, kind>> /\ call[r] # Idle
      /\ call[r].reply = NoReply
  BY DisturbFrame, WaitingData
<1>3. call' = [call EXCEPT ![r].reply = Plain(status), ![r].tries = call[r].tries]
  BY <1>1 DEF Reached, Calls, IInv, TypeOK
<1>4. /\ Only(r) /\ Managed(r)' = Managed(r)
      /\ call'[r].pc = call[r].pc /\ call'[r].rpc = call[r].rpc
      /\ call'[r].data = call[r].data /\ call'[r].reply = Plain(status)
  BY <1>2, <1>3, RequestRow
<1>5. /\ Plain(status).status \notin {"200", "400", "404", "409"}
      /\ Plain(status).id = NoId
  BY PlainReply
<1>6. ~Made(r) /\ ~Ended(r) /\ ~Made(r)' /\ ~Ended(r)'
  BY <1>2, <1>4, <1>5 DEF Made, Ended
<1>7. \A i \in JobId : i # NoId
  BY ObjectAssumption DEF Id
<1> QED
  BY <1>2, <1>4, <1>5, <1>6, <1>7 DEF OwnedId, Holds, bookVars

LEMMA RetryIds ==
  ASSUME IInv, NEW r \in Resource, Retry(r)
  PROVE  /\ Only(r) /\ OwnedId(r)' = OwnedId(r) /\ ~Ended(r)'
         /\ UNCHANGED <<env, phase, state, serverVars, kind>>
         /\ \A i \in JobId : Holds(r, i)' => Holds(r, i)
<1>1. PICK tries \in 0..RetryAttempts :
        call' = [call EXCEPT ![r].reply = NoReply, ![r].tries = tries]
  BY RetryFrame
<1>2. /\ call[r] # Idle /\ call[r].reply.status \notin {"200", "404", "409"}
      /\ UNCHANGED <<bookVars, serverVars, kind>>
  BY RetryFrame
<1>3. /\ Only(r) /\ Managed(r)' = Managed(r)
      /\ call'[r].pc = call[r].pc /\ call'[r].rpc = call[r].rpc
      /\ call'[r].data = call[r].data /\ call'[r].reply = NoReply
  BY <1>1, <1>2, RequestRow
<1>4. ~Made(r) /\ ~Ended(r) /\ ~Made(r)' /\ ~Ended(r)'
  BY <1>2, <1>3 DEF Made, Ended
<1> QED
  BY <1>2, <1>3, <1>4 DEF OwnedId, Holds, bookVars

(* The rows before and after an answer of the server. *)
LEMMA ServeRow ==
  ASSUME IInv, NEW r \in Resource, Serve(r)
  PROVE  /\ Only(r) /\ Waiting(r) /\ Applied(r) /\ call[r] # Idle
         /\ UNCHANGED <<env, phase, state, kind>>
         /\ call[r].reply = NoReply /\ OwnedId(r) = call[r].data.id
         /\ call'[r].pc = call[r].pc /\ call'[r].rpc = call[r].rpc
         /\ call'[r].data = call[r].data /\ call'[r].reply = Answer(r)
         /\ Answer(r) # NoReply
<1>1. Waiting(r) /\ Applied(r) /\ Reached(r, Answer(r)) /\ UNCHANGED <<bookVars, kind>>
  BY DEF Serve
<1>2. call[r] # Idle /\ call[r].reply = NoReply
  BY <1>1, WaitingData
<1>3. call' = [call EXCEPT ![r].reply = Answer(r), ![r].tries = call[r].tries]
  BY <1>1 DEF Reached, Calls, IInv, TypeOK
<1>4. Answer(r) # NoReply
  BY <1>1, AnswerReply, ObjectAssumption
<1>5. OwnedId(r) = call[r].data.id
  BY <1>2, OwnedAtWork DEF Made, Ended
<1> QED
  BY <1>1, <1>2, <1>3, <1>4, <1>5, RequestRow DEF bookVars

(* The phases of a run, and what happens between runs. *)
LEMMA PhaseIds ==
  ASSUME IInv, Start \/ PlanAll \/ End \/ (\E r \in Resource : Edit(r))
  PROVE  /\ UNCHANGED <<env, state, serverVars, kind>>
         /\ \A s \in Resource : /\ OwnedId(s)' = OwnedId(s)
                                /\ ~Ended(s)'
                                /\ \A i \in JobId : Holds(s, i)' => Holds(s, i)
<1>0. \A i \in JobId : i # NoId
  BY ObjectAssumption DEF Id
<1>1. CASE Start
  <2>1. UNCHANGED <<env, state, serverVars, kind>>
    BY <1>1 DEF Start, StartRun
  <2>2. ASSUME NEW s \in Resource
        PROVE  /\ OwnedId(s)' = OwnedId(s) /\ call'[s].reply = NoReply
               /\ call'[s] # Idle => Managed(s) /\ call'[s].data = state[s].object
    BY <1>1, StartRows DEF Start, StartRun
  <2> QED
    BY <2>1, <2>2 DEF Ended, Holds, Managed
<1>2. CASE PlanAll
  <2>1. UNCHANGED <<env, state, serverVars, kind>>
    BY <1>2 DEF PlanAll, PlanObjects, Plan
  <2>2. \A s \in Resource : PlanRow(s)
    BY <1>2, PlanRows
  <2> QED
    BY <1>0, <2>1, <2>2 DEF Ended, Holds, Managed, PlanRow
<1>3. CASE End \/ (\E r \in Resource : Edit(r))
  <2>1. UNCHANGED <<env, state, call, serverVars, kind>>
    BY <1>3, QuietIInv
  <2>2. \A s \in Resource : call[s].reply = NoReply
    BY <1>3 DEF End, EndRun, AllIdle, Edit, EditConfig, IInv, HandlerOK, Idle, At
  <2>3. \A s \in Resource : ~Ended(s)'
    BY <2>1, <2>2 DEF Ended
  <2> QED
    BY <2>1, <2>3, SameRow
<1> QED
  BY <1>1, <1>2, <1>3

----------------------------------------------------------------------------
(* Jobs: their ids are remembered on behalf of one resource each. *)

(* A create that is answered with an id has made the job.                  *)
LEMMA CreatedJob ==
  ASSUME IInv, NEW r \in Resource, Serve(r), kind[r] = "job", call[r].pc = "Create",
         Answer(r).id # NoId
  PROVE  /\ Imports(r) /\ Answer(r).id = NextId /\ NextId \in JobId
         /\ Answer(r).status = "200"
         /\ jobs[NextId] = Gone /\ jobs' = [jobs EXCEPT ![NextId] = Import(r)]
         /\ \A q \in Resource : ~Holds(q, NextId)
<1>1. Waiting(r) /\ Applied(r)
  BY DEF Serve
<1>2. Imports(r)
  BY PlainReply DEF Answer, JobAnswer, Imports, Status
<1>3. Answer(r).id = NextId /\ jobs' = [jobs EXCEPT ![NextId] = Import(r)]
  BY <1>1, <1>2 DEF Answer, JobAnswer, ImportId, Plain, Applied, JobApplied
<1>4. NextId \in Fresh /\ NextId \in JobId
  BY <1>1, NextIdFresh
<1>5. Answer(r).status = "200"
  BY <1>1, AnswerReply
<1> QED
  BY <1>2, <1>3, <1>4, <1>5 DEF Fresh, Holds

LEMMA ServeHolds ==
  ASSUME IInv, NEW r \in Resource, Serve(r), NEW i \in JobId, Holds(r, i)'
  PROVE  Holds(r, i) \/ \A q \in Resource : ~Holds(q, i)
<1>0. i # NoId
  BY ObjectAssumption DEF Id
<1>1. CASE Managed(r)' /\ state'[r].object.id = i
  BY <1>1, ServeRow DEF Holds, Managed
<1>2. CASE call'[r].data.id = i
  BY <1>2, ServeRow DEF Holds
<1>3. CASE call'[r].reply.id = i
  <2>1. Answer(r).id = i /\ kind[r] = "job"
    BY <1>0, <1>3, ServeRow, AnswerReply
  <2>2. CASE call[r].pc = "Create"
    BY <1>0, <2>1, <2>2, CreatedJob
  <2>3. CASE call[r].pc # "Create"
    BY <1>0, <2>1, <2>3, ServeRow, AnswerReply DEF Holds
  <2> QED
    BY <2>2, <2>3
<1> QED
  BY <1>1, <1>2, <1>3 DEF Holds

LEMMA ElsewhereIds ==
  ASSUME Elsewhere
  PROVE  /\ UNCHANGED <<env, phase, state, call, kind>> /\ env.others
         /\ \A s \in Resource : /\ OwnedId(s)' = OwnedId(s) /\ Ended(s)' = Ended(s)
                                /\ \A i \in JobId : Holds(s, i)' = Holds(s, i)
<1>1. UNCHANGED <<env, phase, state, call, kind>> /\ env.others
  BY DEF Elsewhere, coreVars, bookVars
<1> QED
  BY <1>1, SameRow

LEMMA UnchangedIds ==
  ASSUME UNCHANGED vars
  PROVE  /\ UNCHANGED <<env, phase, state, call, kind, serverVars>>
         /\ \A s \in Resource : /\ OwnedId(s)' = OwnedId(s) /\ Ended(s)' = Ended(s)
                                /\ \A i \in JobId : Holds(s, i)' = Holds(s, i)
<1>1. UNCHANGED <<env, phase, state, call, kind, serverVars>>
  BY DEF vars, coreVars, bookVars, serverVars
<1> QED
  BY <1>1, SameRow

(* No step lets a resource remember a job's id that another one remembers. *)
LEMMA NextUnique == IInv /\ UniqueIds /\ [Next]_vars => UniqueIds'
<1> SUFFICES ASSUME IInv, UniqueIds, [Next]_vars PROVE UniqueIds'
  OBVIOUS
<1>1. ASSUME UNCHANGED kind,
             \A s \in Resource, i \in JobId : kind[s] = "job" /\ Holds(s, i)' => Holds(s, i)
      PROVE  UniqueIds'
  BY <1>1 DEF UniqueIds
<1>2. ASSUME NEW r \in Resource, Serve(r) PROVE UniqueIds'
  <2>1. /\ UNCHANGED kind
        /\ \A s \in Resource \ {r}, i \in JobId : Holds(s, i)' = Holds(s, i)
    BY <1>2, ServeRow, SameRow DEF Only
  <2> QED
    BY <1>2, <2>1, ServeHolds DEF UniqueIds
<1>3. ASSUME NEW r \in Resource, Handler(r) PROVE UniqueIds'
  <2>1. \A s \in Resource \ {r}, i \in JobId : Holds(s, i)' = Holds(s, i)
    BY <1>3, HandlerIds, SameRow DEF Only
  <2> QED
    BY <1>1, <1>3, <2>1, HandlerIds
<1>4. ASSUME NEW r \in Resource, Disturb(r) PROVE UniqueIds'
  <2>1. \A s \in Resource \ {r}, i \in JobId : Holds(s, i)' = Holds(s, i)
    BY <1>4, DisturbIds, SameRow DEF Only
  <2> QED
    BY <1>1, <1>4, <2>1, DisturbIds
<1>5. ASSUME NEW r \in Resource, Retry(r) PROVE UniqueIds'
  <2>1. \A s \in Resource \ {r}, i \in JobId : Holds(s, i)' = Holds(s, i)
    BY <1>5, RetryIds, SameRow DEF Only
  <2> QED
    BY <1>1, <1>5, <2>1, RetryIds
<1>6. CASE Elsewhere
  BY <1>1, <1>6, ElsewhereIds
<1>7. CASE Start \/ PlanAll \/ End \/ (\E r \in Resource : Edit(r))
  BY <1>1, <1>7, PhaseIds
<1>8. CASE UNCHANGED vars
  BY <1>1, <1>8, UnchangedIds
<1> QED
  BY <1>2, <1>3, <1>4, <1>5, <1>6, <1>7, <1>8 DEF Next, Step

(* What a request does to the jobs. *)
LEMMA JobsChange ==
  ASSUME IInv, NEW r \in Resource, Waiting(r), Applied(r), NEW i \in JobId, jobs'[i] # jobs[i]
  PROVE  /\ kind[r] = "job"
         /\ \/ call[r].pc = "Create" /\ Imports(r) /\ i = NextId /\ i \in Fresh
            \/ call[r].pc = "Update" /\ Imports(r) /\ i = call[r].data.id
            \/ call[r].pc = "Delete" /\ i = call[r].data.id /\ jobs'[i] = Gone
<1>1. kind[r] = "job" /\ jobs' = JobApplied(r)
  BY DEF Applied
<1>2. DOMAIN jobs = JobId
  BY DEF IInv, TypeOK
<1>3. CASE Imports(r)
  <2>0. jobs' = [jobs EXCEPT ![ImportId(r)] = Import(r)]
    BY <1>1, <1>3 DEF JobApplied, Imports
  <2>1. i = ImportId(r)
    BY <1>2, <2>0
  <2> QED
    BY <1>1, <1>3, <2>1, NextIdFresh DEF ImportId, Imports
<1>4. CASE ~Imports(r)
  BY <1>1, <1>2, <1>4 DEF JobApplied
<1> QED
  BY <1>3, <1>4

(* Only a job whose id somebody remembers can be deleted or rewritten.     *)
LEMMA EndedJob ==
  ASSUME IInv, NEW s \in Resource, kind[s] = "job", Ended(s)
  PROVE  call[s].data.id \in JobId /\ Holds(s, call[s].data.id)
<1>1. call[s] # Idle /\ call[s].pc # "Create"
  BY DEF Ended, Idle, At
<1> QED
  BY <1>1 DEF Holds, IInv, HandlerOK, IdOK

LEMMA AppliedEnded ==
  ASSUME IInv, UniqueIds, NEW r \in Resource, Waiting(r), Applied(r),
         NEW s \in Resource \ {r}, EndedOK(s), kind[s] = "job", Ended(s)
  PROVE  jobs'[call[s].data.id] = Gone
<1> DEFINE i == call[s].data.id
<1>1. i \in JobId /\ Holds(s, i) /\ jobs[i] = Gone
  BY EndedJob DEF EndedOK
<1>2. SUFFICES ASSUME jobs'[i] # jobs[i], jobs'[i] # Gone PROVE FALSE
  BY <1>1
<1>3. CASE i \in Fresh
  BY <1>1, <1>3 DEF Fresh, Holds
<1>4. CASE i = call[r].data.id
  <2>1. Holds(r, i)
    BY <1>4, WaitingData DEF Holds
  <2>2. kind[r] = "job"
    BY <1>1, <1>2, JobsChange
  <2> QED
    BY <1>1, <2>1, <2>2 DEF UniqueIds
<1> QED
  BY <1>1, <1>2, <1>3, <1>4, JobsChange

LEMMA ServeEnded ==
  ASSUME IInv, NEW r \in Resource, Serve(r), kind[r] = "job", Ended(r)'
  PROVE  /\ jobs'[call[r].data.id] = Gone /\ call[r].data.id \in JobId
         /\ call[r].pc = "Delete" \/ (call[r].pc = "Exists" /\ UNCHANGED serverVars)
<1> DEFINE i == call[r].data.id
<1>1. /\ Answer(r).status \in {"200", "404"} /\ call[r].pc \in {"Delete", "Exists"}
      /\ call[r].pc = "Exists" => Answer(r).status = "404"
  BY ServeRow DEF Ended
<1>2. i \in JobId /\ jobs' = JobApplied(r) /\ DOMAIN jobs = JobId
  BY <1>1, ServeRow DEF IInv, HandlerOK, IdOK, Applied, TypeOK
<1>3. CASE call[r].pc = "Delete"
  BY <1>2, <1>3 DEF JobApplied, Imports
<1>4. CASE call[r].pc = "Exists"
  <2>1. jobs[i] = Gone
    BY <1>1, <1>4 DEF Answer, JobAnswer, Imports, Plain
  <2>2. jobs' = jobs
    BY <1>2, <1>4 DEF JobApplied, Imports
  <2>3. policies' = policies /\ projects' = projects
    BY ServeRow DEF Applied
  <2> QED
    BY <1>2, <1>4, <2>1, <2>2, <2>3 DEF serverVars
<1> QED
  BY <1>1, <1>3, <1>4

(* What a job's resource has been told is gone stays gone. *)
LEMMA NextEnded ==
  ASSUME IInv, UniqueIds, \A r \in Resource : EndedOK(r), [Next]_vars, NEW s \in Resource
  PROVE  EndedOK(s)'
<1>0. SUFFICES ASSUME kind[s] = "job", Ended(s)' PROVE jobs'[call'[s].data.id] = Gone
  <2>1. UNCHANGED kind
    BY DEF Next, Step, Serve, Disturb, Retry, Handler, Elsewhere, Start, PlanAll, End,
       Edit, vars
  <2> QED
    BY <2>1 DEF EndedOK
<1>1. ASSUME NEW r \in Resource, Serve(r) PROVE jobs'[call'[s].data.id] = Gone
  <2>1. CASE s = r
    BY <1>0, <1>1, <2>1, ServeEnded, ServeRow
  <2>2. CASE s # r
    BY <1>0, <1>1, <2>2, ServeRow, SameRow, AppliedEnded DEF Only
  <2> QED
    BY <2>1, <2>2
<1>2. ASSUME NEW r \in Resource, Disturb(r) PROVE jobs'[call'[s].data.id] = Gone
  <2>1. s # r /\ Ended(s) /\ call'[s] = call[s]
    BY <1>0, <1>2, DisturbIds, SameRow DEF Only
  <2>2. CASE Applied(r)
    BY <1>0, <1>2, <2>1, <2>2, DisturbFrame, AppliedEnded
  <2>3. CASE UNCHANGED serverVars
    BY <1>0, <2>1, <2>3 DEF EndedOK, serverVars
  <2> QED
    BY <1>2, <2>2, <2>3, DisturbFrame
<1>3. ASSUME NEW r \in Resource, Handler(r) \/ Retry(r)
      PROVE  jobs'[call'[s].data.id] = Gone
  <2>1. s # r /\ Ended(s) /\ call'[s] = call[s] /\ UNCHANGED serverVars
    BY <1>0, <1>3, HandlerIds, RetryIds, SameRow DEF Only
  <2> QED
    BY <1>0, <2>1 DEF EndedOK, serverVars
<1>4. CASE Elsewhere
  <2>1. Ended(s) /\ call' = call
    BY <1>0, <1>4, ElsewhereIds
  <2>2. jobs[call[s].data.id] = Gone /\ call[s].data.id \in JobId
    BY <1>0, <2>1, EndedJob DEF EndedOK
  <2> QED
    BY <1>4, <2>1, <2>2 DEF Elsewhere, IInv, TypeOK
<1>5. CASE Start \/ PlanAll \/ End \/ (\E r \in Resource : Edit(r))
  BY <1>0, <1>5, PhaseIds
<1>6. CASE UNCHANGED vars
  BY <1>0, <1>6, UnchangedIds DEF EndedOK, serverVars
<1> QED
  BY <1>1, <1>2, <1>3, <1>4, <1>5, <1>6 DEF Next, Step

(* What the server's answer makes a resource own. *)
LEMMA ServeOwned ==
  ASSUME IInv, NEW r \in Resource, Serve(r)
  PROVE  OwnedId(r)' = IF Made(r)' THEN IF kind[r] = "job" THEN Answer(r).id
                                        ELSE call[r].data.name
                       ELSE IF Ended(r)' THEN NoId ELSE call[r].data.id
<1>1. OwnedId(r) = IF call[r].rpc = "create" THEN call[r].data.id
                   ELSE IF Managed(r) THEN state[r].object.id ELSE NoId
  BY ServeRow DEF OwnedId, Made, Ended
<1> QED
  BY <1>1, ServeRow DEF OwnedId, Managed

LEMMA ServeMade ==
  ASSUME IInv, NEW r \in Resource, Serve(r)
  PROVE  Made(r)' <=> /\ call[r].pc = "Create"
                      /\ \/ Answer(r).status = "200"
                         \/ Answer(r).status = "409" /\ kind[r] = "project"
  BY ServeRow DEF Made

(* As long as answers arrive, every job is owned. *)
LEMMA ServeRemembered ==
  ASSUME IInv, NEW r \in Resource, Serve(r), NEW i \in JobId, jobs'[i] # Gone,
         jobs[i] # Gone => \E s \in Resource : kind[s] = "job" /\ OwnedId(s) = i
  PROVE  \E s \in Resource : kind'[s] = "job" /\ OwnedId(s)' = i
<1>0. /\ i # NoId /\ UNCHANGED kind /\ Waiting(r) /\ Applied(r)
      /\ OwnedId(r) = call[r].data.id
      /\ \A s \in Resource \ {r} : OwnedId(s)' = OwnedId(s)
  BY ServeRow, SameRow, ObjectAssumption DEF Id, Only
<1>1. CASE kind[r] = "job" /\ call[r].pc = "Create" /\ Imports(r) /\ i = NextId
  <2>1. Answer(r).id = i
    BY <1>0, <1>1 DEF Answer, JobAnswer, ImportId, Plain
  <2>2. Made(r)'
    BY <1>0, <1>1, <2>1, CreatedJob, ServeMade
  <2> QED
    BY <1>0, <1>1, <2>1, <2>2, ServeOwned
<1>2. CASE kind[r] = "job" /\ call[r].pc # "Create" /\ i = call[r].data.id
  <2>1. ~Made(r)' /\ ~Ended(r)'
    BY <1>2, ServeMade, ServeEnded
  <2> QED
    BY <1>0, <1>2, <2>1, ServeOwned
<1>3. CASE jobs'[i] = jobs[i]
  <2>1. PICK s \in Resource : kind[s] = "job" /\ OwnedId(s) = i
    BY <1>3
  <2>2. CASE s # r
    BY <1>0, <2>1, <2>2
  <2>3. CASE s = r
    <3>1. call[r].pc # "Create"
      BY <1>0, <2>1, <2>3, WaitingData DEF IInv, HandlerOK
    <3> QED
      BY <1>0, <1>2, <2>1, <2>3, <3>1
  <2> QED
    BY <2>2, <2>3
<1> QED
  BY <1>0, <1>1, <1>2, <1>3, JobsChange

LEMMA NextRemembered == IInv /\ Remembered /\ [Next]_vars => Remembered'
<1> SUFFICES ASSUME IInv, Remembered, [Next]_vars PROVE Remembered'
  OBVIOUS
<1>0. ASSUME UNCHANGED <<env, kind>>, \A s \in Resource : OwnedId(s)' = OwnedId(s),
             \A i \in JobId : AnswersArrive /\ jobs'[i] # Gone => jobs[i] # Gone
      PROVE  Remembered'
  BY <1>0 DEF Remembered, AnswersArrive
<1>1. ASSUME NEW r \in Resource, Serve(r) PROVE Remembered'
  <2>1. AnswersArrive' = AnswersArrive
    BY <1>1, ServeRow DEF AnswersArrive
  <2> QED
    BY <1>1, <2>1, ServeRemembered DEF Remembered
<1>2. ASSUME NEW r \in Resource, Disturb(r) PROVE Remembered'
  <2>1. \A s \in Resource : OwnedId(s)' = OwnedId(s)
    BY <1>2, DisturbIds, SameRow DEF Only
  <2>2. AnswersArrive => jobs' = jobs
    BY <1>2, DisturbFrame DEF serverVars
  <2> QED
    BY <1>0, <1>2, <2>1, <2>2, DisturbIds
<1>3. ASSUME NEW r \in Resource, Handler(r) \/ Retry(r) PROVE Remembered'
  <2>1. /\ UNCHANGED <<env, kind, jobs>>
        /\ \A s \in Resource : OwnedId(s)' = OwnedId(s)
    BY <1>3, HandlerIds, RetryIds, SameRow DEF Only, serverVars
  <2> QED
    BY <1>0, <2>1
<1>4. CASE Elsewhere
  <2>1. \A i \in JobId : jobs'[i] # Gone => jobs[i] # Gone
    BY <1>4 DEF Elsewhere, IInv, TypeOK
  <2> QED
    BY <1>0, <1>4, <2>1, ElsewhereIds
<1>5. CASE Start \/ PlanAll \/ End \/ (\E r \in Resource : Edit(r))
  BY <1>0, <1>5, PhaseIds DEF serverVars
<1>6. CASE UNCHANGED vars
  BY <1>0, <1>6, UnchangedIds DEF serverVars
<1> QED
  BY <1>1, <1>2, <1>3, <1>4, <1>5, <1>6 DEF Next, Step

----------------------------------------------------------------------------
(* A refresh. *)

LEMMA RefreshReads ==
  ASSUME IInv, NEW r \in Resource, Waiting(r), Applied(r), phase = "refresh"
  PROVE  UNCHANGED serverVars
<1>1. call[r].pc \notin {"Create", "Update", "Delete"}
  BY WaitingData DEF IInv, HandlerOK
<1> QED
  BY <1>1 DEF Applied, PolicyApplied, ProjectApplied, JobApplied, Imports, serverVars

(* A 404 is given for what is not there. *)
LEMMA NotFound ==
  ASSUME IInv, NEW r \in Resource, Serve(r), call[r].pc = "Exists", Ended(r)'
  PROVE  /\ Managed(r) /\ Held(kind[r], state[r].object) = Gone
         /\ state[r].object.id = call[r].data.id
<1>1. Answer(r).status = "404"
  BY ServeRow DEF Ended
<1>2. /\ Managed(r) /\ call[r].data.id = state[r].object.id
      /\ IdOK(kind[r], state[r].object) /\ IdOK(kind[r], call[r].data)
      /\ kind[r] \in {"policy", "project", "job"}
  BY ServeRow, ObjectAssumption DEF IInv, HandlerOK, TypeOK
<1>3. CASE kind[r] = "policy"
  BY <1>1, <1>2, <1>3 DEF Answer, PolicyAnswer, Plain, Held, IdOK
<1>4. CASE kind[r] = "project"
  BY <1>1, <1>2, <1>4 DEF Answer, ProjectAnswer, Plain, Held, IdOK
<1>5. CASE kind[r] = "job"
  BY <1>1, <1>2, <1>5 DEF Answer, JobAnswer, Imports, Plain, Held, IdOK
<1> QED
  BY <1>2, <1>3, <1>4, <1>5

LEMMA NextSeen ==
  ASSUME IInv, \A r \in Resource : SeenOK(r), [Next]_vars, NEW s \in Resource
  PROVE  SeenOK(s)'
<1> SUFFICES ASSUME ~env'.others, phase' = "refresh", call'[s].pc = "Exists", Ended(s)'
             PROVE  Held(kind[s], state[s].object)'= Gone
  BY DEF SeenOK
<1>0. ASSUME UNCHANGED <<env, phase, serverVars, kind>>, state'[s] = state[s],
             call'[s] = call[s]
      PROVE  Held(kind[s], state[s].object)' = Gone
  <2>1. SeenOK(s) /\ Ended(s) /\ Held(kind[s], state[s].object)' = Held(kind[s], state[s].object)
    BY <1>0, SameRow DEF Held, serverVars
  <2> QED
    BY <1>0, <2>1 DEF SeenOK
<1>1. ASSUME NEW r \in Resource, Serve(r) PROVE Held(kind[s], state[s].object)' = Gone
  <2>1. UNCHANGED <<env, phase, serverVars, kind, state>>
    BY <1>1, ServeRow, RefreshReads
  <2>2. CASE s = r
    <3>1. Held(kind[r], state[r].object)' = Held(kind[r], state[r].object)
      BY <2>1 DEF Held, serverVars
    <3> QED
      BY <1>1, <2>2, <3>1, NotFound, ServeRow
  <2>3. CASE s # r
    BY <1>0, <1>1, <2>1, <2>3, ServeRow DEF Only
  <2> QED
    BY <2>2, <2>3
<1>2. ASSUME NEW r \in Resource, Disturb(r) PROVE Held(kind[s], state[s].object)' = Gone
  <2>1. UNCHANGED <<env, phase, serverVars, kind, state>>
    BY <1>2, DisturbIds, DisturbFrame, RefreshReads
  <2> QED
    BY <1>0, <1>2, <2>1, DisturbIds DEF Only
<1>3. ASSUME NEW r \in Resource, Handler(r) \/ Retry(r)
      PROVE  Held(kind[s], state[s].object)' = Gone
  BY <1>0, <1>3, HandlerIds, RetryIds DEF Only
<1>4. ~Elsewhere
  BY ElsewhereIds
<1>5. ~(Start \/ PlanAll \/ End \/ (\E r \in Resource : Edit(r)))
  BY PhaseIds
<1>6. CASE UNCHANGED vars
  BY <1>0, <1>6, UnchangedIds
<1> QED
  BY <1>1, <1>2, <1>3, <1>4, <1>5, <1>6 DEF Next, Step

----------------------------------------------------------------------------
(* The invariant of the jobs and of refreshes, for any world. *)
JInv == /\ IInv /\ UniqueIds /\ Remembered
        /\ \A r \in Resource : EndedOK(r) /\ SeenOK(r)

LEMMA InitJInv == Init => JInv
<1> SUFFICES ASSUME Init PROVE JInv
  OBVIOUS
<1>1. \A r \in Resource : ~Ended(r) /\ \A i \in JobId : ~Holds(r, i)
  BY DEF Init, Ended, Holds, Managed, Absent, Idle, At
<1>2. \A i \in JobId : jobs[i] = Gone
  BY DEF Init
<1> QED
  BY <1>1, <1>2, InitIInv DEF JInv, UniqueIds, Remembered, EndedOK, SeenOK

LEMMA JobInvariant == Spec => []JInv
<1>1. JInv /\ [Next]_vars => JInv'
  BY NextIInv, NextUnique, NextRemembered, NextEnded, NextSeen DEF JInv
<1> QED
  BY <1>1, InitJInv, PTL DEF Spec

(* No job is lost: whatever fails after CreateJob's import, a job of ours  *)
(* on the server is one that a state or a running handler remembers.       *)
THEOREM NoJobIsLost == Spec => []JobsRemembered
<1>1. JInv => JobsRemembered
  <2> SUFFICES ASSUME JInv, AnswersArrive, NEW i \in JobId, jobs[i] # Gone
               PROVE  \E r \in Resource : Holds(r, i)
    BY DEF JobsRemembered, Holds
  <2>1. PICK r \in Resource : kind[r] = "job" /\ OwnedId(r) = i
    BY DEF JInv, Remembered
  <2> QED
    BY <2>1, OwnedHeld DEF JInv
<1> QED
  BY <1>1, JobInvariant, PTL

(* A handler that makes core forget a managed object was told it is gone.  *)
LEMMA Forgets ==
  ASSUME IInv, NEW r \in Resource, Handler(r), Managed(r), call[r].rpc = "refresh",
         state'[r] = Absent
  PROVE  call[r].pc = "Exists" /\ Ended(r) /\ phase = "refresh"
<1>1. Steady(r) /\ state[r].object # NoObject /\ state'[r].object = NoObject
  BY HandlerSteady DEF Absent, Managed
<1>2. OwnedId(r) = NoId
  <2>1. CASE Settles(r)
    <3>1. PICK object \in Object \cup {NoObject}, tainted \in BOOLEAN :
            Records(r, object) /\ Record(r, object, tainted)
      BY <2>1 DEF Settles
    <3>2. state'[r].object = object
      BY <3>1 DEF Record, IInv, TypeOK
    <3> QED
      BY <1>1, <3>1, <3>2 DEF Records
  <2> QED
    BY <1>1, <2>1 DEF Steady, GoesOn, StartsAnew
<1>3. /\ call[r] # Idle /\ call[r].pc \notin {"Create", "Delete"} /\ phase = "refresh"
      /\ call[r].data.id # NoId /\ call[r].data \in Object
  <2>1. call[r] # Idle
    BY DEF Idle, At
  <2>2. /\ call[r].pc \notin {"Create", "Delete"} /\ phase = "refresh"
        /\ IdOK(kind[r], call[r].data) /\ call[r].data \in Object
    BY <2>1 DEF IInv, HandlerOK
  <2> QED
    BY <2>1, <2>2, ObjectAssumption DEF IdOK, Object, Id
<1> QED
  BY <1>2, <1>3, OwnedAtWork DEF Made, Ended

(* A refresh forgets nothing that the server holds, whatever requests are  *)
(* refused or lost and however the handlers interleave.                    *)
THEOREM RefreshForgetsNothing == Spec => LiveObjectRemembered
<1>1. JInv /\ [Next]_vars =>
        [~env.others =>
           \A r \in Resource :
             Managed(r) /\ call[r].rpc = "refresh" /\ state'[r] = Absent
               => Held(kind[r], state[r].object) = Gone]_vars
  <2> SUFFICES ASSUME JInv, [Next]_vars, ~env.others, NEW r \in Resource,
                      Managed(r), call[r].rpc = "refresh", state'[r] = Absent
               PROVE  Held(kind[r], state[r].object) = Gone
    OBVIOUS
  <2>0. IInv /\ SeenOK(r) /\ state'[r] # state[r]
    BY DEF JInv, Managed, Absent
  <2>1. CASE Handler(r)
    BY <2>0, <2>1, Forgets DEF SeenOK
  <2>2. ASSUME NEW q \in Resource, Serve(q) \/ Disturb(q) \/ Retry(q) PROVE FALSE
    BY <2>0, <2>2, ServeRow, DisturbIds, RetryIds
  <2>3. ASSUME NEW q \in Resource \ {r}, Handler(q) PROVE FALSE
    BY <2>0, <2>3, HandlerIds DEF Only
  <2>4. CASE Elsewhere \/ Start \/ PlanAll \/ End \/ (\E q \in Resource : Edit(q))
              \/ UNCHANGED vars
    BY <2>0, <2>4, ElsewhereIds, PhaseIds, UnchangedIds
  <2> QED
    BY <2>1, <2>2, <2>3, <2>4 DEF Next, Step
<1> QED
  BY <1>1, JobInvariant, PTL DEF LiveObjectRemembered, Spec

----------------------------------------------------------------------------
(* The refinement. *)

There  == On("policy", policies) \cup On("project", projects) \cup On("job", jobs)
Owns   == [r \in Resource |-> Owned(r)]
Things == ({"policy", "project"} \X Name) \cup ({"job"} \X JobId)
ObjectWorld == [lossy |-> ~AnswersArrive, others |-> env.others, careless |-> {}]

OP == INSTANCE Ownership_proofs WITH
  Thing <- Things, None <- NoId, Shared <- {"project"} \X Name,
  world <- ObjectWorld, there <- There, owns <- Owns

LEMMA OwnersStillHold ==
  ASSUME OP!IInv, Objects!Next
  PROVE  OP!IInv'
<1>1. OP!Next
  BY DEF Objects!Next, Objects!vars, Objects!Create, Objects!Adopt, Objects!Remove,
     Objects!Forget, Objects!Appear, Objects!Vanish, Objects!Own, Objects!Trusted,
     OP!Next, OP!vars, OP!Create, OP!Adopt, OP!Remove, OP!Forget, OP!Appear,
     OP!Vanish, OP!Own, OP!Trusted, There, Owns, Things, ObjectWorld
<1> QED
  BY <1>1, OP!NextIInv

(* A thing is on the server or not. *)
LEMMA OnThere ==
  /\ \A n \in Name : IInv => (<<"policy", n>> \in There <=> policies[n] # Gone)
  /\ \A n \in Name : IInv => (<<"project", n>> \in There <=> projects[n] # Gone)
  /\ \A i \in JobId : IInv => (<<"job", i>> \in There <=> jobs[i] # Gone)
<1> SUFFICES ASSUME IInv
             PROVE  /\ \A n \in Name : <<"policy", n>> \in There <=> policies[n] # Gone
                    /\ \A n \in Name : <<"project", n>> \in There <=> projects[n] # Gone
                    /\ \A i \in JobId : <<"job", i>> \in There <=> jobs[i] # Gone
  OBVIOUS
<1>1. DOMAIN policies = Name /\ DOMAIN projects = Name /\ DOMAIN jobs = JobId
  BY DEF IInv, TypeOK
<1> QED
  BY <1>1 DEF There, On

LEMMA OnExcept ==
  ASSUME NEW k, NEW things, NEW i \in DOMAIN things, NEW x
  PROVE  On(k, [things EXCEPT ![i] = x]) =
           IF x = Gone THEN On(k, things) \ {<<k, i>>} ELSE On(k, things) \cup {<<k, i>>}
<1> DEFINE new == [things EXCEPT ![i] = x]
<1>1. /\ DOMAIN new = DOMAIN things /\ new[i] = x
      /\ \A j \in DOMAIN things \ {i} : new[j] = things[j]
  OBVIOUS
<1> HIDE DEF new
<1>2. ASSUME NEW e
      PROVE  e \in On(k, new) <=> \E j \in DOMAIN things : new[j] # Gone /\ e = <<k, j>>
  BY <1>1 DEF On
<1>3. ASSUME NEW e
      PROVE  e \in On(k, things) <=> \E j \in DOMAIN things : things[j] # Gone /\ e = <<k, j>>
  BY DEF On
<1>4. ASSUME NEW e
      PROVE  e \in On(k, new) <=> e \in IF x = Gone THEN On(k, things) \ {<<k, i>>}
                                        ELSE On(k, things) \cup {<<k, i>>}
  BY <1>1, <1>2, <1>3
<1>5. On(k, new) = IF x = Gone THEN On(k, things) \ {<<k, i>>}
                   ELSE On(k, things) \cup {<<k, i>>}
  BY <1>4
<1> QED
  BY <1>5 DEF new

LEMMA OnKind ==
  ASSUME NEW k, NEW l, k # l, NEW things, NEW i
  PROVE  <<k, i>> \notin On(l, things)
  BY DEF On

(* A change of one policy, project or job. *)
LEMMA ThereExcept ==
  ASSUME IInv, NEW i, NEW x, NEW k,
         \/ /\ k = "policy" /\ i \in Name /\ policies' = [policies EXCEPT ![i] = x]
            /\ UNCHANGED <<projects, jobs>>
         \/ /\ k = "project" /\ i \in Name /\ projects' = [projects EXCEPT ![i] = x]
            /\ UNCHANGED <<policies, jobs>>
         \/ /\ k = "job" /\ i \in JobId /\ jobs' = [jobs EXCEPT ![i] = x]
            /\ UNCHANGED <<policies, projects>>
  PROVE  There' = IF x = Gone THEN There \ {<<k, i>>} ELSE There \cup {<<k, i>>}
<1>1. DOMAIN policies = Name /\ DOMAIN projects = Name /\ DOMAIN jobs = JobId
  BY DEF IInv, TypeOK
<1>2. CASE k = "policy" /\ i \in Name /\ policies' = [policies EXCEPT ![i] = x]
             /\ UNCHANGED <<projects, jobs>>
  <2>1. On("policy", policies') = IF x = Gone THEN On("policy", policies) \ {<<k, i>>}
                                  ELSE On("policy", policies) \cup {<<k, i>>}
    <3>1. i \in DOMAIN policies
      BY <1>1, <1>2
    <3>2. On(k, [policies EXCEPT ![i] = x]) =
            IF x = Gone THEN On(k, policies) \ {<<k, i>>} ELSE On(k, policies) \cup {<<k, i>>}
      BY <3>1, OnExcept
    <3> QED
      BY <1>2, <3>2
  <2>2. <<k, i>> \notin On("project", projects) /\ <<k, i>> \notin On("job", jobs)
    BY <1>2, OnKind
  <2> QED
    BY <1>2, <2>1, <2>2 DEF There
<1>3. CASE k = "project" /\ i \in Name /\ projects' = [projects EXCEPT ![i] = x]
             /\ UNCHANGED <<policies, jobs>>
  <2>1. On("project", projects') = IF x = Gone THEN On("project", projects) \ {<<k, i>>}
                                   ELSE On("project", projects) \cup {<<k, i>>}
    <3>1. i \in DOMAIN projects
      BY <1>1, <1>3
    <3>2. On(k, [projects EXCEPT ![i] = x]) =
            IF x = Gone THEN On(k, projects) \ {<<k, i>>} ELSE On(k, projects) \cup {<<k, i>>}
      BY <3>1, OnExcept
    <3> QED
      BY <1>3, <3>2
  <2>2. <<k, i>> \notin On("policy", policies) /\ <<k, i>> \notin On("job", jobs)
    BY <1>3, OnKind
  <2> QED
    BY <1>3, <2>1, <2>2 DEF There
<1>4. CASE k = "job" /\ i \in JobId /\ jobs' = [jobs EXCEPT ![i] = x]
             /\ UNCHANGED <<policies, projects>>
  <2>1. On("job", jobs') = IF x = Gone THEN On("job", jobs) \ {<<k, i>>}
                           ELSE On("job", jobs) \cup {<<k, i>>}
    <3>1. i \in DOMAIN jobs
      BY <1>1, <1>4
    <3>2. On(k, [jobs EXCEPT ![i] = x]) =
            IF x = Gone THEN On(k, jobs) \ {<<k, i>>} ELSE On(k, jobs) \cup {<<k, i>>}
      BY <3>1, OnExcept
    <3> QED
      BY <1>4, <3>2
  <2>2. <<k, i>> \notin On("policy", policies) /\ <<k, i>> \notin On("project", projects)
    BY <1>4, OnKind
  <2> QED
    BY <1>4, <2>1, <2>2 DEF There
<1> QED
  BY <1>2, <1>3, <1>4

(* What the server's answer to a request of r amounts to. *)
Stays(r)   == OwnedId(r)' = OwnedId(r) /\ There' = There
Makes(r)   == /\ OwnedId(r) = NoId /\ OwnedId(r)' # NoId
              /\ <<kind[r], OwnedId(r)'>> \in Things \ There
              /\ There' = There \cup {<<kind[r], OwnedId(r)'>>}
TakesOver(r) == /\ kind[r] = "project" /\ OwnedId(r) = NoId /\ OwnedId(r)' # NoId
                /\ OwnedId(r)' \in Name /\ <<"project", OwnedId(r)'>> \in There
                /\ There' = There
Ends(r)    == /\ OwnedId(r) # NoId /\ OwnedId(r)' = NoId
              /\ There' = There \ {<<kind[r], OwnedId(r)>>}
Revives(r) == /\ kind[r] = "job" /\ OwnedId(r) # NoId /\ OwnedId(r)' = OwnedId(r)
              /\ There' = There \cup {<<kind[r], OwnedId(r)>>}

LEMMA ServeFacts ==
  ASSUME IInv, NEW r \in Resource, Serve(r)
  PROVE  /\ Applied(r) /\ OwnedId(r) = call[r].data.id
         /\ call[r].data.name \in Name /\ call[r].data.name # NoId
         /\ call[r].pc \in {"Exists", "Read", "Create", "Update", "Delete"}
         /\ call[r].pc \in {"Create", "Update"} =>
              call[r].data.content \in Content /\ call[r].data.content # Gone
         /\ IF call[r].pc = "Create" THEN call[r].data.id = NoId
            ELSE IdOK(kind[r], call[r].data)
         /\ Ended(r)' <=> \/ /\ call[r].pc = "Delete"
                             /\ \/ Answer(r).status = "200"
                                \/ Answer(r).status = "404" /\ kind[r] # "project"
                          \/ call[r].pc = "Exists" /\ Answer(r).status = "404"
<1>1. Ended(r)' <=> \/ /\ call[r].pc = "Delete"
                       /\ \/ Answer(r).status = "200"
                          \/ Answer(r).status = "404" /\ kind[r] # "project"
                    \/ call[r].pc = "Exists" /\ Answer(r).status = "404"
  BY ServeRow DEF Ended
<1>2. /\ Waiting(r) /\ Applied(r) /\ OwnedId(r) = call[r].data.id
      /\ call[r].data \in Object /\ call[r].data.name \in Name
      /\ call[r].pc \in {"Exists", "Read", "Create", "Update", "Delete"}
  BY ServeRow, WaitingData
<1>3. /\ call[r].pc \in {"Create", "Update"} => call[r].data.content \in Content
      /\ IF call[r].pc = "Create" THEN call[r].data.id = NoId
         ELSE IdOK(kind[r], call[r].data)
  BY ServeRow DEF IInv, HandlerOK
<1> QED
  BY <1>1, <1>2, <1>3, ObjectAssumption DEF Id, Stored

LEMMA PolicyServe ==
  ASSUME IInv, NEW r \in Resource, Serve(r), kind[r] = "policy"
  PROVE  Stays(r) \/ Makes(r) \/ Ends(r)
<1> DEFINE n == call[r].data.name
           c == call[r].data.content
<1>0. /\ policies' = PolicyApplied(r) /\ UNCHANGED <<projects, jobs>>
      /\ n \in Name /\ n # NoId /\ OwnedId(r) = call[r].data.id
      /\ call[r].pc # "Create" => call[r].data.id = n
      /\ call[r].pc = "Create" => call[r].data.id = NoId
      /\ Answer(r) = PolicyAnswer(r)
      /\ <<"policy", n>> \in There <=> policies[n] # Gone
  BY ServeFacts, OnThere DEF Applied, IdOK, Answer
<1>1. CASE policies' = policies
  <2>1. There' = There
    BY <1>0, <1>1 DEF There
  <2>2. call[r].pc = "Create" => ~Made(r)'
    <3>1. SUFFICES ASSUME call[r].pc = "Create", Answer(r).status = "200" PROVE FALSE
      BY ServeMade
    <3>2. c # Gone /\ policies[n] = Gone /\ c \notin Malformed
      BY <1>0, <3>1, PlainReply, ServeFacts DEF PolicyAnswer, Plain
    <3>3. policies' = [policies EXCEPT ![n] = c]
      BY <1>0, <3>1, <3>2 DEF PolicyApplied
    <3>4. DOMAIN policies = Name
      BY DEF IInv, TypeOK
    <3> QED
      BY <1>0, <1>1, <3>2, <3>3, <3>4
  <2>3. CASE ~Ended(r)'
    BY <1>0, <2>1, <2>2, <2>3, ServeOwned, ServeMade DEF Stays
  <2>4. CASE Ended(r)'
    <3>1. call[r].pc \in {"Delete", "Exists"} /\ OwnedId(r)' = NoId
      BY <2>4, ServeFacts, ServeOwned, ServeMade
    <3>2. policies[n] = Gone
      <4>1. CASE call[r].pc = "Delete"
        BY <1>0, <1>1, <4>1 DEF PolicyApplied, IInv, TypeOK
      <4>2. CASE call[r].pc = "Exists"
        BY <1>0, <2>4, <4>2, ServeFacts DEF PolicyAnswer, Plain
      <4> QED
        BY <3>1, <4>1, <4>2
    <3> QED
      BY <1>0, <2>1, <3>1, <3>2 DEF Ends
  <2> QED
    BY <2>3, <2>4
<1>2. CASE call[r].pc = "Create" /\ policies[n] = Gone /\ c \notin Malformed
  <2>1. policies' = [policies EXCEPT ![n] = c] /\ c # Gone /\ Answer(r) = Plain("200")
    BY <1>0, <1>2, ServeFacts DEF PolicyApplied, PolicyAnswer
  <2>2. There' = There \cup {<<"policy", n>>}
    BY <1>0, <2>1, ThereExcept
  <2>3. OwnedId(r)' = n
    BY <1>2, <2>1, ServeMade, ServeOwned DEF Plain
  <2> QED
    BY <1>0, <1>2, <2>2, <2>3 DEF Makes, Things
<1>3. CASE call[r].pc = "Update" /\ policies[n] # Gone /\ c \notin Malformed
  <2>1. policies' = [policies EXCEPT ![n] = c] /\ c # Gone
    BY <1>0, <1>3, ServeFacts DEF PolicyApplied
  <2>2. There' = There
    <3>1. There' = There \cup {<<"policy", n>>}
      BY <1>0, <2>1, ThereExcept
    <3>2. <<"policy", n>> \in There
      BY <1>0, <1>3
    <3> QED
      BY <3>1, <3>2
  <2>3. OwnedId(r)' = OwnedId(r)
    BY <1>0, <1>3, ServeMade, ServeOwned, ServeFacts
  <2> QED
    BY <2>2, <2>3 DEF Stays
<1>4. CASE call[r].pc = "Delete"
  <2>1. policies' = [policies EXCEPT ![n] = Gone]
    BY <1>0, <1>4 DEF PolicyApplied
  <2>2. There' = There \ {<<"policy", n>>}
    BY <1>0, <2>1, ThereExcept
  <2>3. Ended(r)'
    BY <1>0, <1>4, ServeFacts DEF PolicyAnswer, Plain
  <2>4. OwnedId(r)' = NoId
    BY <1>4, <2>3, ServeMade, ServeOwned
  <2> QED
    BY <1>0, <1>4, <2>2, <2>4 DEF Ends
<1> QED
  BY <1>0, <1>1, <1>2, <1>3, <1>4 DEF PolicyApplied

LEMMA ProjectServe ==
  ASSUME IInv, NEW r \in Resource, Serve(r), kind[r] = "project"
  PROVE  Stays(r) \/ Makes(r) \/ TakesOver(r) \/ Ends(r)
<1> DEFINE n == call[r].data.name
           c == call[r].data.content
<1>0. /\ projects' = ProjectApplied(r) /\ UNCHANGED <<policies, jobs>>
      /\ n \in Name /\ n # NoId /\ OwnedId(r) = call[r].data.id
      /\ call[r].pc # "Create" => call[r].data.id = n
      /\ call[r].pc = "Create" => call[r].data.id = NoId
      /\ Answer(r) = ProjectAnswer(r)
      /\ <<"project", n>> \in There <=> projects[n] # Gone
      /\ projects[n] \in Projects \cup {Gone}
  BY ServeFacts, OnThere DEF Applied, IdOK, Answer, IInv, TypeOK
<1>1. CASE call[r].pc = "Create"
  <2>1. CASE projects[n] = Gone
    <3> DEFINE bare == [content |-> Bare, by |-> r]
    <3>1. bare # Gone
      BY ProjectAssumption DEF Projects, Stored
    <3>2. projects' = [projects EXCEPT ![n] = bare] /\ Answer(r) = Plain("200")
      BY <1>0, <1>1, <2>1 DEF ProjectApplied, ProjectAnswer
    <3> HIDE DEF bare
    <3>3. There' = There \cup {<<"project", n>>}
      BY <1>0, <3>1, <3>2, ThereExcept
    <3>4. OwnedId(r)' = n
      BY <1>1, <3>2, ServeMade, ServeOwned DEF Plain
    <3> QED
      BY <1>0, <1>1, <2>1, <3>3, <3>4 DEF Makes, Things
  <2>2. CASE projects[n] # Gone
    <3>1. projects' = projects /\ Answer(r) = Plain("409")
      BY <1>0, <1>1, <2>2 DEF ProjectApplied, ProjectAnswer
    <3>2. There' = There
      BY <1>0, <3>1 DEF There
    <3>3. OwnedId(r)' = n
      BY <1>1, <3>1, ServeMade, ServeOwned DEF Plain
    <3> QED
      BY <1>0, <1>1, <2>2, <3>2, <3>3 DEF TakesOver
  <2> QED
    BY <2>1, <2>2
<1>2. CASE call[r].pc = "Update"
  <2>1. OwnedId(r)' = OwnedId(r)
    BY <1>0, <1>2, ServeMade, ServeOwned, ServeFacts
  <2>2. CASE projects[n] = Gone
    BY <1>0, <1>2, <2>1, <2>2 DEF ProjectApplied, Stays, There
  <2>3. CASE projects[n] # Gone
    <3> DEFINE new == [content |-> c, by |-> projects[n].by]
    <3>1. new # Gone
      BY <1>0, <1>2, <2>3, ServeFacts, ProjectAssumption DEF Projects, Stored
    <3>2. projects' = [projects EXCEPT ![n] = new]
      BY <1>0, <1>2, <2>3 DEF ProjectApplied
    <3> HIDE DEF new
    <3>3. There' = There \cup {<<"project", n>>}
      BY <1>0, <3>1, <3>2, ThereExcept
    <3>4. There' = There
      BY <1>0, <2>3, <3>3
    <3> QED
      BY <2>1, <3>4 DEF Stays
  <2> QED
    BY <2>2, <2>3
<1>3. CASE call[r].pc = "Delete"
  <2>1. There' = There \ {<<"project", n>>}
    <3>1. projects' = [projects EXCEPT ![n] = Gone]
      BY <1>0, <1>3 DEF ProjectApplied
    <3> QED
      BY <1>0, <3>1, ThereExcept
  <2>2. CASE projects[n] = Gone
    <3>1. ~Ended(r)' /\ ~Made(r)'
      BY <1>0, <1>3, <2>2, ServeFacts, ServeMade DEF ProjectAnswer, Plain
    <3>2. There' = There
      BY <1>0, <2>1, <2>2
    <3> QED
      BY <1>0, <3>1, <3>2, ServeOwned DEF Stays
  <2>3. CASE projects[n] # Gone
    <3>1. Ended(r)' /\ ~Made(r)'
      BY <1>0, <1>3, <2>3, ServeFacts, ServeMade DEF ProjectAnswer, Plain
    <3>2. OwnedId(r)' = NoId
      BY <3>1, ServeOwned
    <3> QED
      BY <1>0, <1>3, <2>1, <3>2 DEF Ends
  <2> QED
    BY <2>2, <2>3
<1>4. CASE call[r].pc \in {"Exists", "Read"}
  <2>1. There' = There /\ ~Made(r)'
    BY <1>0, <1>4, ServeMade DEF ProjectApplied, There
  <2>2. CASE ~Ended(r)'
    BY <1>0, <2>1, <2>2, ServeOwned DEF Stays
  <2>3. CASE Ended(r)'
    <3>1. projects[n] = Gone
      BY <1>0, <1>4, <2>3, ServeFacts DEF ProjectAnswer, Plain
    <3>2. OwnedId(r)' = NoId
      BY <2>1, <2>3, ServeOwned
    <3> QED
      BY <1>0, <1>4, <2>1, <3>1, <3>2 DEF Ends
  <2> QED
    BY <2>2, <2>3
<1> QED
  BY <1>1, <1>2, <1>3, <1>4, ServeFacts

LEMMA JobServe ==
  ASSUME IInv, NEW r \in Resource, Serve(r), kind[r] = "job"
  PROVE  Stays(r) \/ Makes(r) \/ Ends(r) \/ Revives(r)
<1> DEFINE i == call[r].data.id
<1>0. /\ jobs' = JobApplied(r) /\ UNCHANGED <<policies, projects>> /\ Applied(r)
      /\ OwnedId(r) = i
      /\ call[r].pc # "Create" => i \in JobId /\ i # NoId
      /\ call[r].pc = "Create" => i = NoId
      /\ Answer(r) = JobAnswer(r)
  BY ServeFacts, ObjectAssumption DEF Applied, IdOK, Answer, Id
<1>1. CASE Imports(r)
  <2>1. Import(r) # Gone
    BY <1>1, ServeFacts, JobAssumption DEF Import, Imports, Jobs
  <2>2. jobs' = [jobs EXCEPT ![ImportId(r)] = Import(r)]
    BY <1>0, <1>1 DEF JobApplied, Imports
  <2>3. CASE call[r].pc = "Create"
    <3>1. NextId \in Fresh /\ NextId \in JobId /\ NextId # NoId /\ ImportId(r) = NextId
      BY <1>0, <2>3, NextIdFresh, ObjectAssumption DEF ImportId, Id
    <3>2. There' = There \cup {<<"job", NextId>>}
      BY <1>0, <2>1, <2>2, <3>1, ThereExcept
    <3>3. <<"job", NextId>> \notin There
      BY <3>1, OnThere DEF Fresh
    <3>4. Answer(r).id = NextId
      BY <1>0, <1>1, <3>1 DEF JobAnswer, Plain
    <3>5. OwnedId(r)' = NextId
      BY <2>3, <3>1, <3>4, CreatedJob, ServeMade, ServeOwned
    <3> QED
      BY <1>0, <2>3, <3>1, <3>2, <3>3, <3>5 DEF Makes, Things
  <2>4. CASE call[r].pc = "Update"
    <3>1. ImportId(r) = i
      BY <2>4 DEF ImportId
    <3>2. There' = There \cup {<<"job", i>>}
      BY <1>0, <2>1, <2>2, <2>4, <3>1, ThereExcept
    <3>3. OwnedId(r)' = OwnedId(r)
      BY <1>0, <2>4, ServeFacts, ServeMade, ServeOwned
    <3> QED
      BY <1>0, <2>4, <3>2, <3>3 DEF Revives
  <2> QED
    BY <1>1, <2>3, <2>4 DEF Imports
<1>2. CASE ~Imports(r) /\ call[r].pc # "Delete"
  <2>1. There' = There
    BY <1>0, <1>2 DEF JobApplied, There
  <2>2. CASE call[r].pc \in {"Create", "Update"}
    <3>1. Answer(r).id = NoId
      BY <1>0, <1>2, <2>2, PlainReply DEF JobAnswer, Status
    <3>2. OwnedId(r)' = OwnedId(r)
      BY <1>0, <2>2, <3>1, ServeFacts, ServeMade, ServeOwned
    <3> QED
      BY <2>1, <3>2 DEF Stays
  <2>3. CASE call[r].pc \notin {"Create", "Update"} /\ ~Ended(r)'
    BY <1>0, <2>1, <2>3, ServeMade, ServeOwned DEF Stays
  <2>4. CASE Ended(r)'
    <3>1. jobs[i] = Gone /\ call[r].pc = "Exists"
      BY <1>0, <1>2, <2>4, ServeEnded DEF serverVars
    <3>2. OwnedId(r)' = NoId
      BY <2>4, <3>1, ServeMade, ServeOwned
    <3>3. <<"job", i>> \notin There
      BY <1>0, <3>1, OnThere
    <3> QED
      BY <1>0, <2>1, <3>1, <3>2, <3>3 DEF Ends
  <2> QED
    BY <2>2, <2>3, <2>4
<1>3. CASE call[r].pc = "Delete"
  <2>1. jobs' = [jobs EXCEPT ![i] = Gone]
    BY <1>0, <1>3 DEF JobApplied, Imports
  <2>2. There' = There \ {<<"job", i>>}
    BY <1>0, <1>3, <2>1, ThereExcept
  <2>3. Ended(r)'
    <3>1. ~Imports(r)
      BY <1>3 DEF Imports
    <3>2. CASE jobs[i] = Gone
      <4>1. Answer(r) = Plain("404")
        BY <1>0, <1>3, <3>1, <3>2 DEF JobAnswer
      <4> QED
        BY <1>3, <4>1, ServeFacts DEF Plain
    <3>3. CASE jobs[i] # Gone
      <4>1. Answer(r) = [status |-> "200", id |-> i, name |-> jobs[i].name,
                         content |-> jobs[i].content]
        BY <1>0, <1>3, <3>1, <3>3 DEF JobAnswer, Plain
      <4> QED
        BY <1>3, <4>1, ServeFacts
    <3> QED
      BY <3>2, <3>3
  <2>4. OwnedId(r)' = NoId
    BY <1>3, <2>3, ServeMade, ServeOwned
  <2> QED
    BY <1>0, <1>3, <2>2, <2>4 DEF Ends
<1> QED
  BY <1>1, <1>2, <1>3

LEMMA ServeOutcome ==
  ASSUME IInv, NEW r \in Resource, Serve(r)
  PROVE  Stays(r) \/ Makes(r) \/ TakesOver(r) \/ Ends(r) \/ Revives(r)
<1>1. kind[r] \in {"policy", "project", "job"}
  BY ObjectAssumption DEF IInv, TypeOK
<1> QED
  BY <1>1, PolicyServe, ProjectServe, JobServe

(* The steps of Ownership that they are. *)

LEMMA SteadyWorld == UNCHANGED env => UNCHANGED ObjectWorld
  BY DEF ObjectWorld, AnswersArrive

LEMMA OwnedThing ==
  ASSUME IInv, NEW r \in Resource, OwnedId(r) # NoId
  PROVE  /\ <<kind[r], OwnedId(r)>> \in Things /\ <<kind[r], OwnedId(r)>> # NoId
         /\ Owns[r] = <<kind[r], OwnedId(r)>>
<1>1. kind[r] \in {"policy", "project", "job"}
  BY ObjectAssumption DEF IInv, TypeOK
<1>2. OwnedId(r) \in IF kind[r] = "job" THEN JobId ELSE Name
  BY OwnedType
<1> QED
  BY <1>1, <1>2, ObjectAssumption DEF Things, Owns, Owned, Id

LEMMA NothingMaps ==
  ASSUME UNCHANGED <<env, kind, There>>, \A s \in Resource : OwnedId(s)' = OwnedId(s)
  PROVE  Objects!Next /\ UNCHANGED Owns
<1>1. UNCHANGED ObjectWorld
  BY SteadyWorld
<1>2. UNCHANGED Owns
  BY DEF Owns, Owned
<1> QED
  BY <1>1, <1>2 DEF Objects!Next, Objects!vars, There, Owns, ObjectWorld

(* Somebody makes or removes a thing and nobody hears of it. *)
LEMMA UnheardMaps ==
  ASSUME UNCHANGED <<env, kind>>, \A s \in Resource : OwnedId(s)' = OwnedId(s),
         NEW t \in Things,
         \/ There' = There \cup {t} /\ ~Trusted
         \/ /\ There' = There \ {t}
            /\ env.others \/ (~AnswersArrive /\ \E s \in Resource : Owns[s] = t)
  PROVE  Objects!Next
<1>1. UNCHANGED ObjectWorld /\ UNCHANGED Owns
  BY SteadyWorld DEF Owns, Owned
<1>2. CASE There' = There
  BY <1>2, NothingMaps
<1>3. CASE There' = There \cup {t} /\ t \notin There /\ ~Trusted
  <2>1. Objects!Appear(t)
    BY <1>1, <1>3
    DEF Objects!Appear, Objects!Trusted, ObjectWorld, Owns, There, Trusted
  <2> QED
    BY <2>1 DEF Objects!Next, Things
<1>4. CASE There' = There \ {t} /\ t \in There
             /\ (env.others \/ (~AnswersArrive /\ \E s \in Resource : Owns[s] = t))
  <2>1. Objects!Vanish(t)
    BY <1>1, <1>4 DEF Objects!Vanish, ObjectWorld, Owns, There
  <2> QED
    BY <2>1 DEF Objects!Next, Things
<1> QED
  BY <1>2, <1>3, <1>4

(* The answer of the server is what makes an owner or ends an ownership.   *)
LEMMA ServeMaps ==
  ASSUME JInv, OP!IInv, NEW r \in Resource, Serve(r)
  PROVE  Objects!Next
<1>0. /\ IInv /\ UNCHANGED <<env, kind>> /\ UNCHANGED ObjectWorld
      /\ \A s \in Resource \ {r} : OwnedId(s)' = OwnedId(s)
  BY ServeRow, SameRow, SteadyWorld DEF JInv, Only
<1>1. ASSUME NEW t, Owned(r)' = t PROVE Owns' = [Owns EXCEPT ![r] = t]
  BY <1>0, <1>1 DEF Owns, Owned
<1>2. CASE Stays(r)
  BY <1>0, <1>2, NothingMaps DEF Stays
<1>3. CASE Makes(r)
  <2>0. <<kind[r], OwnedId(r)'>> \in Things
    BY <1>3 DEF Makes
  <2> PICK t \in Things : t = <<kind[r], OwnedId(r)'>>
    BY <2>0
  <2>1. Owned(r)' = t /\ Owns[r] = NoId
    BY <1>0, <1>3 DEF Owned, Owns, Makes
  <2>2. t \notin There /\ There' = There \cup {t}
    BY <1>3 DEF Makes
  <2>3. Objects!Create(r, t)
    BY <1>0, <1>1, <2>1, <2>2
    DEF Objects!Create, Objects!Own, ObjectWorld, Owns, There
  <2> QED
    BY <2>3 DEF Objects!Next, Things
<1>4. CASE TakesOver(r)
  <2>0. /\ <<"project", OwnedId(r)'>> \in Things
        /\ <<"project", OwnedId(r)'>> \in {"project"} \X Name
    BY <1>4 DEF TakesOver, Things
  <2> PICK t \in Things : t = <<"project", OwnedId(r)'>>
    BY <2>0
  <2>1. Owned(r)' = t /\ Owns[r] = NoId
    BY <1>0, <1>4 DEF Owned, Owns, TakesOver
  <2>2. t \in There /\ t \in {"project"} \X Name /\ There' = There
    BY <1>4, <2>0 DEF TakesOver
  <2>3. Objects!Adopt(r, t)
    BY <1>0, <1>1, <2>1, <2>2
    DEF Objects!Adopt, Objects!Own, ObjectWorld, Owns, There
  <2> QED
    BY <2>3 DEF Objects!Next, Things
<1>5. CASE Ends(r)
  <2>1. Owned(r)' = NoId /\ OwnedId(r) # NoId
    BY <1>5 DEF Ends, Owned
  <2>2. Owns[r] # NoId /\ There' = There \ {Owns[r]}
    BY <1>0, <1>5, <2>1, OwnedThing DEF Ends
  <2>3. Objects!Remove(r)
    BY <1>0, <1>1, <2>1, <2>2 DEF Objects!Remove, Objects!Own, ObjectWorld, Owns, There
  <2> QED
    BY <2>3 DEF Objects!Next
<1>6. CASE Revives(r)
  <2>1. /\ \A s \in Resource : OwnedId(s)' = OwnedId(s)
        /\ <<kind[r], OwnedId(r)>> \in Things /\ Owns[r] = <<kind[r], OwnedId(r)>>
        /\ Owns[r] # NoId /\ There' = There \cup {Owns[r]} /\ kind[r] = "job"
    BY <1>0, <1>6, OwnedThing DEF Revives
  <2>2. CASE ~Trusted
    <3> PICK t \in Things : t = Owns[r]
      BY <2>1
    <3> QED
      BY <1>0, <2>1, <2>2, UnheardMaps
  <2>3. CASE Trusted
    <3>1. Owns[r] \notin {"project"} \X Name
      BY <2>1
    <3>2. Owns[r] \in There
      BY <2>1, <2>3, <3>1 DEF OP!IInv, OP!OwnersHold, OP!Trusted, ObjectWorld, Trusted
    <3> QED
      BY <1>0, <2>1, <3>2, NothingMaps
  <2> QED
    BY <2>2, <2>3
<1> QED
  BY <1>0, <1>2, <1>3, <1>4, <1>5, <1>6, ServeOutcome

(* A request that is carried out makes or removes at most one thing, and   *)
(* removes what its resource owns.                                         *)
LEMMA AppliedThere ==
  ASSUME IInv, NEW r \in Resource, Waiting(r), Applied(r), There' # There
  PROVE  \E t \in Things : \/ There' = There \cup {t}
                           \/ There' = There \ {t} /\ Owns[r] = t
<1> DEFINE n == call[r].data.name
           i == call[r].data.id
           c == call[r].data.content
<1>0. /\ n \in Name /\ n # NoId /\ OwnedId(r) = i /\ kind[r] \in {"policy", "project", "job"}
      /\ call[r].pc # "Create" => IF kind[r] = "job" THEN i \in JobId /\ i # NoId ELSE i = n
      /\ call[r].pc \in {"Create", "Update"} => c \in Content /\ c # Gone
  <2>1. call[r] # Idle /\ ~Made(r) /\ ~Ended(r)
    BY WaitingData DEF Made, Ended
  <2> QED
    BY <2>1, OwnedAtWork, WaitingData, ObjectAssumption
    DEF IInv, HandlerOK, IdOK, TypeOK, Id, Stored
<1>1. \A t \in Things : t = <<kind[r], OwnedId(r)>> /\ OwnedId(r) # NoId => Owns[r] = t
  BY OwnedThing
<1>2. CASE kind[r] = "policy"
  <2>0. /\ policies' = PolicyApplied(r) /\ UNCHANGED <<projects, jobs>>
        /\ <<"policy", n>> \in Things
    BY <1>0, <1>2 DEF Applied, Things
  <2>1. CASE call[r].pc \in {"Create", "Update"} /\ policies' = [policies EXCEPT ![n] = c]
    <3>1. There' = There \cup {<<"policy", n>>}
      BY <1>0, <2>0, <2>1, ThereExcept
    <3> QED
      BY <2>0, <3>1
  <2>2. CASE call[r].pc = "Delete" /\ policies' = [policies EXCEPT ![n] = Gone]
    <3>1. There' = There \ {<<"policy", n>>}
      BY <1>0, <2>0, <2>2, ThereExcept
    <3> QED
      BY <1>0, <1>1, <1>2, <2>0, <2>2, <3>1
  <2>3. CASE policies' = policies
    BY <2>0, <2>3 DEF There
  <2> QED
    BY <2>0, <2>1, <2>2, <2>3 DEF PolicyApplied
<1>3. CASE kind[r] = "project"
  <2>0. /\ projects' = ProjectApplied(r) /\ UNCHANGED <<policies, jobs>>
        /\ <<"project", n>> \in Things
    BY <1>0, <1>3 DEF Applied, Things
  <2>1. ASSUME NEW new, new # Gone, projects' = [projects EXCEPT ![n] = new]
        PROVE  \E t \in Things : There' = There \cup {t}
    <3>1. There' = There \cup {<<"project", n>>}
      BY <1>0, <2>0, <2>1, ThereExcept
    <3> QED
      BY <2>0, <3>1
  <2>2. CASE call[r].pc = "Delete" /\ projects' = [projects EXCEPT ![n] = Gone]
    <3>1. There' = There \ {<<"project", n>>}
      BY <1>0, <2>0, <2>2, ThereExcept
    <3> QED
      BY <1>0, <1>1, <1>3, <2>0, <2>2, <3>1
  <2>3. CASE projects' = projects
    BY <2>0, <2>3 DEF There
  <2>4. CASE call[r].pc = "Create"
    <3>1. [content |-> Bare, by |-> r] # Gone
      BY ProjectAssumption DEF Projects, Stored
    <3> QED
      BY <2>0, <2>1, <2>3, <2>4, <3>1 DEF ProjectApplied
  <2>5. CASE call[r].pc = "Update" /\ projects[n] # Gone
    <3>1. [content |-> c, by |-> projects[n].by] # Gone
      BY <1>0, <2>5, ProjectAssumption DEF Projects, Stored, IInv, TypeOK
    <3> QED
      BY <2>0, <2>1, <2>5, <3>1 DEF ProjectApplied
  <2> QED
    BY <2>0, <2>2, <2>3, <2>4, <2>5 DEF ProjectApplied
<1>4. CASE kind[r] = "job"
  <2>0. jobs' = JobApplied(r) /\ UNCHANGED <<policies, projects>>
    BY <1>4 DEF Applied
  <2>1. CASE Imports(r)
    <3>1. Import(r) # Gone /\ ImportId(r) \in JobId
      BY <1>0, <1>4, <2>1, JobAssumption, NextIdFresh DEF Import, ImportId, Imports, Jobs
    <3>2. jobs' = [jobs EXCEPT ![ImportId(r)] = Import(r)]
      BY <2>0, <2>1 DEF JobApplied, Imports
    <3>3. There' = There \cup {<<"job", ImportId(r)>>}
      BY <2>0, <3>1, <3>2, ThereExcept
    <3> QED
      BY <3>1, <3>3 DEF Things
  <2>2. CASE call[r].pc = "Delete"
    <3>1. jobs' = [jobs EXCEPT ![i] = Gone] /\ i \in JobId
      BY <1>0, <1>4, <2>0, <2>2 DEF JobApplied, Imports
    <3>2. There' = There \ {<<"job", i>>}
      BY <2>0, <3>1, ThereExcept
    <3> QED
      BY <1>0, <1>1, <1>4, <2>2, <3>1, <3>2 DEF Things
  <2>3. CASE ~Imports(r) /\ call[r].pc # "Delete"
    BY <2>0, <2>3 DEF JobApplied, There
  <2> QED
    BY <2>1, <2>2, <2>3
<1> QED
  BY <1>0, <1>2, <1>3, <1>4

LEMMA DisturbMaps ==
  ASSUME IInv, NEW r \in Resource, Disturb(r)
  PROVE  Objects!Next
<1>1. UNCHANGED <<env, kind>> /\ \A s \in Resource : OwnedId(s)' = OwnedId(s)
  BY DisturbIds, SameRow DEF Only
<1>2. CASE UNCHANGED There
  BY <1>1, <1>2, NothingMaps
<1>3. CASE There' # There
  <2>1. ~AnswersArrive /\ Waiting(r) /\ Applied(r)
    BY <1>3, DisturbFrame DEF There, serverVars
  <2>2. PICK t \in Things : \/ There' = There \cup {t}
                            \/ There' = There \ {t} /\ Owns[r] = t
    BY <1>3, <2>1, AppliedThere
  <2> QED
    BY <1>1, <2>1, <2>2, UnheardMaps DEF Trusted
<1> QED
  BY <1>2, <1>3

LEMMA ElsewhereMaps ==
  ASSUME IInv, Elsewhere
  PROVE  Objects!Next
<1>0. /\ UNCHANGED <<env, kind>> /\ env.others
      /\ \A s \in Resource : OwnedId(s)' = OwnedId(s)
  BY ElsewhereIds
<1>1. PICK t \in Things : There' = There \cup {t} \/ There' = There \ {t}
  <2>1. ASSUME NEW n \in Name, NEW c, policies' = [policies EXCEPT ![n] = c],
               UNCHANGED <<projects, jobs>>
        PROVE  \E t \in Things : There' = There \cup {t} \/ There' = There \ {t}
    <3>1. <<"policy", n>> \in Things
      BY DEF Things
    <3>2. \/ There' = There \cup {<<"policy", n>>} \/ There' = There \ {<<"policy", n>>}
      BY <2>1, ThereExcept
    <3> QED
      BY <3>1, <3>2
  <2>2. ASSUME NEW n \in Name, NEW p, projects' = [projects EXCEPT ![n] = p],
               UNCHANGED <<policies, jobs>>
        PROVE  \E t \in Things : There' = There \cup {t} \/ There' = There \ {t}
    <3>1. <<"project", n>> \in Things
      BY DEF Things
    <3>2. \/ There' = There \cup {<<"project", n>>} \/ There' = There \ {<<"project", n>>}
      BY <2>2, ThereExcept
    <3> QED
      BY <3>1, <3>2
  <2>3. ASSUME NEW i \in JobId, NEW j, jobs' = [jobs EXCEPT ![i] = j],
               UNCHANGED <<policies, projects>>
        PROVE  \E t \in Things : There' = There \cup {t} \/ There' = There \ {t}
    <3>1. <<"job", i>> \in Things
      BY DEF Things
    <3>2. \/ There' = There \cup {<<"job", i>>} \/ There' = There \ {<<"job", i>>}
      BY <2>3, ThereExcept
    <3> QED
      BY <3>1, <3>2
  <2> QED
    BY <2>1, <2>2, <2>3 DEF Elsewhere
<1> QED
  BY <1>0, <1>1, UnheardMaps DEF Trusted

LEMMA NextMaps ==
  ASSUME JInv, OP!IInv, [Next]_vars
  PROVE  Objects!Next
<1>0. IInv
  BY DEF JInv
<1>1. ASSUME NEW r \in Resource, Handler(r) \/ Retry(r) PROVE Objects!Next
  <2>1. UNCHANGED <<env, serverVars, kind>> /\ \A s \in Resource : OwnedId(s)' = OwnedId(s)
    BY <1>0, <1>1, HandlerIds, RetryIds, SameRow DEF Only
  <2> QED
    BY <2>1, NothingMaps DEF serverVars, There
<1>2. CASE Start \/ PlanAll \/ End \/ (\E r \in Resource : Edit(r))
  BY <1>0, <1>2, PhaseIds, NothingMaps DEF serverVars, There
<1>3. CASE UNCHANGED vars
  BY <1>3, UnchangedIds, NothingMaps DEF serverVars, There
<1> QED
  BY <1>0, <1>1, <1>2, <1>3, ServeMaps, DisturbMaps, ElsewhereMaps DEF Next, Step

LEMMA InitMaps == Init => Objects!Init /\ OP!IInv
<1> SUFFICES ASSUME Init PROVE Objects!Init /\ OP!IInv
  OBVIOUS
<1>0. IInv
  BY InitIInv
<1>1. Owns = [r \in Resource |-> NoId]
  BY DEF Init, Owns, Owned, OwnedId, Made, Ended, Managed, Absent, Idle, At
<1>2. There \subseteq Things
  BY <1>0 DEF There, On, Things, IInv, TypeOK
<1>3. ObjectWorld \in [lossy : BOOLEAN, others : BOOLEAN, careless : SUBSET Resource]
  <2>1. env.others \in BOOLEAN
    BY <1>0, EnvironmentAssumption DEF IInv, TypeOK
  <2>2. (~AnswersArrive) \in BOOLEAN
    OBVIOUS
  <2> QED
    BY <2>1, <2>2 DEF ObjectWorld
<1>4. Objects!Init
  BY <1>1, <1>2, <1>3 DEF Objects!Init, Objects!World, Owns, There, Things, ObjectWorld
<1>5. OP!Init
  BY <1>1, <1>2, <1>3 DEF OP!Init, OP!World
<1> QED
  BY <1>4, <1>5, OP!InitIInv

----------------------------------------------------------------------------
(* In a trusted world every policy and job in a state exists. *)

LEMMA ServeTrusted ==
  ASSUME IInv, OP!IInv, NEW r \in Resource, Serve(r)
  PROVE  AnswerOK(r)'
<1> SUFFICES ASSUME Trusted', kind[r] # "project", call[r].pc = "Exists", Ended(r)'
             PROVE  FALSE
  BY ServeRow DEF AnswerOK
<1>1. Trusted
  BY ServeRow DEF Trusted, AnswersArrive
<1>2. /\ Managed(r) /\ Held(kind[r], state[r].object) = Gone
      /\ state[r].object.id = OwnedId(r) /\ IdOK(kind[r], state[r].object)
      /\ state[r].object \in Object
  BY NotFound, ServeRow DEF IInv, HandlerOK, TypeOK, Managed
<1>3. OwnedId(r) # NoId
  BY <1>2, ObjectAssumption DEF IdOK, Object, Id
<1>4. Owns[r] = <<kind[r], OwnedId(r)>> /\ Owns[r] # NoId
  BY <1>3, OwnedThing
<1>5. Owns[r] \in There
  <2>1. Owns[r] \notin ({"project"} \X Name) \cup {NoId}
    BY <1>4
  <2> QED
    BY <1>1, <2>1 DEF OP!IInv, OP!OwnersHold, OP!Trusted, ObjectWorld, Trusted
<1>6. kind[r] \in {"policy", "job"}
  BY ObjectAssumption DEF IInv, TypeOK
<1>7. CASE kind[r] = "policy"
  BY <1>2, <1>4, <1>5, <1>7, OnThere DEF Held, IdOK, Object
<1>8. CASE kind[r] = "job"
  <2>1. jobs[OwnedId(r)] # Gone /\ OwnedId(r) \in JobId
    BY <1>2, <1>4, <1>5, <1>8, OnThere DEF IdOK
  <2>2. jobs[OwnedId(r)].content # Gone
    BY <2>1, ObjectAssumption DEF IInv, TypeOK, Jobs, Stored
  <2> QED
    BY <1>2, <1>8, <2>1, <2>2 DEF Held
<1> QED
  BY <1>6, <1>7, <1>8

LEMMA NextTrusted ==
  ASSUME IInv, OP!IInv, \A r \in Resource : AnswerOK(r), [Next]_vars, NEW s \in Resource
  PROVE  AnswerOK(s)'
<1>0. ASSUME UNCHANGED <<env, kind>>, state'[s] = state[s], call'[s] = call[s]
      PROVE  AnswerOK(s)'
  BY <1>0, SameRow DEF AnswerOK, Trusted, AnswersArrive
<1>1. ASSUME NEW r \in Resource, Serve(r) PROVE AnswerOK(s)'
  BY <1>0, <1>1, ServeTrusted, ServeRow DEF Only
<1>2. ASSUME NEW r \in Resource, Handler(r) \/ Disturb(r) \/ Retry(r)
      PROVE  AnswerOK(s)'
  <2>1. /\ UNCHANGED <<env, kind>> /\ Only(r) /\ ~Ended(r)'
    BY <1>2, HandlerIds, DisturbIds, RetryIds
  <2>2. CASE s = r
    BY <2>1, <2>2 DEF AnswerOK
  <2>3. CASE s # r
    BY <1>0, <2>1, <2>3 DEF Only
  <2> QED
    BY <2>2, <2>3
<1>3. CASE Elsewhere \/ UNCHANGED vars
  BY <1>0, <1>3, ElsewhereIds, UnchangedIds
<1>4. CASE Start \/ PlanAll \/ End \/ (\E r \in Resource : Edit(r))
  BY <1>4, PhaseIds DEF AnswerOK
<1> QED
  BY <1>1, <1>2, <1>3, <1>4 DEF Next, Step

OInv == JInv /\ OP!IInv /\ \A r \in Resource : AnswerOK(r)

LEMMA OwnershipInvariant == Spec => []OInv
<1>1. Init => OInv
  <2> SUFFICES ASSUME Init PROVE OInv
    OBVIOUS
  <2>1. \A r \in Resource : AnswerOK(r)
    BY DEF Init, AnswerOK, Ended, Idle, At
  <2> QED
    BY <2>1, InitJInv, InitMaps DEF OInv
<1>2. OInv /\ [Next]_vars => OInv'
  <2> SUFFICES ASSUME OInv, [Next]_vars PROVE OInv'
    OBVIOUS
  <2>1. JInv' /\ OP!IInv'
    BY NextIInv, NextUnique, NextRemembered, NextEnded, NextSeen, NextMaps, OwnersStillHold
    DEF OInv, JInv
  <2>2. \A s \in Resource : AnswerOK(s)'
    BY NextTrusted DEF OInv, JInv
  <2> QED
    BY <2>1, <2>2 DEF OInv
<1> QED
  BY <1>1, <1>2, PTL DEF Spec

(* The handlers of policies, projects and jobs, request by request,        *)
(* implement Ownership: whatever is lost, refused, retried, interleaved or *)
(* done by other people, an object is made and owned in one step, and      *)
(* removed and given up in one step.                                       *)
THEOREM ObjectsImplementOwnership == Spec => ObjectsAreOwned
<1>1. OInv /\ [Next]_vars => [Objects!Next]_(Objects!vars)
  BY NextMaps DEF OInv
<1> QED
  BY <1>1, InitMaps, OwnershipInvariant, PTL DEF Spec, ObjectsAreOwned, Objects!Spec

(* No two resources manage one job, ever, or one policy, in a trusted      *)
(* world.                                                                  *)
THEOREM NobodyManagesTwice == Spec => []OneManager
<1>1. OInv => OneManager
  <2> SUFFICES ASSUME OInv, NEW r \in Resource, NEW s \in Resource, NEW id \in Id,
                      kind[r] = kind[s], Manages(r, id), Manages(s, id),
                      kind[r] = "job" \/ (kind[r] = "policy" /\ Trusted)
               PROVE  r = s
    BY DEF OneManager, Trusted
  <2>0. IInv /\ id # NoId
    BY ObjectAssumption DEF OInv, JInv
  <2>1. CASE kind[r] = "job"
    <3>1. id \in JobId /\ Holds(r, id) /\ Holds(s, id)
      BY <2>0, <2>1 DEF Manages, Holds, IInv, HandlerOK, IdOK
    <3> QED
      BY <2>1, <3>1 DEF OInv, JInv, UniqueIds
  <2>2. CASE kind[r] = "policy" /\ Trusted
    <3>1. ASSUME NEW q \in {r, s} PROVE Owns[q] = <<"policy", id>> /\ Owns[q] # NoId
      <4>1. q \in Resource /\ kind[q] = "policy" /\ Manages(q, id) /\ AnswerOK(q)
        BY <2>2, <3>1 DEF OInv
      <4>2. ~Made(q) /\ ~Ended(q) /\ call[q].rpc # "create" /\ Managed(q)
        BY <2>0, <2>2, <4>1 DEF Manages, Made, Ended, AnswerOK, IInv, HandlerOK
      <4>3. OwnedId(q) = id
        BY <4>1, <4>2 DEF OwnedId, Manages
      <4> QED
        BY <2>0, <4>1, <4>3, OwnedThing
    <3>2. Owns[r] \notin ({"project"} \X Name) \cup {NoId}
      BY <3>1
    <3> QED
      BY <2>2, <3>1, <3>2 DEF OInv, OP!IInv, OP!OwnersHold, OP!Trusted, ObjectWorld, Trusted
  <2> QED
    BY <2>1, <2>2
<1> QED
  BY <1>1, OwnershipInvariant, PTL
=============================================================================
