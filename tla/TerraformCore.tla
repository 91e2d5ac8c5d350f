--------------------------- MODULE TerraformCore ---------------------------
(***************************************************************************)
(* Terraform core and the plugin SDK as the provider's handlers meet them. *)
(* A run refreshes every resource in the state, plans, and applies the     *)
(* planned actions; within a phase the resources are walked concurrently,  *)
(* one handler call each.  This module keeps the state file and the calls  *)
(* in flight, and says what core records when a handler returns: the       *)
(* handlers themselves are in the modules that extend this one.            *)
(***************************************************************************)
EXTENDS RundeckClient

CONSTANTS
  Resource,     \* addresses of the resource blocks
  NoBlock,      \* no such block in the configuration
  NoObject,     \* no such object in the state; a ResourceData without an id
  NoReply,      \* the outstanding request has not been answered
  Environments  \* what a behaviour may have to put up with, see env

VARIABLES
  env,          \* [faults, others], fixed for a behaviour: what may go wrong
                \* with a request, and whether other people use the server
  config,       \* config[r]: the block the user wrote, or NoBlock
  state,        \* state[r]: the object recorded for r and its taint
  phase,        \* "idle" between runs, then "refresh", then "apply"
  outcome,      \* of this run, or of the last one: "ok", "errors", "panic"
  call          \* call[r]: the handler running for r

bookVars == <<env, config, state, phase, outcome>>
coreVars == <<bookVars, call>>

(* The request is answered with the status; applied says whether the       *)
(* server carried it out first.                                            *)
Fault == [status : {"403", "429", "500"} \cup NetworkErrors, applied : BOOLEAN]
ASSUME EnvironmentAssumption ==
  Environments \subseteq [faults : SUBSET Fault, others : BOOLEAN]

(* No answer to an applied request is lost, in the network or with the     *)
(* provider process.                                                       *)
AnswersArrive ==
  \A f \in env.faults : ~f.applied /\ ~NilResponse(f.status)

Phases   == {"idle", "refresh", "apply"}
Outcomes == {"ok", "errors", "panic"}
RPCs     == {"none", "refresh", "create", "update", "delete", "replace"}

(* A handler: the RPC it serves, the program point it is at, the retries   *)
(* already spent on its request, the answer to it and its ResourceData.    *)
(* "replace" is the delete half of a replacement; once that half is done   *)
(* the call goes on as a "create".                                         *)
At(rpc, pc, data) ==
  [rpc |-> rpc, pc |-> pc, tries |-> 0, reply |-> NoReply, data |-> data]
Idle == At("none", "idle", NoObject)

(* The handler goes on to its next request. *)
Send(r, pc, data) == call' = [call EXCEPT ![r] = At(call[r].rpc, pc, data)]

Managed(r) == state[r].object # NoObject
AllIdle    == \A r \in Resource : call[r] = Idle
Absent     == [object |-> NoObject, tainted |-> FALSE]

----------------------------------------------------------------------------
(* What core records when a handler returns.                               *)

Record(r, object, tainted) ==
  state' = [state EXCEPT ![r] = [object |-> object, tainted |-> tainted]]
Return(r) == call' = [call EXCEPT ![r] = Idle]
Note(err) == outcome' = IF err THEN "errors" ELSE outcome

(* Exists said no, or Read gave a new object; a taint outlives a refresh.  *)
Refreshed(r, object) ==
  /\ Record(r, object, object # NoObject /\ state[r].tainted)
  /\ Return(r)
  /\ UNCHANGED <<env, config, phase, outcome>>

RefreshFailedUnnoticed(r) ==            \* mutant: the error is dropped
  /\ Return(r)
  /\ UNCHANGED <<env, config, phase, state, outcome>>

(* Exists or Read failed: the object stays as it was recorded. *)
RefreshFailed(r) ==
  /\ Return(r) /\ Note(TRUE)
  /\ UNCHANGED <<env, config, phase, state>>

(* The object a failed Create leaves behind is tainted. *)
Created(r, object, err) ==
  /\ Record(r, object, err /\ object # NoObject)
  /\ Return(r) /\ Note(err)
  /\ UNCHANGED <<env, config, phase>>

UpdatedSilently(r, object, err) ==      \* mutant: the error is dropped
  /\ Record(r, object, FALSE)
  /\ Return(r)
  /\ UNCHANGED <<env, config, phase, outcome>>

(* No handler uses the partial mode of ResourceData: what an Update leaves *)
(* in it, planned values included, is recorded whether it failed or not.   *)
Updated(r, object, err) ==
  /\ Record(r, object, FALSE)
  /\ Return(r) /\ Note(err)
  /\ UNCHANGED <<env, config, phase>>

(* A Read ends the refresh, the create or the update it runs in. *)
ReadReturns(r, object, err) ==
  \/ call[r].rpc = "refresh" /\ IF err THEN RefreshFailed(r)
                                       ELSE Refreshed(r, object)
  \/ call[r].rpc = "create"  /\ Created(r, object, err)
  \/ call[r].rpc = "update"  /\ Updated(r, object, err)

(* The second half of a replacement starts as soon as the first is done.   *)
Deleted(r, create) ==
  /\ Record(r, NoObject, FALSE)
  /\ call' = [call EXCEPT ![r] = IF @.rpc = "replace" THEN create ELSE Idle]
  /\ UNCHANGED <<env, config, phase, outcome>>

(* The prior object is kept, and written back as an untainted one. *)
DeleteFailed(r) ==
  /\ Record(r, state[r].object, FALSE)
  /\ Return(r) /\ Note(TRUE)
  /\ UNCHANGED <<env, config, phase>>

(* A nil dereference in one handler kills the provider process, and every  *)
(* call in flight with it: core keeps the prior object of each.            *)
Panic ==
  /\ state' = [r \in Resource |->
                 IF call[r].rpc \in {"delete", "replace"}
                   THEN [state[r] EXCEPT !.tainted = FALSE] ELSE state[r]]
  /\ call' = [r \in Resource |-> Idle]
  /\ phase' = "idle" /\ outcome' = "panic"
  /\ UNCHANGED <<env, config>>

----------------------------------------------------------------------------
(* The phases of a run. *)

StartRun ==
  /\ phase = "idle"
  /\ phase' = "refresh" /\ outcome' = "ok"
  /\ call' = [r \in Resource |->
                IF Managed(r) THEN At("refresh", "Exists", state[r].object)
                              ELSE Idle]
  /\ UNCHANGED <<env, config, state>>

(* The action planned for r, when the differences between its block and    *)
(* its object force a replacement (replace) or ask for an update (update). *)
Action(r, replace, update) ==
  IF config[r] = NoBlock THEN IF Managed(r) THEN "delete" ELSE "none"
  ELSE IF ~Managed(r) THEN "create"
  ELSE IF state[r].tainted \/ replace THEN "replace"
  ELSE IF update THEN "update" ELSE "none"

(* calls[r] is the handler that carries out the action planned for r. *)
Plan(calls) ==
  /\ phase = "refresh" /\ AllIdle /\ outcome = "ok"
  /\ phase' = "apply"
  /\ call' = calls
  /\ UNCHANGED <<env, config, state, outcome>>

EndRunAfterApply ==                     \* mutant: a failed refresh never ends
  /\ phase = "apply" /\ AllIdle
  /\ phase' = "idle"
  /\ UNCHANGED <<env, config, state, outcome, call>>

(* Refresh errors end the run before the plan; an apply ends with its walk. *)
EndRun ==
  /\ \/ phase = "refresh" /\ outcome # "ok"
     \/ phase = "apply"
  /\ AllIdle
  /\ phase' = "idle"
  /\ UNCHANGED <<env, config, state, outcome, call>>

(* Between runs the user rewrites a block, adds it or removes it. *)
EditConfig(r, block) ==
  /\ phase = "idle" /\ config[r] # block
  /\ config' = [config EXCEPT ![r] = block]
  /\ UNCHANGED <<env, state, phase, outcome, call>>
=============================================================================
