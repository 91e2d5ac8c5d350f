--------------------------- MODULE ServerObjects ---------------------------
(***************************************************************************)
(* What the handlers of ACL policies, projects and jobs have in common:    *)
(* the shape of the objects recorded for them, how a plan is made, the     *)
(* Exists and Read calls of a refresh and the call of a destroy.  Each     *)
(* kind is completed by the module named after it.                         *)
(***************************************************************************)
EXTENDS Requests

CONSTANTS
  Name,           \* what forces a new object when it changes: the name of a
                  \* policy or a project, the project and group of a job
  Content,        \* the rest of a block, as a user writes it
  Malformed,      \* contents that policies and jobs may not have; those of
                  \* jobs are turned down by the provider or the server
  Bare,           \* the configuration of a project fresh from ProjectCreate
  JobId,          \* the ids the server gives to jobs
  NoId,           \* the id of an object not yet created
  Gone,           \* the server has no such object
  Kinds           \* the assignments of kinds to resources to consider

VARIABLE kind     \* kind[r]: "policy", "project" or "job", fixed

Id     == Name \cup JobId
Stored == Content \cup {Bare}
Object == [id : Id \cup {NoId}, name : Name, content : Stored]
Block  == [name : Name, content : Content]
Reply  == [status : Status, id : Id \cup {NoId}, name : Name \cup {NoId},
           content : Stored \cup {Gone}]

ASSUME ObjectAssumption ==
  /\ Malformed \subseteq Content
  /\ Bare \notin Content
  /\ Gone \notin Stored /\ Name \cap JobId = {}
  /\ NoId \notin Id \cup ({"policy", "project", "job"} \X Id)
  /\ NoObject \notin Object /\ NoBlock \notin Block /\ NoReply \notin Reply
  /\ Kinds \subseteq [Resource -> {"policy", "project", "job"}]

Plain(status) ==
  [status |-> status, id |-> NoId, name |-> NoId, content |-> Gone]

----------------------------------------------------------------------------
(* Refresh and destroy. *)

ObjectExistsOrLost(r, op) ==        \* mutant: an error counts as a 404
  /\ Heard(r, "Exists")
  /\ IF Code(r) = "200"
       THEN Send(r, "Read", call[r].data) /\ UNCHANGED bookVars
       ELSE Refreshed(r, NoObject)
ObjectExistsOnly(r, op) ==          \* mutant: nothing is read
  /\ Heard(r, "Exists")
  /\ \/ Err(r, op) /\ RefreshFailed(r)
     \/ Code(r) = "404" /\ Refreshed(r, NoObject)
     \/ Code(r) = "200" /\ Refreshed(r, call[r].data)
ObjectMustExist(r, op) ==           \* mutant: a 404 is an error
  /\ Heard(r, "Exists")
  /\ IF Code(r) = "200"
       THEN Send(r, "Read", call[r].data) /\ UNCHANGED bookVars
       ELSE RefreshFailed(r)

(* Exists, and the Read that follows it when there is an object. *)
ObjectExists(r, op) ==
  /\ Heard(r, "Exists")
  /\ \/ Err(r, op) /\ RefreshFailed(r)
     \/ Code(r) = "404" /\ Refreshed(r, NoObject)
     \/ Code(r) = "200" /\ Send(r, "Read", call[r].data) /\ UNCHANGED bookVars

ReadObjectUnchecked(r, op, found) ==    \* mutant: a 404 is read as an object
  /\ Heard(r, "Read")
  /\ IF Err(r, op) THEN ReadReturns(r, call[r].data, TRUE)
                  ELSE ReadReturns(r, found, FALSE)
ReadObjectOrNothing(r, op, found) ==    \* mutant: the id is set after the read
  /\ Heard(r, "Read")
  /\ IF Code(r) = "200" THEN ReadReturns(r, found, FALSE)
     ELSE ReadReturns(r, IF call[r].rpc = "create" THEN NoObject ELSE call[r].data, TRUE)

(* found is the ResourceData with what the answer says; a 404 is an error. *)
ReadObject(r, op, found) ==
  /\ Heard(r, "Read")
  /\ \/ /\ Err(r, op) \/ Code(r) = "404"
        /\ ReadReturns(r, call[r].data, TRUE)
     \/ /\ Code(r) = "200"
        /\ ReadReturns(r, found, FALSE)

NewObject(r) ==
  [id |-> NoId, name |-> config[r].name, content |-> config[r].content]

CallCreate(r) == At("create", "Create", NewObject(r))
CallUpdate(r) ==
  At("update", "Update", [state[r].object EXCEPT !.content = config[r].content])
CallDelete(r, rpc) == At(rpc, "Delete", state[r].object)

DeleteObject(r, op) ==
  /\ Heard(r, "Delete")
  /\ IF Err(r, op) THEN DeleteFailed(r) ELSE Deleted(r, CallCreate(r))

----------------------------------------------------------------------------
(* Plan. *)

Replaces(r) == config[r].name # state[r].object.name
Updates(r)  == config[r].content # state[r].object.content

PlanObject(r) ==
  LET managed == config[r] # NoBlock /\ Managed(r)
      action  == Action(r, managed /\ Replaces(r), managed /\ Updates(r))
  IN CASE action = "create" -> CallCreate(r)
       [] action = "update" -> CallUpdate(r)
       [] action \in {"delete", "replace"} -> CallDelete(r, action)
       [] OTHER -> Idle

PlanObjects == Plan([r \in Resource |-> PlanObject(r)])
=============================================================================
