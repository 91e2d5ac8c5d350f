------------------------- MODULE WorkspaceProperties -------------------------
(* What policies, projects and jobs promise, and what a comment says.      *)
EXTENDS Workspace

PCs == Quiet \cup {"Exists", "Read", "Create", "Update", "Delete"}
Calls == [rpc : RPCs, pc : PCs, tries : 0..RetryAttempts,
          reply : Reply \cup {NoReply}, data : Object \cup {NoObject}]

(* Every variable has its type. *)
TypeOK ==
  /\ env \in Environments /\ kind \in Kinds
  /\ config \in [Resource -> Block \cup {NoBlock}]
  /\ state \in [Resource -> [object : Object \cup {NoObject}, tainted : BOOLEAN]]
  /\ phase \in Phases /\ outcome \in Outcomes
  /\ call \in [Resource -> Calls]
  /\ policies \in [Name -> (Content \ Malformed) \cup {Gone}]
  /\ projects \in [Name -> Projects \cup {Gone}]
  /\ jobs \in [JobId -> Jobs \cup {Gone}]
  /\ clean \in BOOLEAN

(* What the server holds for an object of kind k: its content, or Gone.    *)
Held(k, object) ==
  LET contentOf(thing) == IF thing = Gone THEN Gone ELSE thing.content
  IN CASE k = "policy"  -> policies[object.name]
       [] k = "project" -> contentOf(projects[object.name])
       [] k = "job"     -> contentOf(jobs[object.id])

InSync(r) ==
  IF config[r] = NoBlock THEN ~Managed(r)
  ELSE /\ Managed(r) /\ ~state[r].tainted
       /\ state[r].object.name = config[r].name
       /\ state[r].object.content = config[r].content
       /\ Held(kind[r], state[r].object) = config[r].content

(* One clean run, from whatever earlier failures, lost answers and other   *)
(* people's edits have left, brings every resource it reports no error     *)
(* for in line with its block, in the state and on the server.             *)
CleanRunConverges ==
  [][End /\ phase = "apply" /\ clean /\ outcome = "ok" =>
       \A r \in Resource : InSync(r)]_vars

(* And for projects and jobs with well-formed blocks, a clean run reports  *)
(* none: the handlers recover from every earlier failure by themselves.    *)
CleanRunSucceeds ==
  [][End /\ clean /\ (\A r \in Resource :
          /\ kind[r] # "policy"
          /\ config[r] # NoBlock => kind[r] = "project" \/ config[r].content \notin Malformed)
       => outcome = "ok"]_vars

(* A refresh forgets an object only if the server does not hold it: no     *)
(* refused or lost request makes Terraform lose sight of it                *)
(* (AclPolicyExists, ProjectExists, JobExists).                            *)
LiveObjectRemembered ==
  [][~env.others =>
       \A r \in Resource :
         Managed(r) /\ call[r].rpc = "refresh" /\ state'[r] = Absent
           => Held(kind[r], state[r].object) = Gone]_vars

(* As long as every answer arrives, every job on the server is recorded in *)
(* the state of a resource, or will be by the handler that has just        *)
(* created it: CreateJob and UpdateJob set the id before they read the job *)
(* back, so that a failed read does not lose it.                           *)
JobsRemembered ==
  AnswersArrive =>
    \A i \in JobId : jobs[i] # Gone =>
      \E r \in Resource :
        \/ Managed(r) /\ state[r].object.id = i
        \/ call[r] # Idle /\ call[r].data.id = i
        \/ call[r].reply # NoReply /\ call[r].reply.id = i

(* Whatever is lost or retried, no two resources manage the same job, and  *)
(* if every answer arrives and nobody else writes, the same policy, unless *)
(* a delete of it is under way.                                            *)
Manages(r, id) == Managed(r) /\ state[r].object.id = id /\ call[r].pc # "Delete"
OneManager ==
  \A r, s \in Resource, id \in Id :
    /\ kind[r] = kind[s] /\ Manages(r, id) /\ Manages(s, id)
    /\ kind[r] = "job" \/ (kind[r] = "policy" /\ AnswersArrive /\ ~env.others)
    => r = s

----------------------------------------------------------------------------
(* What the objects are for, with everything else taken away. *)

(* The answer under way says that r has an object, that it has none, or    *)
(* nothing about it; then what the handler or the state has recorded holds.*)
Made(r) ==
  LET code == call[r].reply.status
  IN /\ call[r].pc = "Create" /\ call[r].reply # NoReply
     /\ code = "200" \/ (code = "409" /\ kind[r] = "project")
Ended(r) ==
  LET code == call[r].reply.status
  IN /\ call[r].reply # NoReply
     /\ \/ call[r].pc = "Delete" /\ (code = "200" \/ (code = "404" /\ kind[r] # "project"))
        \/ call[r].pc = "Exists" /\ code = "404"
OwnedId(r) ==
  IF Made(r) THEN IF kind[r] = "job" THEN call[r].reply.id ELSE call[r].data.name
  ELSE IF Ended(r) THEN NoId
  ELSE IF call[r].rpc = "create" THEN call[r].data.id
  ELSE IF Managed(r) THEN state[r].object.id ELSE NoId
Owned(r) == IF OwnedId(r) = NoId THEN NoId ELSE <<kind[r], OwnedId(r)>>

On(k, things) == {<<k, i>> : i \in {i \in DOMAIN things : things[i] # Gone}}
Objects == INSTANCE Ownership WITH
  Thing <- ({"policy", "project"} \X Name) \cup ({"job"} \X JobId),
  None <- NoId,
  Shared <- {"project"} \X Name,
  world <- [lossy |-> ~AnswersArrive, others |-> env.others, careless |-> {}],
  there <- On("policy", policies) \cup On("project", projects) \cup On("job", jobs),
  owns  <- [r \in Resource |-> Owned(r)]

(* Two policies, projects or jobs, request by request, do nothing but make *)
(* an object and own it (a project may be taken over), remove an owned one *)
(* and own it no more, or find that it is gone: no order of handlers,      *)
(* refusals, failed reads and retries loses an object of a resource, has   *)
(* it made twice or removed by a resource that does not own it.            *)
ObjectsAreOwned == Objects!Spec

----------------------------------------------------------------------------
(* A comment's claim that the code does not keep.                          *)

(* What CreateProject hands on to UpdateProject to be filled in is a bare  *)
(* project that it has just created, so no configuration is overwritten.   *)
CreatesBareProject ==
  [][\A r \in Resource :
       call[r].rpc = "create" /\ call[r].pc = "Update" /\ projects' # projects
         => projects[call[r].data.name] = [content |-> Bare, by |-> r]]_vars
=============================================================================
