------------------------------ MODULE Project ------------------------------
(* rundeck_project: created bare by one request, configured by another.    *)
(* The content of a project stands for its whole configuration, which      *)
(* every update replaces; ProjectConfig says how one is made of a block.   *)
EXTENDS ServerObjects

CONSTANT Someone        \* the maker of a project that no resource created

VARIABLE projects       \* projects[n]: [content, by], or Gone

Projects == [content : Stored, by : Resource \cup {Someone}]
ASSUME ProjectAssumption == Gone \notin Projects

ProjectApplied(r) ==
  LET n == call[r].data.name
  IN CASE call[r].pc = "Create" /\ projects[n] = Gone ->
            [projects EXCEPT ![n] = [content |-> Bare, by |-> r]]
       [] call[r].pc = "Update" /\ projects[n] # Gone ->
            [projects EXCEPT ![n] = [content |-> call[r].data.content, by |-> @.by]]
       [] call[r].pc = "Delete" -> [projects EXCEPT ![n] = Gone]
       [] OTHER -> projects

ProjectAnswer(r) ==
  LET p == projects[call[r].data.name]
  IN IF call[r].pc = "Create" THEN Plain(IF p = Gone THEN "200" ELSE "409")
     ELSE IF p = Gone         THEN Plain("404")
     ELSE [Plain("200") EXCEPT !.content = p.content]

----------------------------------------------------------------------------
ProjectExists(r) == ObjectExists(r, "ProjectGet")
ReadProject(r) ==
  ReadObject(r, "ProjectGet",
             [call[r].data EXCEPT !.content = call[r].reply.content])

CreateNewProject(r) ==              \* mutant: a 409 is an error
  /\ Heard(r, "Create")
  /\ IF Code(r) # "200"
       THEN Created(r, NoObject, TRUE)
       ELSE /\ Send(r, "Update", [call[r].data EXCEPT !.id = call[r].data.name])
            /\ UNCHANGED bookVars

(* A 409 is as good as a 200: the project is configured as if it were new. *)
CreateProject(r) ==
  /\ Heard(r, "Create")
  /\ IF Err(r, "ProjectCreate")
       THEN Created(r, NoObject, TRUE)
       ELSE /\ Send(r, "Update", [call[r].data EXCEPT !.id = call[r].data.name])
            /\ UNCHANGED bookVars

(* Runs in a create too, where a failure leaves a tainted object. *)
UpdateProject(r) ==
  /\ Heard(r, "Update")
  /\ IF Err(r, "ProjectConfigUpdate")
       THEN ReadReturns(r, call[r].data, TRUE)
       ELSE Send(r, "Read", call[r].data) /\ UNCHANGED bookVars

DeleteProject(r) == DeleteObject(r, "ProjectDelete")

ProjectHandler(r) ==
  /\ kind[r] = "project"
  /\ \/ ProjectExists(r) \/ ReadProject(r)
     \/ CreateProject(r) \/ UpdateProject(r) \/ DeleteProject(r)
=============================================================================
