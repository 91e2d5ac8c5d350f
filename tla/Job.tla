-------------------------------- MODULE Job --------------------------------
(* rundeck_job: created and updated by an import of one job, whose id the  *)
(* server chooses when the job has none.  Two jobs may share a name; the   *)
(* content of a job is abstract here, JobDefinition says what becomes of   *)
(* it on its way to the server and back.                                   *)
EXTENDS ServerObjects, FiniteSets

VARIABLE jobs           \* jobs[i]: [name, content], or Gone

Jobs == [name : Name, content : Content]
ASSUME JobAssumption == Gone \notin Jobs

(* An id that names no job and that nobody remembers is as good as new.    *)
Fresh == {i \in JobId :
            /\ jobs[i] = Gone
            /\ \A r \in Resource :
                 /\ Managed(r) => state[r].object.id # i
                 /\ call[r] # Idle => call[r].data.id # i
                 /\ call[r].reply # NoReply => call[r].reply.id # i}
NextId == CHOOSE i \in Fresh : TRUE

ImportIdByName(r) ==                \* mutant: a create with dupeOption "update"
  LET same == {i \in JobId : jobs[i] # Gone /\ jobs[i].name = call[r].data.name}
  IN IF call[r].pc # "Create" THEN call[r].data.id
     ELSE IF same = {} THEN NextId ELSE CHOOSE i \in same : TRUE

(* dupeOption "create" always makes a job; "update" rewrites the job with  *)
(* the id, or makes one with it (job.go, CreateOrUpdateJob).               *)
ImportId(r) == IF call[r].pc = "Create" THEN NextId ELSE call[r].data.id
Import(r)   == [name |-> call[r].data.name, content |-> call[r].data.content]
Imports(r)  == /\ call[r].pc \in {"Create", "Update"}
               /\ call[r].data.content \notin Malformed

JobApplied(r) ==
  CASE Imports(r) -> [jobs EXCEPT ![ImportId(r)] = Import(r)]
    [] call[r].pc = "Delete" -> [jobs EXCEPT ![call[r].data.id] = Gone]
    [] OTHER -> jobs

(* An import that fails is no failed request: the answer says that no job  *)
(* was imported, and has no id.                                            *)
JobAnswer(r) ==
  LET pc == call[r].pc
      i  == call[r].data.id
  IN IF Imports(r) THEN [Plain("200") EXCEPT !.id = ImportId(r)]
     ELSE IF pc \in {"Create", "Update"} THEN Plain("200")
     ELSE IF jobs[i] = Gone THEN Plain("404")
     ELSE [Plain("200") EXCEPT !.id = i, !.name = jobs[i].name,
                               !.content = jobs[i].content]

----------------------------------------------------------------------------
JobExists(r) == ObjectExists(r, "JobGet")
ReadJob(r) ==
  ReadObject(r, "JobGet",
             [id |-> call[r].reply.id, name |-> call[r].reply.name,
              content |-> call[r].reply.content])

(* The counts of the answer are looked at as well as its status. *)
ImportFails(r) == Err(r, "ProjectJobsImport") \/ call[r].reply.id = NoId

ImportJobUncounted(r) ==    \* mutant: an update does not look at the counts
  /\ \/ Heard(r, "Create") \/ Heard(r, "Update")
  /\ IF call[r].rpc = "update" /\ Code(r) = "200"
       THEN Updated(r, call[r].data, FALSE)
     ELSE IF ImportFails(r)
       THEN IF call[r].rpc = "create" THEN Created(r, NoObject, TRUE)
            ELSE Updated(r, call[r].data, TRUE)
     ELSE Send(r, "Read", [call[r].data EXCEPT !.id = call[r].reply.id]) /\ UNCHANGED bookVars

(* CreateJob and UpdateJob: the id is set before the job is read back. *)
ImportJob(r) ==
  /\ \/ Heard(r, "Create") \/ Heard(r, "Update")
  /\ \/ /\ ImportFails(r)
        /\ \/ call[r].rpc = "create" /\ Created(r, NoObject, TRUE)
           \/ call[r].rpc = "update" /\ Updated(r, call[r].data, TRUE)
     \/ /\ ~ImportFails(r)
        /\ Send(r, "Read", [call[r].data EXCEPT !.id = call[r].reply.id])
        /\ UNCHANGED bookVars

(* jobFromResourceData fails: nothing is sent.  It need not fail, for some *)
(* malformed jobs only the server can tell.                                *)
RejectJob(r) ==
  /\ Waiting(r) /\ call[r].pc \in {"Create", "Update"} /\ call[r].tries = 0
  /\ call[r].data.content \in Malformed
  /\ \/ call[r].rpc = "create" /\ Created(r, NoObject, TRUE)
     \/ call[r].rpc = "update" /\ Updated(r, call[r].data, TRUE)

DeleteJob(r) == DeleteObject(r, "JobDelete")

JobHandler(r) ==
  /\ kind[r] = "job"
  /\ \/ JobExists(r) \/ ReadJob(r)
     \/ ImportJob(r) \/ RejectJob(r) \/ DeleteJob(r)
=============================================================================
