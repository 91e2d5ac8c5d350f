----------------------------- MODULE Conversions -----------------------------
(***************************************************************************)
(* One rundeck_project or one rundeck_job over many runs, with all of its  *)
(* content.  What Workspace has as one opaque value is translated here on  *)
(* its way to the server and back; what Workspace has about requests that  *)
(* fail is left out, and a request is one step.  Other people may change   *)
(* the thing on the server between any two steps.                          *)
(***************************************************************************)
EXTENDS ProjectConfig, JobXml

CONSTANTS
  ProjectBlocks, JobBlocks,   \* the blocks the user may write
  ProjectEdits, JobEdits,     \* what other people may leave on the server
  Nothing                     \* no object, nothing on the server

VARIABLES
  kind,      \* "project" or "job", fixed for a behaviour
  block,     \* the resource block in the configuration
  stored,    \* the raw configuration, or the definition, on the server
  object,    \* what the state records of it
  tainted,   \* the create that made it failed: it is to be replaced
  step,      \* of a run: "idle", "planned" after the refresh, "written"
  history    \* [touched, refused, unread] since the last write: someone
             \* else wrote, a write was refused, a read failed or panicked

(* What the constants may not be: nothing is not something on the server.  *)
ASSUME NothingAssumption ==
  /\ Nothing \notin ProjectEdits \cup JobEdits
  /\ \A b \in ProjectBlocks : Nothing \notin UpdateMaps(b)
  /\ \A b \in JobBlocks : Nothing # Marshal(JobFrom(b))

(* What core hands over of the settings of a plugin is a map of strings.   *)
SettingsOK(p) == /\ {"type", "config"} \subseteq DOMAIN p
                 /\ IsFiniteSet(DOMAIN p.config)
                 /\ p.config = [k \in DOMAIN p.config |-> p.config[k]]
StepOK(c) ==
  /\ {"step_plugin", "node_step_plugin", "job"} \subseteq DOMAIN c
  /\ \A p \in StepPlugins(c) : SettingsOK(p)
ASSUME JobBlockAssumption == \A b \in JobBlocks :
  /\ \A c \in Range(b.commands) :
       /\ StepOK(c) /\ "error_handler" \in DOMAIN c
       /\ \A h \in Range(c.error_handler) : StepOK(h)
  /\ \A n \in Range(b.notifications) :
       /\ {"type", "email", "webhook_urls", "plugin"} \subseteq DOMAIN n
       /\ \A p \in Range(n.plugin) : SettingsOK(p)

vars == <<kind, block, stored, object, tainted, step, history>>

Blocks == IF kind = "project" THEN ProjectBlocks ELSE JobBlocks
Edits  == IF kind = "project" THEN ProjectEdits  ELSE JobEdits

Clear == [touched |-> FALSE, refused |-> FALSE, unread |-> FALSE]

Accepted(b) == kind = "job" => JobAccepted(b)
Written(b)  == IF kind = "project" THEN UpdateMaps(b) ELSE {Marshal(JobFrom(b))}

Answers == IF kind = "project" THEN {stored} ELSE JobsAnswered(stored)
Reads(answer, old) ==
  IF kind = "project" THEN ProjectRead(answer, old) ELSE {JobRead(Unmarshal(answer), old)}
Undecoded(answer) == kind = "job" /\ UnmarshalFails(answer)
Panics(answer)    == kind = "job" /\ ~UnmarshalFails(answer) /\ JobReadPanics(Unmarshal(answer))

----------------------------------------------------------------------------
Init ==
  /\ kind \in {"project", "job"}
  /\ block \in Blocks
  /\ stored = Nothing /\ object = Nothing /\ tainted = FALSE
  /\ step = "idle" /\ history = Clear

(* ReadProject or ReadJob: sets what it finds in what the ResourceData has *)
(* already.                                                                *)
ReadObject(answer, old, next) ==
  /\ ~Undecoded(answer) /\ ~Panics(answer)
  /\ object' \in Reads(answer, old)
  /\ step' = next /\ UNCHANGED history

(* It fails, or brings the provider down, and ends the run.                *)
ReadEnds == step' = "idle" /\ history' = [history EXCEPT !.unread = TRUE]

(* A failed refresh leaves the object alone, however often it is repeated. *)
Refresh ==
  /\ step = "idle" /\ object # Nothing
  /\ \E answer \in Answers :
       \/ ReadObject(answer, object, "planned")
       \/ (Undecoded(answer) \/ Panics(answer)) /\ ReadEnds /\ UNCHANGED object
  /\ UNCHANGED <<kind, block, stored, tainted>>

(* The plan is empty. *)
NothingToDo ==
  /\ step = "planned" /\ object = block /\ ~tainted
  /\ step' = "idle"
  /\ UNCHANGED <<kind, block, stored, object, tainted, history>>

Wanted ==
  \/ step = "idle" /\ object = Nothing
  \/ step = "planned" /\ (object # block \/ tainted)

(* The first request of a create or an update that changes the content; a  *)
(* tainted object has been destroyed and is created again.                 *)
Write ==
  /\ Wanted /\ Accepted(block)
  /\ stored' \in Written(block)
  /\ object' = IF tainted THEN Nothing ELSE object
  /\ tainted' = FALSE
  /\ step' = "written" /\ history' = Clear
  /\ UNCHANGED <<kind, block>>

RefuseAndRecord ==                      \* mutant: a failed create leaves an object
  /\ Wanted /\ ~Accepted(block)
  /\ object' = block
  /\ step' = "idle" /\ history' = [history EXCEPT !.refused = TRUE]
  /\ UNCHANGED <<kind, block, stored, tainted>>

(* Nothing is sent, but for the destroy of a tainted object. A create      *)
(* leaves no object; what was planned for an update is recorded, as no     *)
(* handler asks for partial mode.                                          *)
Refuse ==
  /\ Wanted /\ ~Accepted(block)
  /\ object' = IF object = Nothing \/ tainted THEN Nothing ELSE block
  /\ stored' = IF tainted THEN Nothing ELSE stored
  /\ tainted' = FALSE
  /\ step' = "idle" /\ history' = [history EXCEPT !.refused = TRUE]
  /\ UNCHANGED <<kind, block>>

(* The read a create or an update ends with.  If it fails, what was        *)
(* planned is recorded, tainted after a create; a panic loses that.        *)
ReadBack ==
  /\ step = "written"
  /\ \E answer \in Answers :
       \/ ReadObject(answer, block, "idle") /\ UNCHANGED tainted
       \/ /\ Undecoded(answer) /\ ReadEnds
          /\ object' = block /\ tainted' = (object = Nothing)
       \/ Panics(answer) /\ ReadEnds /\ UNCHANGED <<object, tainted>>
  /\ UNCHANGED <<kind, block, stored>>

EditBlock ==
  /\ step = "idle"
  /\ block' \in Blocks \ {block}
  /\ UNCHANGED <<kind, stored, object, tainted, step, history>>

OthersWrite ==
  /\ stored # Nothing
  /\ stored' \in Edits \ {stored}
  /\ history' = [history EXCEPT !.touched = TRUE]
  /\ UNCHANGED <<kind, block, object, tainted, step>>

Next ==
  \/ Refresh \/ NothingToDo \/ Write \/ Refuse \/ ReadBack
  \/ EditBlock \/ OthersWrite

Spec == Init /\ [][Next]_vars
=============================================================================
