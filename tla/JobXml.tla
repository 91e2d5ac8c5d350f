------------------------------- MODULE JobXml -------------------------------
(***************************************************************************)
(* The XML of job.go: the document a JobDetail of JobDefinition is sent as *)
(* and the one made of the document that the service answers with.  A      *)
(* document has the shape of a definition, but a field that is not written *)
(* is not there, a list between commas is one attribute, and the settings  *)
(* of a plugin are an element.                                             *)
(***************************************************************************)
EXTENDS XmlMaps, JobDefinition, TLC

(* "omitempty": a field is written unless it has its zero value, and reads *)
(* as its zero value when it is not found.                                 *)
Sent(x, zero, always) == Restrict(x, {f \in DOMAIN x : f \in always \/ x[f] # zero[f]})
Found(x, zero)        == x @@ zero

ZeroScalars  == [a \in Scalar \ (Dispatched \cup {"preserve_options_order"}) |-> Empty]
AlwaysSent   == {"name", "description", "execution_enabled", "schedule_enabled"}
ZeroDispatch == [a \in Dispatched |-> Empty]
ZeroOption   == [name |-> Empty, value_choices |-> <<>>, storage_path |-> Empty,
                 exposed_to_scripts |-> FALSE, obscure_input |-> FALSE,
                 is_date |-> FALSE, date_format |-> Empty]

(* Lists go out joined with commas, and come back split at every comma; an *)
(* empty list has no attribute.                                            *)
Joined(list) == IF list = <<>> THEN <<>> ELSE <<FlattenSeq(list)>>
Split(attr)  == IF attr = <<>> THEN <<>> ELSE [i \in DOMAIN attr[1] |-> <<attr[1][i]>>]

----------------------------------------------------------------------------
(* From a definition to a document. *)

MarshalPlugins(ps) ==
  [i \in DOMAIN ps |->
     [type |-> ps[i].type, configuration |-> marshalMapToXML(ps[i].config, "configuration")]]

(* The settings of a log filter are elements of their own name, in any     *)
(* order; without settings there is no <config>.                           *)
Elements(config) ==
  LET names == SetToSeq(DOMAIN config)
  IN [i \in DOMAIN names |-> [name |-> names[i], value |-> config[names[i]]]]
MarshalFilters(fs) ==
  [i \in DOMAIN fs |->
     [fs[i] EXCEPT !.config = IF DOMAIN @[1] = {} THEN <<>> ELSE <<Elements(@[1])>>]]

MarshalStep(c) ==
  [c EXCEPT !.step_plugin      = MarshalPlugins(@),
            !.node_step_plugin = MarshalPlugins(@),
            !.job = [i \in DOMAIN @ |-> [@[i] EXCEPT !.args = [line |-> @]]]]
MarshalCommands(cs) ==
  [i \in DOMAIN cs |->
     [MarshalStep(cs[i]) EXCEPT !.error_handler =
        [j \in DOMAIN @ |-> MarshalStep(@[j])]]]

MarshalOption(o) == Sent([o EXCEPT !.value_choices = Joined(@)], ZeroOption, {})

MarshalNotification(n) ==
  [n EXCEPT !.email        = [i \in DOMAIN @ |-> [@[i] EXCEPT !.recipients = Joined(@)]],
            !.webhook_urls = Joined(@),
            !.plugin       = MarshalPlugins(@)]

Marshal(job) ==
  [job EXCEPT
     !.scalars      = Sent(@, ZeroScalars, AlwaysSent),
     !.dispatch     = [i \in DOMAIN @ |-> Sent(@[i], ZeroDispatch, {})],
     !.options      = [i \in DOMAIN @ |->
                         [@[i] EXCEPT !.list = [j \in DOMAIN @ |-> MarshalOption(@[j])]]],
     !.filters      = MarshalFilters(@),
     !.commands     = MarshalCommands(@),
     !.notification = [t \in DOMAIN @ |-> MarshalNotification(@[t])]]

----------------------------------------------------------------------------
(* What the service may answer with: it need not repeat the project, a     *)
(* <dispatch> of defaults, or a day field that restricts nothing.          *)

Unrestricted(s) ==
  IF s[4] = "*" /\ s[6] = "*" THEN {4, 6} ELSE {i \in {4, 6} : s[i] = "?"}

SchedulesAnswered(s) ==
  IF s = <<>> THEN {s}
  ELSE {[i \in DOMAIN s |-> IF i \in left THEN Omitted ELSE s[i]] : left \in SUBSET Unrestricted(s)}

Answered(doc, shown, d, s) ==
  [doc EXCEPT !.scalars = Restrict(@, shown), !.dispatch = d, !.schedule = s]

JobsAnswered(doc) ==
  {Answered(doc, shown, d, s) :
     shown \in {DOMAIN doc.scalars, DOMAIN doc.scalars \ {"project_name"}},
     d \in {doc.dispatch} \cup
           (IF doc.dispatch = <<Sent(DispatchDefault, ZeroDispatch, {})>> THEN {<<>>} ELSE {}),
     s \in SchedulesAnswered(doc.schedule)}

----------------------------------------------------------------------------
(* From a document to a definition. *)

UnmarshalPlugins(ps) ==
  [i \in DOMAIN ps |->
     [type   |-> ps[i].type,
      config |-> IF ps[i].configuration = <<>> THEN <<>>
                 ELSE unmarshalMapFromXML(ps[i].configuration, "configuration")]]

(* One element after the other, to the end of the <config>. *)
SettingsOf(elements) ==
  FoldLeft(LAMBDA config, e : (e.name :> e.value) @@ config, <<>>, elements)
UnmarshalFilters(fs) ==
  [i \in DOMAIN fs |->
     [fs[i] EXCEPT !.config = [j \in DOMAIN @ |-> SettingsOf(@[j])]]]

UnmarshalStep(c) ==
  [c EXCEPT !.step_plugin      = UnmarshalPlugins(@),
            !.node_step_plugin = UnmarshalPlugins(@),
            !.job = [i \in DOMAIN @ |-> [@[i] EXCEPT !.args = @.line]]]
UnmarshalCommands(cs) ==
  [i \in DOMAIN cs |->
     [UnmarshalStep(cs[i]) EXCEPT !.error_handler =
        [j \in DOMAIN @ |-> UnmarshalStep(@[j])]]]

UnmarshalOption(o) == [Found(o, ZeroOption) EXCEPT !.value_choices = Split(@)]

UnmarshalNotification(n) ==
  [n EXCEPT !.email        = [i \in DOMAIN @ |-> [@[i] EXCEPT !.recipients = Split(@)]],
            !.webhook_urls = Split(@),
            !.plugin       = UnmarshalPlugins(@)]

Unmarshal(doc) ==
  [doc EXCEPT
     !.scalars      = Found(@, ZeroScalars),
     !.dispatch     = [i \in DOMAIN @ |-> Found(@[i], ZeroDispatch)],
     !.options      = [i \in DOMAIN @ |->
                         [@[i] EXCEPT !.list = [j \in DOMAIN @ |-> UnmarshalOption(@[j])]]],
     !.filters      = UnmarshalFilters(@),
     !.commands     = UnmarshalCommands(@),
     !.notification = [t \in DOMAIN @ |-> UnmarshalNotification(@[t])]]

(* A document is as readable as every element with a plugin's settings.    *)
StepPlugins(c) == Range(c.step_plugin) \cup Range(c.node_step_plugin)
Plugins(doc) ==
  UNION ({StepPlugins(c) : c \in Range(doc.commands)}
    \cup {StepPlugins(h) : h \in UNION {Range(c.error_handler) : c \in Range(doc.commands)}}
    \cup {Range(doc.notification[t].plugin) : t \in DOMAIN doc.notification})

UnmarshalFails(doc) ==
  \E p \in Plugins(doc) :
    p.configuration # <<>> /\ ~Readable(p.configuration, "configuration")
=============================================================================
