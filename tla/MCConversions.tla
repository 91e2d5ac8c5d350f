---------------------------- MODULE MCConversions ----------------------------
(* Instances of Conversions for TLC: blocks that differ from a plain one    *)
(* in one respect each, and what other people may make of the results.      *)
EXTENDS ConversionsProperties

Key(a, sep, b) == <<a, sep, b>>

FileSource(config) == [type |-> "file", config |-> config]
PlainSource == FileSource(<<"format">> :> "xml")

PlainProject ==
  [attributes |-> [a \in Attribute |-> CASE a = "name" -> "p"
                                         [] a = "description" -> "managed"
                                         [] OTHER -> ""],
   sources    |-> <<PlainSource>>,
   extra      |-> <<>>]
WithExtra(extra) == [PlainProject EXCEPT !.extra = extra]

TidyProjects ==
  {PlainProject,
   [PlainProject EXCEPT !.attributes["description"] = ""],
   [PlainProject EXCEPT !.attributes["ssh_key_storage_path"] = "keys/k"],
   [PlainProject EXCEPT !.sources = <<>>],
   [PlainProject EXCEPT !.sources = <<FileSource(<<>>), PlainSource>>],
   [PlainProject EXCEPT !.sources = <<FileSource(<<"a", "/", "b">> :> "v")>>],
   WithExtra(Key("foo", "/", "bar") :> "v"),
   WithExtra(<<"resources", "/", "source", "/", "x", "/", "type">> :> "v")}

(* The example of project.html.md. *)
LabelledProject == WithExtra(Key("project", ".", "label") :> "Terraform Example")

UntidyProjects ==
  {LabelledProject,
   WithExtra(Key("foo", "/", "bar") :> "v" @@ Key("foo", ".", "bar") :> "w"),
   WithExtra(Key("project", "/", "description") :> "v"),
   WithExtra(<<"resources", "/", "source", "/", "3", "/", "type">> :> "dir"),
   [PlainProject EXCEPT !.sources = <<FileSource(<<"a", ".", "b">> :> "v")>>]}

RawOf(b) == CHOOSE m \in UpdateMaps(b) : TRUE
Raw      == RawOf(PlainProject)
SourceKey(i, rest) == SourcePrefix \o <<i, ".">> \o rest

DriftedProjects ==
  {RawOf(b) : b \in TidyProjects} \cup
  {Without(Raw, {projectConfigAttributes["description"]}),
   Without(Raw, {SourceKey("1", <<"type">>)}),
   Raw @@ SourceKey("3", <<"type">>) :> "file",
   Raw @@ SourceKey("3", <<"type">>) :> "file" @@ SourceKey("2", <<"type">>) :> "dir",
   Raw @@ SourceKey("2", <<"config", ".", "a", ".", "b">>) :> "v",
   Raw @@ SourceKey("1", <<"type", ".", "x">>) :> "v"}

----------------------------------------------------------------------------
Shell == [line |-> "echo", error_handler |-> <<>>, script_interpreter |-> <<>>,
          job |-> <<>>, step_plugin |-> <<>>, node_step_plugin |-> <<>>]
Handler == [line |-> "oops", script_interpreter |-> <<>>,
            job |-> <<>>, step_plugin |-> <<>>, node_step_plugin |-> <<>>]
JobRef(filters) == [name |-> "other", args |-> "-x 1", node_filters |-> filters]
Run(config) == [type |-> "flow", config |-> config]
Both == "a" :> "1" @@ "b" :> ""

Script == [Shell EXCEPT !.error_handler = <<Handler>>, !.script_interpreter = <<"sh">>]

Option == [name |-> "o", value_choices |-> <<<<"x">>, <<"y">>>>, storage_path |-> "",
           exposed_to_scripts |-> FALSE, obscure_input |-> FALSE,
           is_date |-> FALSE, date_format |-> ""]

Mail(to) == [recipients |-> to, subject |-> "s"]
Notify(type) == [type |-> type, email |-> <<Mail(<<<<"a">>, <<"b">>>>)>>, webhook_urls |-> <<>>,
                 webhook_format |-> "", webhook_http_method |-> "", plugin |-> <<>>]
Call(type) == [Notify(type) EXCEPT !.email = <<>>, !.webhook_urls = <<<<"u">>>>,
                                   !.webhook_format = "json", !.webhook_http_method = "post"]

Cron(month, week) == <<"0", "0", "12", month, "*", week, "*">>

PlainJob ==
  [scalars |-> [a \in Scalar |-> CASE a \in Dispatched -> DispatchDefault[a]
                                   [] a = "project_name" -> "p"
                                   [] a = "name" -> "j"
                                   [] OTHER -> ""],
   schedule |-> <<>>, options |-> <<>>, filters |-> <<>>,
   commands |-> <<Shell>>, notifications |-> <<>>]

BareFilter == [type |-> "mask", config |-> <<>>]
FullFilter == [type |-> "mask", config |-> Both]

TidyJobs ==
  {PlainJob,
   [PlainJob EXCEPT !.scalars["timeout"] = "2h",
                    !.scalars["success_on_empty_node_filter"] = "true"],
   [PlainJob EXCEPT !.scalars["rank_order"] = "descending",
                    !.scalars["preserve_options_order"] = "true"],
   [PlainJob EXCEPT !.schedule = Cron("*", "*")],
   [PlainJob EXCEPT !.schedule = Cron("?", "MON")],
   [PlainJob EXCEPT !.schedule = Cron("1", "?")],
   [PlainJob EXCEPT !.options = <<Option, [Option EXCEPT !.name = "q"]>>],
   [PlainJob EXCEPT !.filters = <<FullFilter>>],
   [PlainJob EXCEPT !.commands = <<Script, [Shell EXCEPT !.job = <<JobRef(<<"all">>)>>]>>],
   [PlainJob EXCEPT !.commands = <<[Shell EXCEPT !.step_plugin = <<Run(Both)>>],
                                   [Script EXCEPT !.node_step_plugin = <<Run(<<>>)>>]>>],
   [PlainJob EXCEPT !.notifications = <<[Notify("on_start") EXCEPT !.plugin = <<Run("a" :> "1")>>]>>],
   [PlainJob EXCEPT !.notifications = <<Notify("on_success"), Call("on_start")>>]}

UntidyJobs ==
  {[PlainJob EXCEPT !.commands = <<[Shell EXCEPT !.step_plugin = <<Run(Empty :> "1" @@ Both)>>]>>],
   [PlainJob EXCEPT !.filters = <<BareFilter>>],
   [PlainJob EXCEPT !.schedule = Cron("*", "?")],
   [PlainJob EXCEPT !.options = <<[Option EXCEPT !.value_choices = <<<<"x", "y">>>>]>>],
   [PlainJob EXCEPT !.options = <<[Option EXCEPT !.is_date = TRUE, !.date_format = "D"]>>],
   [PlainJob EXCEPT !.notifications = <<Notify("on_start"), Notify("on_failure")>>],
   [PlainJob EXCEPT !.notifications = <<[Notify("on_start") EXCEPT !.email = @ \o @]>>],
   [PlainJob EXCEPT !.notifications = <<[Notify("on_start") EXCEPT !.webhook_format = "xml"]>>]}

RefusedJobs ==
  {[PlainJob EXCEPT !.schedule = <<"0", "12", "*", "*", "*">>, !.scalars["timeout"] = "2h"],
   [PlainJob EXCEPT !.schedule = Cron("1", "MON")],
   [PlainJob EXCEPT !.options = <<[Option EXCEPT !.storage_path = "keys/k"]>>],
   [PlainJob EXCEPT !.options = <<[Option EXCEPT !.is_date = TRUE]>>],
   [PlainJob EXCEPT !.options = <<[Option EXCEPT !.value_choices = <<<<>>>>]>>],
   [PlainJob EXCEPT !.commands = <<[Shell EXCEPT !.error_handler = <<Handler, Handler>>]>>],
   [PlainJob EXCEPT !.commands = <<[Shell EXCEPT !.job = <<JobRef(<<"all", "none">>)>>]>>],
   [PlainJob EXCEPT !.notifications = <<Notify("on_start"), Call("on_start")>>],
   [PlainJob EXCEPT !.notifications = <<Notify("onsuccess")>>]}

Imported(b) == Marshal(JobFrom(b))
Configured(tokens) ==
  [Imported([PlainJob EXCEPT !.commands = <<[Shell EXCEPT !.step_plugin = <<Run(Both)>>]>>])
     EXCEPT !.commands[1].step_plugin[1].configuration =
       <<StartElement("configuration", <<>>)>> \o tokens \o <<EndElement("configuration")>>]

(* Entries in the other order and apart, with one missing, with one whose  *)
(* key is missing, and with something that is no entry.                    *)
ConfiguredJobs ==
  LET a == <<Entry("a", "1"), EndElement("entry")>>
      b == <<StartElement("entry", [key |-> "b"]), EndElement("entry")>>
  IN {Configured(b \o <<CharData>> \o a), Configured(a),
      Configured(a \o <<Entry(Empty, "1"), EndElement("entry")>> \o b),
      Configured(a \o <<StartElement("map", <<>>), EndElement("map")>> \o b)}

(* A log filter whose settings are in the other order, and one with an     *)
(* empty <config>.                                                         *)
FilteredJobs ==
  LET filtered(elements) ==
        [Imported(PlainJob) EXCEPT !.filters = <<[type |-> "mask", config |-> <<elements>>]>>]
  IN {filtered(Reverse(Elements(Both))), filtered(<<>>)}

DriftedJobs ==
  {Imported(b) : b \in {PlainJob,
     [PlainJob EXCEPT !.scalars["timeout"] = "2h", !.schedule = Cron("1", "?")],
     [PlainJob EXCEPT !.options = <<[Option EXCEPT !.is_date = TRUE, !.date_format = "D"],
                                    [Option EXCEPT !.name = "q"]>>],
     [PlainJob EXCEPT !.notifications = <<Notify("on_success"), Call("on_start")>>]}}
  \cup {[Imported(PlainJob) EXCEPT !.dispatch = <<>>]}
  \cup ConfiguredJobs \cup FilteredJobs

----------------------------------------------------------------------------
MCProjectBlocks  == TidyProjects \cup UntidyProjects
DocumentedBlocks == {PlainProject, LabelledProject}
MCJobBlocks      == TidyJobs \cup UntidyJobs \cup RefusedJobs
ScheduledBlocks  == {PlainJob, [PlainJob EXCEPT !.schedule = Cron("1", "MON")]}
NoEdits          == {}
=============================================================================
