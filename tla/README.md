# A specification of the Rundeck provider

TLA+ modules, TLC runs and TLAPS proofs for terraform-provider-rundeck: the
provider's resource handlers (`src/rundeck`), the client and retry layer they
call, and as much of Terraform core and the plugin SDK as decides what a
handler's outcome means.

## The system

Everything the provider does happens inside a *run* of Terraform: core
refreshes every object in its state (`Exists`, then `Read`), compares the
objects with the configuration, and applies the planned actions (`Create`,
`Update`, `Delete`). Within a phase the resources are walked concurrently, one
handler each. A handler makes one to three HTTP requests, and core records what
it leaves in its `ResourceData`, error or not.

| Part | Source | State it keeps | Operations |
|---|---|---|---|
| Terraform core and SDK | `vendor/.../terraform-plugin-sdk` | the state file, taints, the calls in flight | refresh, plan, apply; taint, record, forget |
| Rundeck client | `vendor/.../go-rundeck`, `go-autorest` | none | one call per operation, each with its accepted status codes; retries |
| Private keys | `resource_private_key.go` | none of its own: the key on the server | create or update, delete, Exists; nothing is read back |
| Public keys | `resource_public_key.go` | the `delete` flag in the object | create or adopt, update, delete or forget, read, Exists |
| ACL policies | `resource_acl_policy.go` | - | create, update (neither read back), delete, read, Exists |
| Projects | `resource_project.go` | - | create bare then configure then read, configure then read, delete, read, Exists |
| Project configuration | `resource_project.go` | - | blocks to raw configuration keys and back |
| Jobs | `resource_job.go`, `job.go` | the server-given id | import as create, import as update, delete, read, Exists |
| Job definitions | `resource_job.go`, `job.go`, `util.go` | - | blocks to XML and back; schedules, options, notifications |
| Provider | `provider.go` | one client | configured once |

What makes it hard:

* **Partial failure.** An answer may be lost after the server did its work; a
  handler may fail between two of its requests; the SDK records planned values
  of a failed update, taints the object of a failed create and nothing else.
* **Retries.** The sender repeats requests on 5xx, 408, 429 and temporary
  network errors, creates and deletes among them; a 429 is not counted.
* **Concurrency.** Handlers of different resources interleave between any
  request being served and its answer being acted upon, and may be about one
  path or one name. Other people use the same server.
* **Crashes.** A nil dereference in one handler kills the provider process and
  every call in flight.
* **Memory.** What a destroy does depends on what earlier runs recorded: the
  `delete` flag of a public key, the id of a job.

What makes each part correct: a resource only ever deletes what it made; two
resources never both believe that a thing is theirs; nothing made is lost from
sight while answers arrive; the state says what the server holds whenever a
plan is made from it; and after any mishap, an undisturbed run puts everything
right. The places where a mishap could break one of these are the hazards in
`PROJECT.json`.

## The modules

    RundeckClient            what a call returns, what is retried
      TerraformCore          state, runs, what core records
        Requests             a request under way: served, disturbed, retried, heard
          KeyStorage         private and public keys, against one key store
            KeyStorageProperties
              MCKeyStorage       TLC instances
              KeyStorage_proofs  TLAPS: types, the delete flag
                KeyOwnership_proofs  TLAPS: who owns a key; also uses Ownership
                  KeyContent_proofs    TLAPS: what the state says of a key
          ServerObjects      what policies, projects and jobs share
            AclPolicy  Project  Job
              Workspace      the three under one configuration
                WorkspaceProperties
                  MCWorkspace    TLC instances
                  Workspace_proofs   TLAPS: types, the shapes of steps
                    ObjectOwnership_proofs  TLAPS: who owns an object; uses
                                            Ownership_proofs

    Ownership                the promise both compositions implement
      Ownership_proofs       TLAPS

    XmlMaps                  a plugin's settings as XML tokens and back
      XmlMaps_proofs         TLAPS
      JobXml                 a job definition as a document and back; extends
                             JobDefinition (blocks to definitions to objects)
        Conversions          one project (ProjectConfig) or job over many runs
          ConversionsProperties
            MCConversions        TLC instances
            Conversions_proofs   TLAPS; uses XmlMaps_proofs

**RundeckClient** lists, for every operation of the client the provider calls,
the status codes its responder accepts (all others come back as an error), and
which answers `DoRetryForStatusCodes` retries. `temporary` and `permanent` are
network errors: the handler gets a nil `*http.Response`.

**TerraformCore** keeps `config`, `state`, `phase`, `outcome` and `call`.
`call[r]` is the handler at work for `r`: the RPC it serves, its program point,
the retries spent, the answer that has come, and its `ResourceData`. The
operators `Refreshed`, `RefreshFailed`, `Created`, `Updated`, `Deleted`,
`DeleteFailed` and `Panic` are what core and the SDK do with each outcome. They
were read off the vendored sources: an update's planned values are recorded
even when it fails (`Resource.Apply`; no handler uses partial mode), a failed
create taints what it leaves (`EvalMaybeTainted`), and a failed destroy writes
the prior object back *without* its taint (`EvalApply`). `env` is chosen once:
the faults this behaviour may meet and whether other people write.

**Requests** splits a request into steps: the server answers it (`Serve`, in
the modules below), or it is refused, lost or applied without an answer
(`Disturb`), the sender may send it again (`Resend`), and at last the handler
hears the answer (`Heard`) and acts on it. Other handlers run between any two
of these steps.

**KeyStorage** is both kinds of key resource. Each handler is an action per
program point: `CreatePublicKey` hears the answer to `StorageKeyCreate` and
goes on to `ReadPublicKeyMetadata`, that to `ReadPublicKeyMaterial`, which ends
the create. `store` is the key store, with the maker of each key as history;
`made[r]` is history too: the path at which `r` was told it created a key,
until it forgets it. A private key's recorded SHA-1 is written as its material.

**ServerObjects** has what the other three kinds share. An object has an id, a
name (whatever forces a new object: the name of a policy or project, project
and group of a job) and a content (all the rest). `AclPolicy`, `Project` and
`Job` each have their part of the server as a variable, what a request changes
there and answers, and their handlers. The ids of jobs are recycled once
nothing mentions them, as new ones would be indistinguishable from them.
**Workspace** composes the three; `kind` assigns resources to kinds. `clean` is
history: this run met no fault, no other writer, and no two resources were
after the same policy or project.

An import of a job can fail without any request failing: the answer has status
200 and a count of failures. `JobAnswer` gives it no id, and `ImportFails` is
what `importJob` makes of it. A job of malformed content is turned down either
way: by the provider before anything is sent (`RejectJob`), or by the server.

**Ownership** is what a user counts on, with runs, handlers, requests and
answers taken away: resources own things, each at most one; to make a thing and
own it is one step, to remove it and own it no more another. Its `world` says
what mishaps are about: whether answers get lost, whether other people use the
server, and which resources may forget what they own. `KeyStorageProperties`
and `WorkspaceProperties` each instantiate it with a refinement mapping (`Keys`,
`Objects`), whose heart is when ownership changes hands:

* a key, policy, project or job is owned from the moment the server has carried
  out the create, though its answer is still under way (`Served`, `Made`); for
  a project the answer may also be the 409 that `CreateProject` does not look
  at, so projects are `Shared`;
* it is owned no more from the moment the server has carried out the delete, or
  has answered an `Exists` with 404 (`Ended`);
* in between, a key is owned while `made` says so, and another object by the
  resource whose state, or whose handler during a create, has its id.

Private keys are always `careless`: `PrivateKeyExists` forgets a private key
when its metadata is refused, which is the finding of `keys_dropped`, and also
when the key at its path has become a public one. The latter needs no fault, only three
resources: one that adopts the public key of another updates it after the owner
was destroyed and a private key created in its place, all in one apply. Where
answers may be lost, a crash be met or other people write, every key resource
is careless: a panic takes what all handlers were doing with it.

**ProjectConfig** has the two translations of `resource_project.go` as
operators: `UpdateMaps`, the raw configurations `UpdateProject` can make of a
block, and `ProjectRead`, the objects `ReadProject` can make of one. A key is a
sequence of words and separators, so that the replacers, the prefixes and the
splits at dots do on it what they do in the code; there are several results
where Go's map order chooses between two keys that become one.

**JobDefinition** has the same for `rundeck_job`: `JobAccepted` (everything
`jobFromResourceData` refuses before it sends anything), `JobFrom`, and
`JobRead` (`jobToResourceData`, with what it sets only when the answer has it).
A pointer or a nested block that may be missing is a sequence of at most one
element; a string that ends up in a list between commas is the sequence of its
own pieces. Fields that are only copied are one value.

**JobXml** puts the XML between the two: `Marshal` makes the document of a
definition and `Unmarshal` the definition of an answer. A field with its zero
value is not written unless it always is (`Sent`, `AlwaysSent`) and is zero when
it is not found (`Found`); a list goes out joined and comes back split at every
comma; the arguments of a job reference are an attribute; the settings of a log
filter are elements of their own names; and a plugin's settings are the tokens
of an element, written and read by **XmlMaps**, where `unmarshalMapFromXML` goes
through the tokens until the end of the element and fails at anything but an
entry with a key. `UnmarshalFails` says when that fails the document as a
whole. `JobsAnswered` is external: the service need not repeat
the project, a dispatch of defaults, or a day field that restricts nothing,
which is what the code's own fallbacks (`resource_job.go:838`, `:882`, `:1053`)
say of it.

**Conversions** runs them: refresh, an empty plan or a write, the read the
write ends with, while the user edits the block and others edit the thing. It
is about content only. A handler's requests are one step here; their failures,
and what they leave, are `Workspace`'s. `stored` is the project or job the
last write was about: when a panic loses the id of a job just created, core
creates another, and `stored` is then that one. Three things can happen to a
read: it sets what it finds (`ReadObject`), it fails because the document cannot
be decoded (`Undecoded`), or it brings the provider down (`JobReadPanics`). The
first refresh that fails ends the run; after a create, core records what was
planned and taints it (`tainted`), and the next run that can read the job
replaces it. `history` says whether since the last write someone else has
written, a write was refused, or a read has failed.

The server itself, the network and other people are not under `src/`; they are
modelled from how the code uses them and marked external in the map.

## The runs

| Run | Instance | What it shows |
|---|---|---|
| `keys_alone` | one private, one public key, two paths, two materials; refusals or lost answers | `TypeOK`, `NoTwoOwners`, `ClaimedByMaker`, `ClaimedKeyStored`, `KeysAreOwned`, `PlansOnCurrentKeys` |
| `keys_shared` | the same resources on one path, every fault, one retry, other writers; fair | `DeleteFlagEarned`, `AdoptedKeySurvives`, `RunsEnd` |
| `objects_alone` | two resources of one kind, two names, two contents; refusals or lost answers | `TypeOK`, `JobsRemembered`, `OneManager`, `ObjectsAreOwned`, `CleanRunConverges`, `CleanRunSucceeds`, `LiveObjectRemembered` |
| `objects_shared` | two resources of one kind, one name, a malformed content, one retry, all faults, other writers | `OneManager`, `CleanRunConverges`, `CleanRunSucceeds` |
| `definitions` | one project of 13 blocks or one job of 29, and 13 or 11 ways others may leave the thing | `TypeOK`, `OwnJobsReadable`, `TidyBlocksSettle`, `DriftIsSeen`, `UnreadPartsApplied` |
| `keys_gone` | violation | a private key deleted by someone else panics the provider |
| `keys_dropped` | violation | a refused request makes a live private key be forgotten |
| `keys_unread` | violation | a refused update of a private key is recorded as done, for good |
| `keys_deleteflag` | violation | `delete` stays false on a key adopted first and given material later |
| `projects_adopted` | violation | creating a project takes over and overwrites an existing one |
| `projects_example` | violation | the documentation's example project differs from its block in every plan |
| `jobs_refused` | violation | a schedule that an update refuses is recorded, and never reported again |

Why the bounds are enough. Handlers interact only by meeting at a path or a
name, so two resources and two names have every kind of meeting: both on one,
each on its own, swapped, one moving to where the other was. Two contents tell
old from new. Every handler has at most three requests, so one retry, or none
with the fault repeated in the next run, has a duplicate at each of them. Runs,
edits and faults are not bounded at all: TLC explores every number of them. The
only bounds inside a specification are the finite sets of its constants and the
ids of jobs: a job is only made while there is an id for it (`IdLeft`), and as
a job whose id is lost holds that id for good, answers to a create are only
lost while ids remain for the others (`SpareIds`). In the runs `IdLeft` always
holds; it is there for smaller sets of ids. `keys_alone` uses the symmetry
of paths and of materials, `objects_*` that of resources, names and well-formed
contents; `JobId` is left out of it as
`NextId` chooses from it, and no liveness property is checked there.

In `definitions` the translations work part by part, so the blocks differ from
a plain one in one respect each, and there is one for every respect in which
the code distinguishes cases: each optional part present and absent, each
refusal, each pair of day fields, each form of key, settings of a plugin with
none, one and two keys. What others leave of a plugin's settings is reordered,
incomplete, without a key, or no settings at all (`ConfiguredJobs`), and they
may reorder or empty those of a log filter (`FilteredJobs`). Every block can follow
every other and every edit, which is where a part that is not set again would
survive. At most four numbered sources occur (`Numerals`); the code puts no
bound on them. Other people write no "/" into raw keys.

Some properties hold only under conditions, and say so. `NoTwoOwners` and its
fellows need answers to arrive and nobody else to write: with a lost answer to
a delete, the retry removes whatever is at the path by then. `ClaimedKeyStored`
leaves out private keys when requests may be refused, which is the finding of
`keys_unread`. `OneManager` is about policies and jobs; projects can have two
managers, which is the finding of `projects_adopted`. `CleanRunSucceeds` is
about projects and jobs; a policy whose create was answered to nobody is
refused as a conflict ever after.
`TidyBlocksSettle` excludes blocks that say what the translation back cannot:
dots in `extra_config`, keys that belong to an attribute or a source, dates,
commas within list entries, notifications out of order, `*` beside `?`, a
plugin's setting with an empty key, and a log filter without settings, whose
read back panics if it is exported as it was sent. `OwnJobsReadable` has only
the last two of these exceptions: a setting with an empty key is written
without complaint (`marshalMapToXML`) and turned down when read
(`unmarshalMapFromXML`), so that its job is tainted and made again in every run;
whatever else the provider sends, tidy or not, can be decoded.
`KeysAreOwned` and `ObjectsAreOwned` hold in every environment of their runs,
as `Ownership` itself says what lost answers may do to it. In `keys_shared` and
`objects_shared` they are not checked: where other people write they say little
that `AdoptedKeySurvives` and `OneManager` do not.
`DriftIsSeen` excludes, by name, what `jobToResourceData` does not set or leaves
alone when the answer lacks it: `timeout`, `success_on_empty_node_filter`, the
dates of options, a schedule or log filters that were removed. Of those,
`UnreadPartsApplied` says that they are still what was last sent, provided no
update was refused since: a refused update records what it never sent, which is
the finding of `jobs_refused`.

Fairness (`FairSpec`) is only in `KeyStorage`, for `RunsEnd`. `WF(Progress)`:
handlers are goroutines of a live process, a request is always answered or
given up by the transport, and core goes on when the handlers are done.
`SF(Serve(r))`: a request sent again and again is served in the end; the code
needs this because a 429 is retried without a limit. The user is never assumed
to start a run or edit a block. `Workspace` and `Conversions` have safety
properties only, and no fairness.

## The proofs

Eight modules hold theorems. Each is proved for every value of the constants
that the named assumptions of the modules allow:

* `RetryAttemptsAssumption`: the number of retries is a natural number;
  `EnvironmentAssumption`: environments are made of the faults there are;
* `KeyAssumption`: the public keys are resources, someone else is not one, and
  the values that stand for "nothing" are not objects, blocks, replies, keys,
  materials or paths;
* `ObjectAssumption`, `ProjectAssumption`, `JobAssumption`: the same for the
  other kinds of resource, `Gone` for what is not on the server among them;
  names are not job ids; `Kinds` gives every resource one of the three kinds;
* `NothingAssumption`, `JobBlockAssumption`: the same for the definitions, and
  what core hands over of a job's plugins.

| Theorem | Module | States |
|---|---|---|
| `TypeCorrect` | `KeyStorage_proofs` | `TypeOK` |
| `FlagsAreEarned` | `KeyStorage_proofs` | `DeleteFlagEarned` |
| `AdoptedKeysSurvive` | `KeyStorage_proofs` | `AdoptedKeySurvives` |
| `NobodyClaimsTwice` | `KeyOwnership_proofs` | `NoTwoOwners` |
| `ClaimsAreJust` | `KeyOwnership_proofs` | `ClaimedByMaker` |
| `KeysImplementOwnership` | `KeyOwnership_proofs` | `KeysAreOwned` |
| `PlansAreCurrent` | `KeyContent_proofs` | `PlansOnCurrentKeys` |
| `ClaimedKeysAreStored` | `KeyContent_proofs` | `ClaimedKeyStored` |
| `WorkspaceTypeCorrect` | `Workspace_proofs` | `TypeOK` |
| `NoJobIsLost` | `ObjectOwnership_proofs` | `JobsRemembered` |
| `RefreshForgetsNothing` | `ObjectOwnership_proofs` | `LiveObjectRemembered` |
| `ObjectsImplementOwnership` | `ObjectOwnership_proofs` | `ObjectsAreOwned` |
| `NobodyManagesTwice` | `ObjectOwnership_proofs` | `OneManager` |
| `OwnersAlwaysHold` | `Ownership_proofs` | `OwnersHold` |
| `ConversionsTypeCorrect` | `Conversions_proofs` | `TypeOK` |
| `OwnJobsAreReadable` | `Conversions_proofs` | `OwnJobsReadable` |
| `ScheduleSurvives`, `SlashesReturn` | `Conversions_proofs` | two translations |
| `MapSurvives` | `XmlMaps_proofs` | the settings of a plugin |

The theorems about policies, projects and jobs hold for any mixture of the
three in one workspace, where the runs have one kind at a time.

**Keys.** `TypeOK` is not inductive: that the server stores a `Material` needs
that a handler about to write holds one. The inductive invariant `IInv` of
`KeyStorage_proofs` adds `HandlerOK` (a handler at work has a `ResourceData`;
what it is about to write is what a user wrote; a create runs only where core
holds no object; a public key's delete is only sent with the flag set; a
replacement has a block; no handler runs between runs) and `FlagOK`, the flag's
two halves resource by resource. A create sets the flag in the `ResourceData`
and `made` in one step; that this does not disturb the object in the state is
why `HandlerOK` has to say that there is none. Nearly every action changes the
rows of one resource only, so `OneRow`, `SendIInv`, `ReturnIInv` and `ReplyIInv`
state once what such a step must establish and each handler's lemma cites them.
A request removes a key only by a delete at the handler's own path
(`AppliedStore`, `Applied`), and `HandlerOK` and `FlagOK` then give
`made[r] = p`.

`KeyOwnership_proofs` strengthens it to `KInv`. `RpcOK` says which program
points serve which RPC, and that a handler works on the path and the flag of
the object it was called with; `MadeOK` that `made` is exactly what the state,
or a create still reading, says of it; `OwnedOK` that, in an undisturbed world,
the key a resource owns is there and was made by it (`HoldsOK`), and that the
answers on their way do not say otherwise (`AnswerOK`; this needs `MakerOK`, a
key made by a public resource stays a public one). A key is stored with one
maker, which is what excludes two owners. `HandlerFrame` states
once that a handler touches the rows of its resource alone unless it kills the
provider. For the refinement each kind of step has a lemma that names the action
of `Ownership` it is: a request served (`ServeMaps`), a fault (`DisturbMaps`),
a handler (`HandlerMaps`), other people (`ElsewhereMaps`); a panic is `Forget`
by all whose calls were lost.

`KeyContent_proofs` adds what the refresh has found so far (`RefreshOK`): while
nobody else writes a refresh only reads, so what `ReadPublicKey` saw is still so
when the plan is made. For `ClaimedKeysAreStored` the material of an owned key
must be followed through create, update and read, with every other resource at
the path about to create, adopt or rewrite. `ContentOK` says that the state, or
the read under way, agrees with the store *unless a rival has appeared*: a
resource that manages the same path (`Rival`), which the property excludes and
which can only go away by a new refresh.

**Policies, projects and jobs.** `Workspace_proofs` has the inductive invariant
`IInv`: `TypeOK`, `HandlerOK` (which program points serve which RPC, and that
the id a handler works with is the one in the state, or none yet in a create)
and `ReplyOK` (only an answer of status 200 gives an id, that of the job asked
for or of a new one). Every step of every handler of every kind is one of three shapes:
it records and returns (`Settles`), sends a next request about the same object
(`GoesOn`), or, with the delete of a replacement done, begins to create
(`StartsAnew`). The lemmas
`PolicySteady`, `ProjectSteady`, `JobSteady` say so, and all later proofs,
those about ownership too, are by shape instead of by handler.

`ObjectOwnership_proofs` adds `JInv`: no two resources remember one job id in
state, handler or answer (`UniqueIds`), which holds because a new id is one that nobody
remembers (`Fresh`); an id whose job was reported gone is of a job that is gone
(`EndedOK`); every job is remembered while answers arrive (`Remembered`); and a
refresh hears that an object is gone only if it is (`SeenOK`). For the
refinement `UniqueIds` is what makes the delete of a job the delete by its
owner. That no policy has two managers then follows from `Ownership` itself:
`OInv` contains the inductive invariant of `Ownership_proofs`, instantiated
with the refinement mapping and preserved because every step maps.

`Ownership_proofs` proves `OwnersAlwaysHold`, `Spec => []OwnersHold` of the
abstract specification: in a trusted world an owned thing that is not shared
exists and has one owner, for any resources and things. `OwnersHold` is
inductive given that owners are recorded by resource (`OwnsType`). As both
compositions are proved to implement `Ownership`, it holds of them too.

**Translations.** `Conversions_proofs` proves, for any blocks and edits that satisfy
`NothingAssumption` (the value for "nothing" is no raw configuration and no
definition) and `JobBlockAssumption` (commands and notifications have their
fields, and the settings of a plugin are a finite map):

* `ConversionsTypeCorrect`: `Spec => []TypeOK`. Here `TypeOK` is inductive: that
  an object is recorded, or tainted, only of a thing that was on the server
  follows from what it says of `step`, and `WrittenIsSomething` is what a write contributes.
* `OwnJobsAreReadable`: `Spec => OwnJobsReadable`. Until it is read back a job is
  on the server as it was written, or somebody else has changed it
  (`WrittenOK`); every plugin's element in what was written is that of a plugin
  in the block, those of error handlers and notifications included
  (`MarshalledFrom`); the service repeats them (`AnsweredParts`); and an element
  written for a map can be read (`MapSurvives`).
* `ScheduleSurvives`: an accepted schedule of seven words, other than `*` beside
  `?`, comes back as it was from `scheduleToCronSpec`, whichever day fields the
  service left out; TLC tries four, the lemma is about all. The one hypothesis
  on the words is that neither day is the empty word, `Omitted`.
* `SlashesReturn`: a key of `extra_config` without dots comes back as it was
  from the two replacers, whatever its words and however long it is.

`XmlMaps_proofs` proves `MapSurvives`: a finite, non-empty map without the empty
key is read from the element written for it as it was, whatever its keys and
values, provided the element is not itself called `entry` (it is called
`configuration`). The argument: the keys are listed without repetition
(`KeysListed`, from the cardinality theorems), so the tokens of an element
alternate between entries and their ends; the only token at which the reader
stops is the last (`EvenOrOdd`, `Places`), and every entry is the only one of its
key. An empty map is
written as nothing and so has nothing to be read.

**Model-checked only.** `RunsEnd`, as liveness is out of the prover's reach.
`CleanRunConverges` and `CleanRunSucceeds`, whose inductive invariant has to
follow content through every handler, relative to what the run has met so far.
`TidyBlocksSettle`, `DriftIsSeen` and `UnreadPartsApplied`, which are about whole
blocks and documents: their parts are lists of any length joined and split
again, settings collected one by one, and what a fold computes for every list
needs induction over data. The violations, which are single behaviours.

## Not modelled, and why

* Empty strings in lists of recipients or URLs and empty nested blocks, which
  the SDK may hand over as nil: they belong to its configuration reader.
* How the service exports a log filter without settings. If without an element,
  as the code writes it, `ReadJob` panics (`JobReadPanics`); no property forbids
  it, as the repository does not say.
* `provider.go`: builds one client from three settings and keeps no state.
* `validateValueFunc` in `util.go`: nothing calls it.
* An import answer that counts a job and lists none, or a get answered with an
  empty list (`job.go:406`, `:459`): the code indexes out of range, but only if
  the service contradicts itself.
* That the jobs of a project go with it when it is destroyed: the resources of
  one behaviour are of one kind, and the provider does nothing about it.
* Request preparation, decoding of other answers than jobs, logging, the `url` and `ui_url` attributes.
* Locking of the state file, targeting, imports, `create_before_destroy`,
  dependencies between resources: the provider has no part in them; ordering
  that a dependency would force is one of the interleavings explored.
* The user setting a run aside half-way: core then lets handlers finish.

## The plan

1. *Done*: client, core, requests, key storage, policies, projects, jobs, with
   their runs; the key storage's types and delete flag proved.
2. *Done*: `ProjectConfig`, `JobDefinition` and `Conversions`: what blocks become
   on the server and back; its types and two of the translations proved.
3. *Done*: `Ownership`, the abstract promise of things made, owned and removed,
   with `KeyStorage` and `Workspace` shown to implement it and its invariant
   proved; imports that fail in their answer.
4. *Done*: `XmlMaps` and `JobXml`: the documents of jobs, and reads that fail on
   them; the round trip of a plugin's settings proved.
5. *Done*: the types of `Workspace`; that keys, policies and jobs have one
   owner, and jobs are not lost; the refinements of `Ownership`; that plans and
   recorded keys are current; that jobs can be read back.
6. Proofs: `CleanRunConverges` and `CleanRunSucceeds`, and more of the
   translations where no induction is needed.
