---------------------------- MODULE ManifestRules ---------------------------
(***************************************************************************)
(* parseManifest of packages/plugin-spec/src/spec.ts with the parsers it   *)
(* calls: of a document it is given, what it keeps, and what it blames.    *)
(*                                                                         *)
(* A document is a record with the fields of the manifest, those of        *)
(* contributes among them; its lists are sequences of records.  A value    *)
(* stands for every text, number or object the code treats alike:          *)
(*   "good", "padded" (trimmed on the way), "map" (per language), "blank", *)
(*   "empty map", "bad map" (an object with a value that is no string),    *)
(*   "number" (or a truth value, or an empty list), "list" (of texts),     *)
(*   "null", "bad" (wrong in another way), "absent"; Absent and Bad where  *)
(*   a list or an object is expected.                                      *)
(* An entry with a key that is not known has extra = TRUE, and so has a    *)
(* document whose contributes is no object.  Which of several errors is    *)
(* reported is left out: a section is blamed or not.                       *)
(***************************************************************************)
EXTENDS VersionRules, SequencesExt

CONSTANTS
    Absent, Bad,
    Self,          \* the dependency that names the plugin itself
    Restating      \* the command names that begin with a word of its id

ASSUME ManifestAssumption ==
    Self \in Nat \ {0} /\ IsInjective(<<Absent, Bad, Star, Unclear>>)

-----------------------------------------------------------------------------
(* What a document is.                                                     *)

\* The classes of values, the surfaces, and all that stands for itself.
Words ==
    {"good", "padded", "map", "blank", "empty map", "bad map", "number", "list", "null", "bad",
     "absent", "true", "false", "tab", "side"} \cup STRING

Maybe(T) == {Absent, Bad} \cup T

ListOf(T) == Maybe(Seq(T \cup {Bad}))

TextList == Maybe(Seq(Words))

ContractRequirement ==
    [extra : BOOLEAN, id : Words,
     requirement : {Star} \cup Seq({Unclear} \cup [operator : Operators, version : Versions])]

ContractProviderRef == [extra : BOOLEAN, id : Words, version : Words]

RuntimeDependencyIntents ==
    [extra : BOOLEAN, plugins : Maybe(Seq(Nat)), sidecars : Maybe(Seq(Nat))]

ServiceDecl == [extra : BOOLEAN, interface : {Bad} \cup ContractRequirement, subscribe : TextList]

PluginRuntimeOrigin == [origin : Nat, form : {"canonical", "spelled"}, safe : BOOLEAN]

PluginRuntimePolicy ==
    [extra : BOOLEAN, navigation : Maybe(Seq(PluginRuntimeOrigin)),
     iframe : Maybe(Seq(PluginRuntimeOrigin)), webRtc : Words]

ReachStrategy == [variants : SUBSET Words, path : Words, sha256 : Words]

LibraryDep ==
    [extra : BOOLEAN, name : Words, bin : Words, install : Words, label : Words,
     observe : Words, accept : Words, reach : Maybe(ReachStrategy)]

ConfigValue == [of : Words, value : Nat]

ConfigSetting ==
    [extra : BOOLEAN, key : Words, type : Words, default : ConfigValue, title : Words,
     description : Words, enum : Maybe(Seq(Nat)), labels : TextList, min : Maybe(Int),
     max : Maybe(Int)]

ContributedView ==
    [extra : BOOLEAN, id : Words, title : Words, icon : Words, surfaces : TextList,
     transparent : Words, nativeSurface : Words, status : TextList]

ServiceParamSpec ==
    [extra : BOOLEAN, type : Words, description : Words, required : Words, enum : Words]

ContributedCommand ==
    [extra : BOOLEAN, name : Words, title : Words, danger : Words, bind : Words,
     description : Words, triggers : Words, params : ListOf(ServiceParamSpec),
     returns : Words]

ContributedOverlay ==
    [extra : BOOLEAN, id : Words, title : Words, scope : Words, capturesInput : Words]

ContributedHeaderAction ==
    [extra : BOOLEAN, id : Words, title : Words, icon : Words, command : Words]

ContributedStatusItem == [extra : BOOLEAN, id : Words, title : Words, command : Words]

ContributedIconSet == [extra : BOOLEAN, id : Words, title : Words]

ContributedFileViewer == [extra : BOOLEAN, id : Words, extensions : Words, priority : Words]

ContributedNode == [extra : BOOLEAN, id : Words, description : Words, danger : Words]

ContributedSkill == [extra : BOOLEAN, path : Words]

Ensure == [extra : BOOLEAN, bin : Words, install : Words]

ContributedProgram ==
    [extra : BOOLEAN, id : Words, title : Words, kind : Words, path : Words, view : Words,
     viewPlugin : Words, viewContract : Maybe(ContractRequirement), command : Words,
     ensure : Maybe(Ensure)]

ScheduleTrigger == [extra : BOOLEAN, variants : SUBSET Words, value : Words]

ContributedSchedule ==
    [extra : BOOLEAN, name : Words, command : Words, params : Words,
     trigger : {Bad} \cup ScheduleTrigger, timeoutMs : Words, zombieBackstopMs : Words]

\* What each field of a document may hold.
PluginManifest ==
    [extra |-> BOOLEAN, id |-> Words, name |-> Words, version |-> Words,
     description |-> Words, author |-> Words, renamedFrom |-> Words,
     appVersionRequirement |-> Words, requiresEngine |-> Words,
     requiresNativeChildWebview |-> Words, requiresEngineModules |-> Words,
     template |-> Words, entry |-> Words, runtime |-> Maybe(PluginRuntimePolicy),
     runtimeDependencies |-> Maybe(RuntimeDependencyIntents),
     libraries |-> ListOf(LibraryDep), service |-> Maybe(ServiceDecl),
     implements |-> ListOf(ContractProviderRef), consumes |-> ListOf(ContractRequirement),
     configuration |-> ListOf(ConfigSetting), permissions |-> TextList,
     views |-> ListOf(ContributedView), commands |-> ListOf(ContributedCommand),
     overlays |-> ListOf(ContributedOverlay),
     headerActions |-> ListOf(ContributedHeaderAction),
     statusItems |-> ListOf(ContributedStatusItem), iconSets |-> ListOf(ContributedIconSet),
     fileViewers |-> ListOf(ContributedFileViewer), nodes |-> ListOf(ContributedNode),
     programs |-> ListOf(ContributedProgram), events |-> TextList,
     skill |-> Maybe(ContributedSkill), schedules |-> ListOf(ContributedSchedule)]

IsDocument(raw) ==
    /\ DOMAIN raw = DOMAIN PluginManifest
    /\ \A field \in DOMAIN raw : raw[field] \in PluginManifest[field]

\* All that a list or an object of a document consists of.
Parts ==
    Words \cup Nat \cup ContractRequirement \cup ContractProviderRef \cup ServiceDecl
    \cup PluginRuntimeOrigin \cup PluginRuntimePolicy \cup ReachStrategy \cup LibraryDep
    \cup RuntimeDependencyIntents \cup ConfigSetting \cup ContributedView \cup ServiceParamSpec
    \cup ContributedCommand \cup ContributedOverlay \cup ContributedHeaderAction
    \cup ContributedStatusItem \cup ContributedIconSet \cup ContributedFileViewer
    \cup ContributedNode \cup ContributedSkill \cup Ensure \cup ContributedProgram
    \cup ScheduleTrigger \cup ContributedSchedule

\* None of it, and no list of it, is mistaken for nothing or for the wrong thing.
ASSUME AbsenceAssumption == \A x \in {Absent, Bad} : x \notin Parts /\ x \notin Seq(Parts)

-----------------------------------------------------------------------------
(* Texts, ids, lists.                                                         *)

Trim(x) == IF x = "padded" THEN "good" ELSE x

Trimmed(e, fields) == [f \in DOMAIN e |-> IF f \in fields THEN Trim(e[f]) ELSE e[f]]

Filled(x) == x \in {"good", "padded"}                \* isNonEmptyString

Optional(x) == x = "absent" \/ Filled(x)

Flag(x) == x \in {"absent", "true", "false"}

OnlyTrue(x) == IF x = "true" THEN x ELSE "absent"

LocalText(x) == x \in {"good", "padded", "map"}      \* validateLocalizedText

\* A text or an object, whatever is in it.
AnyText(x) == x \in {"good", "padded", "map", "blank", "empty map", "bad map"}

\* What normalizeText makes of a value nobody looked into: of what is no text, the
\* map of its entries.  What has entries that are no texts trips it, and so does null.
AsText(x) == CASE x = "number" -> "empty map" [] x = "list" -> "map" [] OTHER -> x

Normalized(x) == Trim(AsText(x))

Trips(x) == x \in {"bad map", "null", "bad"}

Ident(x) == x \notin {"bad", "absent"}

Given(list) == IF list \in {Absent, Bad} THEN <<>> ELSE list

OrAbsent(list) == IF list = <<>> THEN Absent ELSE list

Entries(list) == Range(Given(list)) \ {Bad}

\* The n-th of some numbers, and the list of what is in these places.
Nth(places, n) == CHOOSE i \in places : Cardinality({j \in places : j <= i}) = n

At(list, places) == [n \in 1 .. Cardinality(places) |-> list[Nth(places, n)]]

\* The entries a parser returns, each in its normal form.
Section(list, normal) ==
    LET g == Given(list)
        places == {i \in DOMAIN g : g[i] \in DOMAIN normal}
    IN At([i \in places |-> normal[g[i]]], places)

\* No list, an entry that is no object, or a key that is not known.
Malformed(list) ==
    list = Bad \/ Bad \in Range(Given(list)) \/ \E e \in Entries(list) : e.extra

Repeats(names) == ~IsInjective(names)

Ids(list) == [i \in DOMAIN list |-> list[i].id]

-----------------------------------------------------------------------------
(* Identity, dependencies, contracts.                                      *)

IdentityBlamed(raw) ==
    \/ raw.extra
    \/ raw.id # "good"                               \* the directory's name
    \/ ~LocalText(raw.name) \/ ~LocalText(raw.description)
    \/ raw.version # "good"
    \/ ~Optional(raw.author)
    \/ raw.renamedFrom \notin {"absent", "good"}     \* another id than its own
    \/ raw.appVersionRequirement # "good"
    \/ raw.requiresEngine \notin {"absent", "good"}
    \/ \E f \in {raw.requiresNativeChildWebview, raw.requiresEngineModules, raw.template} : ~Flag(f)

\* A group lists its references once and in order; 0 is a malformed one.
GroupOk(group) == group = Absent \/
    /\ group # Bad /\ Len(group) > 0 /\ 0 \notin Range(group)
    /\ \A i, j \in DOMAIN group : i < j => group[i] < group[j]

DependenciesOk(deps) ==
    /\ deps # Bad /\ ~deps.extra
    /\ GroupOk(deps.plugins) /\ GroupOk(deps.sidecars)
    /\ deps.plugins # Absent \/ deps.sidecars # Absent

Dependencies(raw) ==
    IF raw.runtimeDependencies # Absent /\ DependenciesOk(raw.runtimeDependencies)
    THEN raw.runtimeDependencies ELSE Absent

Sidecars(raw) ==
    IF Dependencies(raw) = Absent THEN <<>> ELSE Given(Dependencies(raw).sidecars)

\* The permissions are asked as they were written, a list or not.
PermissionsTrip(raw) == Sidecars(raw) # <<>> /\ raw.permissions = Bad

DependenciesBlamed(raw) ==
    \/ raw.runtimeDependencies # Absent /\ Dependencies(raw) = Absent
    \/ Dependencies(raw) # Absent /\ Self \in Range(Given(Dependencies(raw).plugins))
    \/ Sidecars(raw) # <<>> /\ Range(Given(raw.permissions)) \cap {"sidecar", "process"} = {}

Requirement(r) == r # Bad /\ ~r.extra /\ Ident(r.id) /\ IsDependencyRange(r.requirement)

Provider(r) == r # Bad /\ ~r.extra /\ Ident(r.id) /\ r.version = "good"

\* validateContractArray: the first reference to a contract is kept.
Contracts(list, ok) ==
    LET g == Given(list)
        kept == {i \in DOMAIN g :
                    g[i] \in ok /\ \A j \in 1 .. i - 1 : g[j] \in ok => g[j].id # g[i].id}
    IN [list |-> At(g, kept), blamed |-> list = Bad \/ kept # DOMAIN g]

ServiceOk(s) ==
    /\ s # Bad /\ Requirement(s.interface) /\ s.interface.id = "service"
    /\ s.subscribe # Bad /\ \A t \in Range(Given(s.subscribe)) : t # "bad"

Service(raw) ==
    IF raw.service # Absent /\ ServiceOk(raw.service)
    THEN [raw.service EXCEPT !.subscribe = Given(@)] ELSE Absent

ServiceBlamed(s) == s # Absent /\
    (~ServiceOk(s) \/ s.extra \/ Repeats(Given(s.subscribe)))
-----------------------------------------------------------------------------
(* Libraries and settings.                                                 *)

\* validatePlatformMap: platforms that are known, each with a text, one at least.
PlatformMap(m) == Filled(m)

\* Exactly one way to come by a tool; what it needs is there.
ReachOk(r) == r = Absent \/
    /\ r # Bad /\ Cardinality(r.variants) = 1
    /\ IF r.variants = {"vendor"} THEN Filled(r.path) /\ Filled(r.sha256)
       ELSE IF r.variants = {"fetch"} THEN PlatformMap(r.path) /\ PlatformMap(r.sha256)
       ELSE PlatformMap(r.path)

LibraryKept(l) ==
    /\ Filled(l.name) /\ Ident(l.bin) /\ PlatformMap(l.install)
    /\ l.label = "absent" \/ AnyText(l.label)
    /\ l.observe \in {"absent", "good"} /\ l.accept \in {"absent", "good"}
    /\ ReachOk(l.reach)

NormalLibrary(l) == Trimmed(l, {"name", "install", "label"})

Types == {"boolean", "number", "string", "enum", "list", "map"}

TypeOf(s) == IF s.type = "enum" THEN "string" ELSE s.type

BoundsOk(s) ==
    IF s.type # "number" THEN s.min = Absent /\ s.max = Absent
    ELSE s.min # Bad /\ s.max # Bad
         /\ (s.min # Absent /\ s.max # Absent => s.min <= s.max)

SettingKept(s) ==
    /\ Ident(s.key) /\ s.type \in Types /\ AnyText(s.title)
    /\ IF s.type = "enum" THEN Given(s.enum) # <<>> ELSE s.enum = Absent
    /\ s.labels # Absent =>
          s.type = "enum" /\ s.labels # Bad /\ Len(s.labels) = Len(Given(s.enum))
    /\ s.default.of = TypeOf(s)
    /\ s.type = "enum" => s.default.value \in Range(s.enum)
    /\ BoundsOk(s)

NormalLabels(list) ==
    IF list = Absent THEN list ELSE [i \in DOMAIN list |-> Normalized(list[i])]

NormalSetting(s) ==
    [s EXCEPT !.title = Trim(@), !.description = Normalized(@), !.labels = NormalLabels(@)]

\* A title, a description and labels are trimmed though nothing looked into them.
SettingTrips(s) == SettingKept(s) /\
    (Trips(s.title) \/ Trips(s.description) \/ \E x \in Range(Given(s.labels)) : Trips(x))

\* validateSettingValue: what a user may set.
ValidateSettingValue(s, v) ==
    /\ v.of = TypeOf(s)
    /\ s.type = "enum" => v.value \in Range(s.enum)
    /\ s.type = "number" => (s.min # Absent => v.value >= s.min)
                            /\ (s.max # Absent => v.value <= s.max)

\* A text of some library or setting makes normalizeText fail.
TextTrips(raw) ==
    \/ \E l \in Range(Given(raw.libraries)) : l # Bad /\ LibraryKept(l) /\ Trips(l.label)
    \/ \E s \in Range(Given(raw.configuration)) : s # Bad /\ SettingTrips(s)
-----------------------------------------------------------------------------
(* Entry, runtime, permissions.                                            *)

EntryBlamed(e) == e \notin {"absent", "null", "good", "padded"}

NormalEntry(e) == IF e = "absent" THEN "good" ELSE Trim(e)

\* Origins are compared, and kept, in their canonical form, and sorted.
OriginsOk(list) == list = Absent \/
    /\ list # Bad
    /\ \A o \in Range(list) : o.safe
    /\ ~Repeats([i \in DOMAIN list |-> list[i].origin])

RuntimeOk(r) == r = Absent \/
    /\ r # Bad /\ ~r.extra /\ Flag(r.webRtc)
    /\ OriginsOk(r.navigation) /\ OriginsOk(r.iframe)

Canonical(list) ==
    LET written == Range(Given(list))
        canonical(n) == [(CHOOSE o \in written : o.origin = n) EXCEPT !.form = "canonical"]
        origins == {o.origin : o \in written}
    IN At([n \in origins |-> canonical(n)], origins)

NormalRuntime(r) ==
    IF r = Absent \/ ~RuntimeOk(r)
    THEN [extra |-> FALSE, navigation |-> <<>>, iframe |-> <<>>, webRtc |-> "false"]
    ELSE [extra |-> FALSE, navigation |-> Canonical(r.navigation),
          iframe |-> Canonical(r.iframe), webRtc |-> IF r.webRtc = "true" THEN "true" ELSE "false"]

Known(list) == At(Given(list), {i \in DOMAIN Given(list) : Given(list)[i] # "bad"})

PermissionsBlamed(list) ==
    list \in {Absent, Bad} \/ "bad" \in Range(list) \/ Repeats(Known(list))
-----------------------------------------------------------------------------
(* Contributions.                                                          *)

ViewNamed(v) == Ident(v.id) /\ LocalText(v.title)

ViewShaped(v) ==
    /\ v.surfaces = Absent \/
         (v.surfaces \notin {Bad, <<>>} /\ "bad" \notin Range(v.surfaces) /\ ~Repeats(v.surfaces))
    /\ Flag(v.transparent) /\ Flag(v.nativeSurface)
    /\ v.status # Bad /\ "bad" \notin Range(Given(v.status))

ViewKept(v) == ViewNamed(v) /\ Filled(v.icon) /\ ViewShaped(v)

\* A view whose icon is there and blank is passed over without a word.
ViewBlamed(v) ==
    \/ ~ViewNamed(v) \/ v.icon = "absent"
    \/ Filled(v.icon) /\ (~ViewShaped(v) \/ Repeats(Given(v.status)))

NormalView(v) ==
    [f \in DOMAIN v |->
        IF f = "surfaces" /\ v[f] = Absent THEN <<"side">>
        ELSE IF f \in {"transparent", "nativeSurface"} /\ v[f] # "true" THEN "false"
        ELSE IF f \in {"title", "icon"} THEN Trim(v[f]) ELSE v[f]]

ParamOk(p) ==
    /\ p # Bad /\ p.type = "good" /\ Filled(p.description)
    /\ Flag(p.required) /\ p.enum \in {"absent", "good", "padded"}

\* Data about a command only where a service carries it out.
ServiceFieldsOk(c) ==
    IF c.bind = "absent"
    THEN c.description = "absent" /\ c.triggers = "absent" /\ c.params = Absent
         /\ c.returns = "absent"
    ELSE /\ c.bind = "service" /\ Filled(c.description)
         /\ c.triggers \in {"absent", "good"} /\ Optional(c.returns)
         /\ c.params # Bad /\ \A p \in Range(Given(c.params)) : ParamOk(p)

CommandKept(c) ==
    /\ Ident(c.name) /\ LocalText(c.title)
    /\ c.danger \in {"absent", "good"} /\ ServiceFieldsOk(c)

\* A key of a parameter that is not known leaves the command in the list.
CommandBlamed(c) ==
    ~CommandKept(c) \/ c.name \in Restating \/ \E p \in Range(Given(c.params)) : p.extra

NormalParam(p) == Trimmed(p, {"description", "enum"})

NormalParams(list) == [i \in DOMAIN Given(list) |-> NormalParam(list[i])]

\* The data of a command that a service carries out.
NormalServed(c) ==
    [f \in DOMAIN c |->
        IF f = "params" THEN NormalParams(c[f])
        ELSE IF f = "returns" /\ c[f] = "absent" THEN "good"
        ELSE IF f \in {"title", "description", "returns"} THEN Trim(c[f]) ELSE c[f]]

\* Defect: how dangerous a command is gets lost.
NormalCommandHarmless(c) ==
    [(IF c.bind = "absent" THEN Trimmed(c, {"title"}) ELSE NormalServed(c)) EXCEPT
        !.danger = "absent"]

NormalCommand(c) == IF c.bind = "absent" THEN Trimmed(c, {"title"}) ELSE NormalServed(c)

OverlayKept(o) ==
    Ident(o.id) /\ LocalText(o.title) /\ o.scope \in {"screen", "pane"}
    /\ o.capturesInput \in {"true", "false"}

\* What a header action or a status item runs is a command of this manifest.
DeclaredCommand(name, commands) == \E i \in DOMAIN commands : commands[i].name = name

ActionKept(a, commands) ==
    Ident(a.id) /\ LocalText(a.title) /\ Filled(a.icon) /\ DeclaredCommand(a.command, commands)

ItemKept(t, commands) ==
    Ident(t.id) /\ LocalText(t.title) /\ DeclaredCommand(t.command, commands)

Titled(x) == Trimmed(x, {"title"})

NormalAction(a) == Trimmed(a, {"title", "icon"})

IconSetKept(s) == Ident(s.id) /\ LocalText(s.title)

FileViewerKept(f) == Ident(f.id) /\ f.extensions = "good" /\ f.priority \in {"absent", "good"}

NodeKept(n) ==
    /\ Ident(n.id)
    /\ n.description = "absent" \/ LocalText(n.description)
    /\ n.danger \in {"absent", "true"}

NormalNode(n) == Trimmed(n, {"description"})

SkillBlamed(s) == s # Absent /\ (s = Bad \/ ~Filled(s.path))    \* inside the directory

\* What else is in it is left behind.
NormalSkill(s) ==
    IF s = Absent \/ SkillBlamed(s) THEN Absent ELSE [extra |-> FALSE, path |-> Trim(s.path)]

EnsureOk(e) == e = Absent \/ (e # Bad /\ Filled(e.bin) /\ PlatformMap(e.install))

ProgramKept(p) ==
    /\ Ident(p.id) /\ LocalText(p.title) /\ p.kind = "view"
    /\ p.path = "absent" \/ LocalText(p.path)
    /\ Filled(p.view) /\ p.viewPlugin \in {"absent", "good"}
    /\ p.viewContract = Absent \/ (p.viewPlugin = "absent" /\ Requirement(p.viewContract))
    /\ Optional(p.command) /\ EnsureOk(p.ensure)

ProgramBlamed(p) == ~ProgramKept(p) \/ (p.ensure # Absent /\ p.ensure.extra)

NormalProgram(p) ==
    [Trimmed(p, {"title", "path", "view", "command"}) EXCEPT
        !.ensure = IF @ = Absent THEN @ ELSE Trimmed(@, {"bin", "install"})]

EventsBlamed(list) == list = Bad \/ "bad" \in Range(Given(list)) \/ Repeats(Given(list))

TriggerOk(t) ==
    /\ t # Bad /\ Cardinality(t.variants) = 1
    /\ IF t.variants = {"cron"} THEN Filled(t.value) ELSE t.value = "good"

ScheduleKept(s) ==
    /\ s.name # "bad" /\ s.command # "blank" /\ s.params \in {"absent", "good"}
    /\ TriggerOk(s.trigger)
    /\ s.timeoutMs \in {"absent", "good"} /\ s.zombieBackstopMs \in {"absent", "good"}

\* Of a trigger, its one variant.
NormalTrigger(t) == [extra |-> FALSE, variants |-> t.variants, value |-> Trim(t.value)]

NormalSchedule(s) == [s EXCEPT !.trigger = NormalTrigger(@)]

ServiceOps(commands) == {c.name : c \in {d \in Range(commands) : d.bind = "service"}}

-----------------------------------------------------------------------------
(* The manifest a document is parsed to, and the sections that are blamed. *)

Provided(list) == Contracts(list, {r \in Entries(list) : Provider(r)})

Required(list) == Contracts(list, {r \in Entries(list) : Requirement(r)})

Libraries(list) ==
    Section(list, [l \in {x \in Entries(list) : LibraryKept(x)} |-> NormalLibrary(l)])

Configuration(list) ==
    Section(list, [s \in {x \in Entries(list) : SettingKept(x)} |-> NormalSetting(s)])

Views(list) == Section(list, [v \in {x \in Entries(list) : ViewKept(x)} |-> NormalView(v)])

Commands(list) ==
    Section(list, [c \in {x \in Entries(list) : CommandKept(x)} |-> NormalCommand(c)])

Overlays(list) == Section(list, [o \in {x \in Entries(list) : OverlayKept(x)} |-> Titled(o)])

HeaderActions(list, commands) ==
    Section(list, [a \in {x \in Entries(list) : ActionKept(x, commands)} |-> NormalAction(a)])

StatusItems(list, commands) ==
    Section(list, [t \in {x \in Entries(list) : ItemKept(x, commands)} |-> Titled(t)])

IconSets(list) == Section(list, [i \in {x \in Entries(list) : IconSetKept(x)} |-> Titled(i)])

FileViewers(list) == Section(list, [f \in {x \in Entries(list) : FileViewerKept(x)} |-> f])

Nodes(list) == Section(list, [n \in {x \in Entries(list) : NodeKept(x)} |-> NormalNode(n)])

Programs(list) ==
    Section(list, [p \in {x \in Entries(list) : ProgramKept(x)} |-> NormalProgram(p)])

Schedules(list) ==
    Section(list, [s \in {x \in Entries(list) : ScheduleKept(x)} |-> NormalSchedule(s)])

\* What a document is parsed to.
Manifest(raw) ==
    LET commands == Commands(raw.commands)
    IN [extra |-> raw.extra, id |-> raw.id, version |-> raw.version,
        renamedFrom |-> raw.renamedFrom, appVersionRequirement |-> raw.appVersionRequirement,
        requiresEngine |-> raw.requiresEngine, name |-> Trim(raw.name),
        description |-> Trim(raw.description), author |-> Trim(raw.author), entry |-> NormalEntry(raw.entry),
        runtime |-> NormalRuntime(raw.runtime),
        requiresNativeChildWebview |-> OnlyTrue(raw.requiresNativeChildWebview),
        requiresEngineModules |-> OnlyTrue(raw.requiresEngineModules),
        template |-> OnlyTrue(raw.template),
        runtimeDependencies |-> Dependencies(raw), libraries |-> OrAbsent(Libraries(raw.libraries)),
        service |-> Service(raw), implements |-> OrAbsent(Provided(raw.implements).list),
        consumes |-> OrAbsent(Required(raw.consumes).list),
        configuration |-> OrAbsent(Configuration(raw.configuration)),
        permissions |-> Known(raw.permissions), views |-> Views(raw.views),
        commands |-> commands, overlays |-> Overlays(raw.overlays),
        headerActions |-> HeaderActions(raw.headerActions, commands),
        statusItems |-> StatusItems(raw.statusItems, commands),
        iconSets |-> IconSets(raw.iconSets), fileViewers |-> FileViewers(raw.fileViewers),
        nodes |-> Nodes(raw.nodes), programs |-> Programs(raw.programs),
        events |-> Given(raw.events), skill |-> NormalSkill(raw.skill),
        schedules |-> OrAbsent(Schedules(raw.schedules))]

EntryLists(raw) ==
    <<raw.libraries, raw.configuration, raw.views, raw.commands, raw.overlays,
      raw.headerActions, raw.statusItems, raw.iconSets, raw.fileViewers, raw.nodes,
      raw.programs, raw.schedules>>

\* What a document breaks by one of its sections alone.
SectionsBlamed(raw, m) ==
    \/ IdentityBlamed(raw) \/ DependenciesBlamed(raw) \/ ServiceBlamed(raw.service)
    \/ Provided(raw.implements).blamed \/ Required(raw.consumes).blamed
    \/ EntryBlamed(raw.entry) \/ ~RuntimeOk(raw.runtime) \/ PermissionsBlamed(raw.permissions)
    \/ SkillBlamed(raw.skill) \/ EventsBlamed(raw.events)
    \/ \E i \in DOMAIN EntryLists(raw) : Malformed(EntryLists(raw)[i])
    \/ \E l \in Entries(raw.libraries) : ~LibraryKept(l)
    \/ \E s \in Entries(raw.configuration) : ~SettingKept(s)
    \/ \E v \in Entries(raw.views) : ViewBlamed(v)
    \/ \E c \in Entries(raw.commands) : CommandBlamed(c)
    \/ \E o \in Entries(raw.overlays) : ~OverlayKept(o)
    \/ \E a \in Entries(raw.headerActions) : ~ActionKept(a, m.commands)
    \/ \E t \in Entries(raw.statusItems) : ~ItemKept(t, m.commands)
    \/ \E i \in Entries(raw.iconSets) : ~IconSetKept(i)
    \/ \E f \in Entries(raw.fileViewers) : ~FileViewerKept(f)
    \/ \E n \in Entries(raw.nodes) : ~NodeKept(n)
    \/ \E p \in Entries(raw.programs) : ProgramBlamed(p)
    \/ \E s \in Entries(raw.schedules) : ~ScheduleKept(s)

NamesRepeat(m) ==
    \/ \E list \in {m.views, m.overlays, m.headerActions, m.statusItems, m.iconSets,
                    m.fileViewers, m.nodes, m.programs} : Repeats(Ids(list))
    \/ Repeats([i \in DOMAIN m.commands |-> m.commands[i].name])
    \/ Repeats([i \in DOMAIN Given(m.libraries) |-> m.libraries[i].bin])
    \/ Repeats([i \in DOMAIN Given(m.configuration) |-> m.configuration[i].key])
    \/ Repeats([i \in DOMAIN Given(m.schedules) |-> m.schedules[i].name])

\* A contribution without the permission it takes.
PermissionMissing(m) ==
    LET needs(list, permission) == list # <<>> /\ permission \notin Range(m.permissions)
    IN \/ \E list \in {m.views, m.iconSets, m.fileViewers, m.nodes} : needs(list, "ui")
       \/ needs(m.commands, "commands") \/ needs(m.programs, "programs")
       \/ \E o \in Range(m.overlays) : "ui:overlay:" \o o.scope \notin Range(m.permissions)
       \/ needs(m.headerActions, "ui:titlebar") \/ needs(m.headerActions, "commands")
       \/ needs(m.statusItems, "ui:statusbar") \/ needs(m.statusItems, "commands")

\* Defect: without an entry, commands in JavaScript are let through.
ServiceRulesBrokenLax(m) ==
    \/ m.service = Absent /\ (ServiceOps(m.commands) # {} \/ m.schedules # Absent \/ m.entry = "null")
    \/ m.service # Absent /\ (ServiceOps(m.commands) = {} \/ Len(Sidecars(m)) # 1)
    \/ \E s \in Range(Given(m.schedules)) : ~DeclaredCommand(s.command, m.commands)

\* validateServiceRules.
ServiceRulesBroken(m) ==
    \/ m.service = Absent /\ (ServiceOps(m.commands) # {} \/ m.schedules # Absent)
    \/ m.service # Absent /\ (ServiceOps(m.commands) = {} \/ Len(Sidecars(m)) # 1
                              \/ "service" \notin Range(m.permissions))
    \/ \E s \in Range(Given(m.schedules)) : ~DeclaredCommand(s.command, m.commands)
    \/ m.entry = "null" /\
         \/ m.service = Absent
         \/ \E c \in Range(m.commands) : c.bind # "service"
         \/ \E list \in {m.views, m.overlays, m.nodes, m.fileViewers, m.iconSets} : list # <<>>

Throws(raw) == PermissionsTrip(raw) \/ TextTrips(raw)

Accepts(raw, m) ==
    ~(SectionsBlamed(raw, m) \/ NamesRepeat(m) \/ PermissionMissing(m) \/ ServiceRulesBroken(m))

\* transparencyViolations, all of them blocking where plugins are validated.
Transparent(m) ==
    /\ m.commands # <<>> \/ {m.views, m.programs, m.fileViewers, m.overlays} = {<<>>}
    /\ m.nodes # <<>> \/ (m.views = <<>> /\ m.overlays = <<>>)
    /\ \A v \in Range(m.views) : "tab" \in Range(v.surfaces) => v.status # Absent
=============================================================================
