--------------------------- MODULE PluginAdmission --------------------------
(***************************************************************************)
(* From a plugin's document to its running service.  An author edits a     *)
(* document, validatePlugins of bin/validate.mjs judges it, and the host   *)
(* binds the service of an accepted manifest when the hello of its binary  *)
(* matches what the manifest declares (crates/soksak-spec-service and      *)
(* -socket).  The host itself is external: it keeps the bind ledger and    *)
(* puts the three judgements of the crates together.                       *)
(***************************************************************************)
EXTENDS ManifestRules

CONSTANTS
    None,
    Starts,        \* the documents an author starts from: [raw, edits]
    Values,        \* field -> the values an author may declare in it
    MaxEdits,      \* bound: declarations changed
    Hellos,        \* the hello frames of the binaries
    Ladder,        \* versions, from the lowest to the highest
    ServiceProtocol, ServiceFloor

ASSUME AdmissionAssumption ==
    MaxEdits \in Nat /\ ServiceFloor \in Nat /\ ServiceProtocol \in Nat

ASSUME DocumentsAssumption ==
    /\ \A start \in Starts : IsDocument(start.raw)
    /\ DOMAIN Values \subseteq DOMAIN PluginManifest
    /\ \A field \in DOMAIN Values : Values[field] \subseteq PluginManifest[field]

\* What an author may declare as the service.
Services ==
    {start.raw.service : start \in Starts}
    \cup UNION {Values[field] : field \in DOMAIN Values \cap {"service"}}

VARIABLES
    raw,           \* the document
    edits,
    verdict,       \* "draft", "accepted", "opaque", "refused" or "threw"
    manifest,      \* what it was parsed to, or None
    hello,         \* the hello its binary began with, or None
    bound          \* the host took it

vars == <<raw, edits, verdict, manifest, hello, bound>>

Init ==
    /\ \E start \in Starts : raw = start.raw /\ edits = start.edits
    /\ verdict = "draft" /\ manifest = None /\ hello = None /\ bound = FALSE

Declare ==
    /\ verdict = "draft" /\ edits < MaxEdits
    /\ \E field \in DOMAIN Values : \E value \in Values[field] :
          raw' = [raw EXCEPT ![field] = value] /\ raw' # raw
    /\ edits' = edits + 1
    /\ UNCHANGED <<verdict, manifest, hello, bound>>

\* parseManifest throws, refuses or returns the whole manifest; then the rules
\* of transparency are asked.
Judge ==
    /\ verdict = "draft"
    /\ LET m == Manifest(raw)
       IN IF Throws(raw) THEN verdict' = "threw" /\ manifest' = None
          ELSE IF ~Accepts(raw, m) THEN verdict' = "refused" /\ manifest' = None
          ELSE verdict' = (IF Transparent(m) THEN "accepted" ELSE "opaque") /\ manifest' = m
    /\ UNCHANGED <<raw, edits, hello, bound>>

-----------------------------------------------------------------------------
(* Binding the service.                                                    *)

\* A peer that declares nothing speaks protocol 0.
EffectiveProtocol(declared) == IF declared = Absent THEN 0 ELSE declared

EvaluateCompat(own, floor, peer) ==
    IF peer < floor THEN "peer too old" ELSE IF peer > own THEN "self too old" ELSE "compatible"

JudgeHello(declared) ==
    EvaluateCompat(ServiceProtocol, ServiceFloor, EffectiveProtocol(declared))

\* The same operations, each announced once.
OpsMatch(announced, declared) == IsInjective(announced) /\ Range(announced) = declared

\* ContractRequirement::matches.
Matches(requirement, provider) ==
    requirement.id = provider.id /\ RustSatisfies(provider.version, requirement.requirement)

Hello(frame) ==
    /\ verdict = "accepted" /\ manifest.service # Absent /\ hello = None
    /\ hello' = frame
    /\ bound' = /\ JudgeHello(frame.protocol) = "compatible"
                /\ Matches(manifest.service.interface, frame.interface)
                /\ OpsMatch(frame.ops, ServiceOps(manifest.commands))
    /\ UNCHANGED <<raw, edits, verdict, manifest>>

Next ==
    \/ Declare
    \/ Judge
    \/ \E frame \in Hellos : Hello(frame)

Spec == Init /\ [][Next]_vars

-----------------------------------------------------------------------------
(* Properties *)

\* As many of the numbers as ^ or ~ keeps.
SameFamily(operator, v, w) ==
    \A i \in 1 .. 3 :
        (operator = "~" /\ i = 3) \/ (operator = "^" /\ \E j \in 1 .. i - 1 : w.core[j] # 0)
        \/ v.core[i] = w.core[i]

\* One of its numbers is one more, what follows it is nothing.
Successors(w) ==
    {Version([j \in 1 .. 3 |-> IF j < i THEN w.core[j] ELSE IF j = i THEN w.core[j] + 1 ELSE 0], <<>>) :
        i \in 1 .. 3}

\* The requirements a manifest can have on its service.
Declared == {s.interface.requirement : s \in {x \in Services \ {Absent} : ServiceOk(x)}}

\* The ladder ascends, and has every version a hello or a clause names and, where
\* the clause keeps a family, the first releases after it.  A hello names what
\* ContractProviderRef::new takes for a version.
ASSUME LadderAssumption ==
    /\ Ladder \in Seq(Versions)
    /\ \A i, j \in DOMAIN Ladder : i < j => Precedes(Ladder[i], Ladder[j])
    /\ \A frame \in Hellos : LET v == frame.interface.version
                            IN v \in Range(Ladder) /\ IsStrictSemver(v)
    /\ \A range \in Declared : \A i \in DOMAIN range :
          /\ range[i].version \in Range(Ladder)
          /\ range[i].operator \in {"^", "~"} =>
                \A u \in Successors(range[i].version) :
                    SameFamily(range[i].operator, u, range[i].version) \/ u \in Range(Ladder)

\* The place of a version.
Rung(v) == CHOOSE i \in DOMAIN Ladder : Ladder[i] = v

Accepted == verdict = "accepted"

\* The commands a user or the clock can set off without the plugin's own code.
Offered(m) ==
    {a.command : a \in Range(m.headerActions)} \cup {t.command : t \in Range(m.statusItems)}
    \cup {s.command : s \in Range(Given(m.schedules))}

\* Behind everything an accepted manifest offers there is someone to do it: its
\* own code where it has an entry, else an operation of the bound binary, which
\* has no others.  And its defaults pass the check every later value must pass; a
\* number's bounds are the one thing the parser does not hold against a default.
OfferedIsCarriedOut == Accepted =>
    /\ Offered(manifest) \subseteq {c.name : c \in Range(manifest.commands)}
    /\ bound => Range(hello.ops) = ServiceOps(manifest.commands)
    /\ manifest.entry = "null" =>
          /\ manifest.service # Absent
          /\ bound => \A c \in Range(manifest.commands) : c.name \in Range(hello.ops)
    /\ \A s \in Range(Given(manifest.configuration)) :
          s.type # "number" => ValidateSettingValue(s, s.default)

\* What it means that an entry lacks a field, and what of a field means its lack.
Meant(f, w, k) ==
    \/ f \in {"entry", "returns"} /\ w = "absent" /\ k = "good"
    \/ f \in {"transparent", "nativeSurface", "webRtc"} /\ w = "absent" /\ k = "false"
    \/ f \in {"requiresNativeChildWebview", "requiresEngineModules", "template"}
       /\ w = "false" /\ k = "absent"
    \/ f = "surfaces" /\ w = Absent /\ k = <<"side">>
    \/ f = "subscribe" /\ w = Absent /\ k = <<>>

\* A value in a field: what was written there, a text without space around it, or
\* what was meant.
ValueKept(f, w, k) ==
    k = w \/ Meant(f, w, k) \/ (f # "extra" /\ w = "padded" /\ k = "good")

PartKept(w, k) ==
    DOMAIN k = DOMAIN w /\ \A f \in DOMAIN w : ValueKept(f, w[f], k[f])

ListKept(w, k) == Len(k) = Len(w) /\ \A i \in DOMAIN w : PartKept(w[i], k[i])

\* What an entry consists of is kept with it.
FieldKept(f, w, k) ==
    \/ k = w
    \/ f = "trigger" /\ PartKept(w, k)
    \/ f = "ensure" /\ PartKept(w, k)
    \/ f = "params" /\ ListKept(Given(w), Given(k))
    \/ f = "labels" /\ Len(k) = Len(w) /\ \A i \in DOMAIN w : ValueKept(f, w[i], k[i])
    \/ f \notin {"trigger", "ensure", "params", "labels"} /\ ValueKept(f, w, k)

EntryKept(w, k) == DOMAIN k = DOMAIN w /\ \A f \in DOMAIN w : FieldKept(f, w[f], k[f])

EachKept(w, k) == Len(k) = Len(w) /\ \A i \in DOMAIN w : EntryKept(w[i], k[i])

\* Origins are kept in their canonical form.
Origins(list) == {o.origin : o \in Range(Given(list))}

PolicyKept(w, k) ==
    IF w = Absent THEN k.navigation = <<>> /\ k.iframe = <<>> /\ k.webRtc = "false"
    ELSE /\ Origins(k.navigation) = Origins(w.navigation)
         /\ Origins(k.iframe) = Origins(w.iframe)
         /\ ValueKept("webRtc", w.webRtc, k.webRtc)

\* Every part of a document is in its manifest, and there is nothing else.
WhollyKept(w, m) ==
    /\ \A list \in {"libraries", "configuration", "views", "commands", "overlays",
                    "headerActions", "statusItems", "iconSets", "fileViewers", "nodes",
                    "programs", "schedules"} : EachKept(Given(w[list]), Given(m[list]))
    /\ \A list \in {"implements", "consumes", "permissions", "events"} :
          Given(m[list]) = Given(w[list])
    /\ \A f \in {"id", "name", "version", "description", "author", "renamedFrom",
                 "appVersionRequirement", "requiresEngine", "requiresNativeChildWebview",
                 "requiresEngineModules", "template", "entry"} : ValueKept(f, w[f], m[f])
    /\ m.runtimeDependencies = w.runtimeDependencies
    /\ PolicyKept(w.runtime, m.runtime)
    /\ \A part \in {"service", "skill"} :
          IF w[part] = Absent THEN m[part] = Absent ELSE PartKept(w[part], m[part])

\* A document as parseManifest reads it, for which four things are not there, or
\* something else: a view with a blank icon, a further key of the skill and of a
\* trigger, and a description or a label of a setting that is no text.
BlankIcon(v) == v.icon # "absent" /\ ~Filled(v.icon)

ReadSetting(s) ==
    [s EXCEPT !.description = AsText(@),
              !.labels = IF @ = Absent THEN @ ELSE [i \in DOMAIN @ |-> AsText(@[i])]]

ReadSchedule(s) == [s EXCEPT !.trigger.extra = FALSE]

ReadViews(list) == At(list, {i \in DOMAIN list : ~BlankIcon(list[i])})

Read(doc) ==
    [doc EXCEPT
        !.views = ReadViews(Given(@)),
        !.configuration = [i \in DOMAIN Given(@) |-> ReadSetting(Given(@)[i])],
        !.schedules = [i \in DOMAIN Given(@) |-> ReadSchedule(Given(@)[i])],
        !.skill = IF @ = Absent THEN @ ELSE [@ EXCEPT !.extra = FALSE]]

\* parseManifest takes no part of a document and no other meaning than the author
\* wrote down, but for the four things it does not read; and what it filled in and
\* trimmed is accepted again, and parsed to itself.
AcceptedIsKept == manifest # None =>
    LET again == Manifest(manifest)
    IN /\ WhollyKept(Read(raw), manifest)
       /\ again = manifest /\ ~Throws(manifest) /\ Accepts(manifest, again)

\* A clause read off the ladder: ^ and ~ go up to the first release of another
\* family.
OnLadder(clause, v) ==
    LET here == Rung(v)
        from == Rung(clause.version)
        others == {i \in from .. Len(Ladder) : Ladder[i].pre = <<>>
                                   /\ ~SameFamily(clause.operator, Ladder[i], clause.version)}
    IN CASE clause.operator \in {"^", "~"} -> here >= from /\ \A i \in others : here < i
         [] clause.operator = ">=" -> here >= from
         [] clause.operator = ">" -> here > from
         [] clause.operator = "<=" -> here <= from
         [] clause.operator = "<" -> here < from
         [] OTHER -> here = from

\* Of every requirement a manifest got past the TypeScript parser the Rust host, that
\* compares and counts in digits, and Go, that compares texts, say what the order of
\* versions says; TypeScript says the same, but matches nothing where the release
\* after a family is too long to be a version.
RangesAgree == hello # None =>
    LET v == hello.interface.version
        range == manifest.service.interface.requirement
        inside == \A i \in DOMAIN range : OnLadder(range[i], v)
        named == \E i \in DOMAIN range :
                     range[i].version.pre # <<>> /\ range[i].version.core = v.core
        readable == \A i \in DOMAIN range : BoundReadable(range[i])
    IN /\ RustSatisfies(v, range) = (inside /\ (v.pre = <<>> \/ named))
       /\ DependencyRequirementSatisfied(v, range) = RustSatisfies(v, range)
       /\ SemverSatisfies(v, range) = (RustSatisfies(v, range) /\ readable)
=============================================================================
