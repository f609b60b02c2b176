-------------------------- MODULE MCPluginAdmission -------------------------
(***************************************************************************)
(* An instance of PluginAdmission for TLC.  Authors start from a plugin    *)
(* that contributes everything, from one without code of its own, and from *)
(* these with other requirements on the service; they change one entry or  *)
(* one section at a time.                                                  *)
(***************************************************************************)
EXTENDS PluginAdmission

\* Every way to change one field of an entry.
Changed(e, fields) ==
    UNION {{[e EXCEPT ![f] = x] : x \in fields[f]} : f \in DOMAIN fields}

Texts == {"padded", "blank", "bad map", "absent"}

Strings == {"padded", "blank", "absent"}

\* A list of one entry, as it is or changed, of none, twice the same, and no list.
ListsOf(e, fields) ==
    {<<x>> : x \in Changed(e, fields)} \cup {Absent, Bad, <<>>, <<e>>, <<Bad>>, <<e, e>>}

V(major, minor, patch) == Version(<<major, minor, patch>>, <<>>)

Pre(major, minor, patch, ids) == Version(<<major, minor, patch>>, ids)

Rungs == <<V(0, 0, 9), V(0, 0, 10), V(0, 1, 0), V(0, 9, 0), V(0, 9, 9), V(0, 10, 0),
           Pre(1, 0, 0, <<Word(1)>>), Pre(1, 0, 0, <<Word(1), Numeric(9)>>),
           Pre(1, 0, 0, <<Word(1), Numeric(10)>>), Pre(1, 0, 0, <<Word(1), Word(2)>>),
           V(1, 0, 0), V(1, 0, 10), V(1, 1, 0), Pre(2, 0, 0, <<Word(1)>>), V(2, 0, 0), V(3, 0, 0),
           V(9, 0, 0), V(9, 1, 0), V(10, 0, 0), V(99, 0, 0), V(99, 1, 0), V(100, 0, 0)>>

Alpha == Pre(1, 0, 0, <<Word(1), Numeric(9)>>)

Boundaries == {V(0, 0, 9), V(0, 9, 0), Alpha, V(1, 0, 0), V(9, 0, 0), V(99, 0, 0)}

Clause(operator, v) == [operator |-> operator, version |-> v]

Ranges ==
    {<<Clause(o, v)>> : o \in Operators, v \in Boundaries}
    \cup {<<Clause(">=", v), Clause(o, w)>> :
             v \in {Alpha, V(1, 0, 0)}, o \in {"<", "<=", "^"},
             w \in {Pre(2, 0, 0, <<Word(1)>>), V(9, 0, 0)}}
    \cup {Star, <<Unclear>>, <<>>, <<Clause("^", V(1, 0, 0)), Unclear>>}

OneRange == <<Clause("=", V(1, 0, 0))>>

Needs(id, range) == [extra |-> FALSE, id |-> id, requirement |-> range]

ServiceOn(range) ==
    [extra |-> FALSE, interface |-> Needs("service", range), subscribe |-> <<"topic">>]

View == [extra |-> FALSE, id |-> "view", title |-> "good", icon |-> "good",
         surfaces |-> <<"tab">>, transparent |-> "absent", nativeSurface |-> "absent",
         status |-> <<"idle">>]

Param == [extra |-> FALSE, type |-> "good", description |-> "good", required |-> "true",
          enum |-> "absent"]

Coded == [extra |-> FALSE, name |-> "open", title |-> "good", danger |-> "absent",
          bind |-> "absent", description |-> "absent", triggers |-> "absent",
          params |-> Absent, returns |-> "absent"]

Served == [Coded EXCEPT !.name = "run", !.bind = "service", !.description = "good",
                        !.params = <<Param>>]

CommandFields ==
    [extra |-> {TRUE}, name |-> {"bad", "absent", "echo"}, title |-> Texts,
     danger |-> {"good", "bad"}, bind |-> {"absent", "service", "bad"},
     description |-> {"good", "padded", "blank", "absent"}, triggers |-> {"good", "bad"},
     params |-> {Absent, Bad, <<Bad>>} \cup {<<p>> : p \in Changed(Param,
         [extra |-> {TRUE}, type |-> {"bad"}, description |-> Strings,
          required |-> {"bad", "absent"}, enum |-> {"good", "padded", "bad"}])},
     returns |-> {"good", "padded", "blank"}]

CommandLists(others, last) ==
    {others \o <<c>> : c \in Changed(last, CommandFields) \cup {Served, Coded, Bad}}
    \cup {Absent, Bad, others}

Action == [extra |-> FALSE, id |-> "act", title |-> "good", icon |-> "good", command |-> "run"]

Item == [extra |-> FALSE, id |-> "item", title |-> "good", command |-> "run"]

Plan == [extra |-> FALSE, name |-> "nightly", command |-> "run", params |-> "absent",
         trigger |-> [extra |-> FALSE, variants |-> {"everyMs"}, value |-> "good"],
         timeoutMs |-> "absent", zombieBackstopMs |-> "absent"]

Overlay == [extra |-> FALSE, id |-> "over", title |-> "good", scope |-> "pane", capturesInput |-> "true"]

Icons == [extra |-> FALSE, id |-> "icons", title |-> "good"]

Viewer == [extra |-> FALSE, id |-> "viewer", extensions |-> "good", priority |-> "absent"]

Node == [extra |-> FALSE, id |-> "node", description |-> "absent", danger |-> "absent"]

Install == [extra |-> FALSE, bin |-> "good", install |-> "good"]

Program == [extra |-> FALSE, id |-> "prog", title |-> "good", kind |-> "view", path |-> "absent",
            view |-> "good", viewPlugin |-> "absent", viewContract |-> Absent,
            command |-> "absent", ensure |-> Install]

Library == [extra |-> FALSE, name |-> "good", bin |-> "tool", install |-> "good", label |-> "absent",
            observe |-> "absent", accept |-> "absent",
            reach |-> [variants |-> {"fetch"}, path |-> "good", sha256 |-> "good"]]

\* A text is a number, too.
Text(x) == [of |-> "string", value |-> x]

Number(n) == [of |-> "number", value |-> n]

Plain == [extra |-> FALSE, key |-> "depth", type |-> "number", default |-> Number(2), title |-> "good",
          description |-> "absent", enum |-> Absent, labels |-> Absent, min |-> 1, max |-> 3]

Chosen == [Plain EXCEPT !.type = "enum", !.default = Text(1), !.enum = <<1, 2>>,
                        !.labels = <<"good", "padded">>, !.min = Absent, !.max = Absent]

SettingFields ==
    [extra |-> {TRUE}, key |-> {"bad"}, type |-> Types \cup {"bad"},
     default |-> {Number(5), Text(1), Text(3), [of |-> "bad", value |-> 0]},
     title |-> Texts \cup {"number", "empty map"},
     description |-> Texts \cup {"number", "list", "null"}, enum |-> {Absent, Bad, <<>>, <<1>>},
     labels |-> {Absent, Bad, <<"good">>, <<"list", "number">>, <<"good", "null">>},
      min |-> {Absent, Bad, 4}, max |-> {Absent, Bad}]

Deps == [extra |-> FALSE, plugins |-> <<1>>, sidecars |-> <<1>>]

Origin(n, form, safe) == [origin |-> n, form |-> form, safe |-> safe]

Policy == [extra |-> FALSE, navigation |-> <<Origin(2, "canonical", TRUE), Origin(1, "spelled", TRUE)>>,
           iframe |-> Absent, webRtc |-> "absent"]

Permissions == <<"ui", "commands", "programs", "sidecar", "service", "ui:overlay:pane",
                 "ui:titlebar", "ui:statusbar">>

Without(p) == SelectSeq(Permissions, LAMBDA x : x # p)

Everything ==
    [extra |-> FALSE, id |-> "good", name |-> "good", version |-> "good", description |-> "good",
     author |-> "good", renamedFrom |-> "absent", appVersionRequirement |-> "good",
     requiresEngine |-> "absent", requiresNativeChildWebview |-> "absent",
     requiresEngineModules |-> "absent", template |-> "absent", entry |-> "good",
     runtime |-> Policy, runtimeDependencies |-> Deps, libraries |-> <<Library>>,
     service |-> ServiceOn(OneRange), implements |-> <<[extra |-> FALSE, id |-> "a", version |-> "good"]>>,
     consumes |-> <<Needs("a", OneRange)>>, configuration |-> <<Plain>>,
     permissions |-> Permissions, views |-> <<View>>, commands |-> <<Coded, Served>>,
     overlays |-> <<Overlay>>, headerActions |-> <<Action>>, statusItems |-> <<Item>>,
     iconSets |-> <<Icons>>, fileViewers |-> <<Viewer>>, nodes |-> <<Node>>,
     programs |-> <<Program>>, events |-> <<"topic">>, skill |-> [extra |-> FALSE, path |-> "good"],
     schedules |-> <<Plan>>]

NoCode ==
    [Everything EXCEPT !.entry = "null", !.views = <<>>, !.commands = <<Served>>, !.overlays = <<>>,
                       !.iconSets = <<>>, !.fileViewers = <<>>, !.nodes = <<>>, !.programs = <<>>]

\* Each range once; its documents are judged as they are.
AllStarts ==
    {[raw |-> Everything, edits |-> 1], [raw |-> NoCode, edits |-> 0]}
    \cup {[raw |-> [NoCode EXCEPT !.service = ServiceOn(r)], edits |-> MaxEdits] : r \in Ranges}

AllValues ==
    [extra |-> {TRUE}, id |-> {"bad"}, name |-> Texts \cup {"map"}, version |-> {"bad"}, description |-> Texts,
     author |-> Strings, renamedFrom |-> {"good", "bad"}, appVersionRequirement |-> {"bad"},
     requiresEngine |-> {"good", "bad"}, requiresNativeChildWebview |-> {"true", "false", "bad"},
     requiresEngineModules |-> {"bad"}, template |-> {"true"},
     entry |-> {"absent", "null", "good", "padded", "bad"},
     runtime |-> {Absent, Bad} \cup Changed(Policy,
         [extra |-> {TRUE}, webRtc |-> {"true", "bad"},
          navigation |-> {Bad, <<Origin(1, "canonical", FALSE)>>,
                          <<Origin(1, "canonical", TRUE), Origin(1, "spelled", TRUE)>>}]),
     runtimeDependencies |-> {Absent, Bad} \cup Changed(Deps,
         [extra |-> {TRUE}, plugins |-> {Absent, Bad, <<>>, <<Self>>, <<0>>, <<2, 1>>},
          sidecars |-> {Absent, <<1, 2>>}]),
     libraries |-> ListsOf(Library,
         [extra |-> {TRUE}, name |-> Strings, bin |-> {"bad"}, install |-> Strings,
          label |-> Texts \cup {"number"}, observe |-> {"good", "bad"}, accept |-> {"bad"},
          reach |-> {Absent, Bad} \cup {[variants |-> w, path |-> "good", sha256 |-> x] :
              w \in SUBSET {"vendor", "fetch", "command"}, x \in {"good", "bad"}}]),
     service |-> {Absent, Bad} \cup Changed(ServiceOn(OneRange),
         [extra |-> {TRUE}, interface |-> {Bad, Needs("bad", OneRange), Needs("a", OneRange)},
          subscribe |-> {Absent, Bad, <<"bad">>, <<"topic", "topic">>}]),
     implements |-> {Absent, Bad, <<Bad>>} \cup
         {<<[extra |-> FALSE, id |-> "a", version |-> "good"], [extra |-> FALSE, id |-> i, version |-> x]>> :
             i \in {"a", "b", "bad"}, x \in {"good", "bad"}},
     consumes |-> {<<Needs("a", OneRange), Needs(i, r)>> : i \in {"a", "b"}, r \in {Star, OneRange}},
     configuration |-> {<<x>> : x \in Changed(Plain, SettingFields) \cup Changed(Chosen, SettingFields)}
                       \cup {Absent, Bad, <<Plain, Plain>>, <<Chosen>>},
     permissions |-> {Absent, Bad, Permissions \o <<"bad">>, Permissions \o <<"ui">>}
                     \cup {Without(p) : p \in Range(Permissions)},
     views |-> ListsOf(View,
         [extra |-> {TRUE}, id |-> {"bad", "absent"}, title |-> Texts \cup {"map"}, icon |-> Strings,
          surfaces |-> {Absent, Bad, <<>>, <<"bad">>, <<"tab", "tab">>},
          transparent |-> {"true", "bad"}, nativeSurface |-> {"true", "bad"},
          status |-> {Absent, Bad, <<>>, <<"bad">>, <<"idle", "idle">>}]),
     commands |-> CommandLists(<<>>, Served) \cup CommandLists(<<Served>>, Coded),
     overlays |-> ListsOf(Overlay, [title |-> Texts, scope |-> {"screen", "bad"}, capturesInput |-> {"bad"}]),
     headerActions |-> ListsOf(Action, [extra |-> {TRUE}, id |-> {"bad"}, title |-> Texts, icon |-> Strings,
                                       command |-> {"open", "echo", "absent"}]),
     statusItems |-> ListsOf(Item, [title |-> Texts, command |-> {"open", "echo"}]),
     iconSets |-> ListsOf(Icons, [title |-> Texts]),
     fileViewers |-> ListsOf(Viewer, [id |-> {"bad"}, extensions |-> {"bad"}, priority |-> {"good", "bad"}]),
     nodes |-> ListsOf(Node, [id |-> {"bad"}, description |-> Texts, danger |-> {"true", "false"}]),
     programs |-> ListsOf(Program,
         [extra |-> {TRUE}, id |-> {"bad"}, title |-> Texts, kind |-> {"bad"}, path |-> Texts,
          view |-> Strings, viewPlugin |-> {"good", "bad"},
          viewContract |-> {Bad, Needs("a", OneRange), Needs("a", Star)}, command |-> Strings,
          ensure |-> {Absent, Bad} \cup Changed(Install,
              [extra |-> {TRUE}, bin |-> Strings, install |-> Strings])]),
     events |-> {Absent, Bad, <<"bad">>, <<"topic", "topic">>},
     skill |-> {Absent, Bad} \cup Changed([extra |-> FALSE, path |-> "good"],
         [extra |-> {TRUE}, path |-> Strings]),
     schedules |-> ListsOf(Plan,
         [extra |-> {TRUE}, name |-> {"bad"}, command |-> {"open", "echo", "blank"}, params |-> {"bad"},
          trigger |-> {Bad, [extra |-> TRUE, variants |-> {"cron"}, value |-> "padded"]}
              \cup {[extra |-> FALSE, variants |-> w, value |-> x] :
                  w \in SUBSET {"reconcile", "everyMs", "cron"}, x \in {"padded", "good"}},
          timeoutMs |-> {"bad"}, zombieBackstopMs |-> {"good"}])]

Frame(protocol, id, version, ops) ==
    [protocol |-> protocol, interface |-> [id |-> id, version |-> version], ops |-> ops]

\* Each version a clause may accept or refuse, and one thing wrong at a time.  The
\* text of 100.0.0 is too long for a version.
AllHellos ==
    {Frame(1, "service", v, <<"run">>) : v \in Range(Rungs) \ {V(3, 0, 0), V(100, 0, 0)}}
    \cup {Frame(p, "service", V(1, 0, 0), <<"run">>) : p \in {Absent, 2}}
    \cup {Frame(1, "service", V(1, 0, 0), ops) : ops \in {<<>>, <<"run", "run">>, <<"run", "open">>}}
    \cup {Frame(1, "other", V(1, 0, 0), <<"run">>)}
=============================================================================
