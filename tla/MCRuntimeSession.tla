-------------------------- MODULE MCRuntimeSession --------------------------
(***************************************************************************)
(* An instance of RuntimeSession for TLC: the endpoints of a role exercise *)
(* one part of the session, commands of a controller, the provider of a    *)
(* preview, what a view may ask and address, the streams of a file viewer. *)
(***************************************************************************)
EXTENDS RuntimeSession, TLC

CONSTANTS i1, i2, i3, i4, t1, t2, s1, s2, res1, n1, n2, n3, f1, f2

IdSymmetry == Permutations(Ids)

RequestMethods ==
    {"runtime.bootstrap", "context.update", "provider.mount", "provider.update",
     "provider.unmount", "command.execute", "plugin-command.invoke",
     "plugin-command.result", "plugin-command.progress", "plugin-command.cancel",
     "lifecycle.ready", "runtime.fault", "runtime.teardown"}

AuthorityMethods ==
    {"runtime.bootstrap", "event.subscribe", "event.unsubscribe", "event.deliver",
     "resource.open", "resource.release", "dom.query", "dom.snapshot",
     "dom.measure", "dom.input", "dom.revision"}

StreamMethods ==
    {"runtime.bootstrap", "stream.open", "stream.chunk", "stream.ack",
     "stream.close", "runtime.teardown"}

MethodsOfRole == [r \in Roles |->
    CASE r = "view" -> AuthorityMethods
      [] r = "file-viewer" -> StreamMethods
      [] OTHER -> RequestMethods]

SeqOfRole == [r \in Roles |->
    CASE r = "view" -> 4 [] r = "file-viewer" -> 6 [] OTHER -> 5]
=============================================================================
