----------------------------- MODULE ServerCreate -----------------------------
(***************************************************************************)
(* One server_create, step by step: the views are taken out of the         *)
(* configuration, each gets an entry in the list of callback scripts and   *)
(* an HttpPath that points to it; wilton_Server_create reads the rest of   *)
(* the configuration, loads the partials, builds the native server, hands  *)
(* it a handler for every view and document root and starts it; then the   *)
(* server is registered.  Any step may fail, and what the steps before it  *)
(* made is undone.  Pool threads serve requests as soon as it listens.     *)
(***************************************************************************)
EXTENDS ServerConfig, FiniteSets

CONSTANTS
    Inputs,     \* configurations given by scripts, as JSON
    Disks,      \* what is on the disk
    MaxPaths,   \* bound of paths_len: UInt16Max
    WSTexts,    \* the texts that begin with "WS"
    Workers,    \* pool threads of the native server
    app,        \* the thread that calls server_create
    entry,      \* the address of the server entry
    None        \* no entry

ASSUME AppAssumption == app \notin Workers /\ entry # None
ASSUME PathsAssumption == MaxPaths \in Nat

(* The fields of objects and the elements of arrays are lists.             *)
IsList(s) == s \in Seq(Range(s))

ASSUME ListsAssumption ==
    \A json \in Inputs :
        /\ IsList(Fields(json))
        /\ \A i \in DOMAIN Fields(json) : IsArray(Fields(json)[i].val) =>
              /\ IsList(Fields(json)[i].val.elements)
              /\ \A j \in DOMAIN Fields(json)[i].val.elements :
                    LET inner == Fields(Fields(json)[i].val.elements[j]) IN
                    /\ IsList(inner)
                    /\ \A k \in DOMAIN inner :
                          IsArray(inner[k].val) => IsList(inner[k].val.elements)

VARIABLES
    data,       \* the configuration given
    disk,
    pc,         \* the step the call comes to
    views,      \* taken out of the configuration
    conf,       \* what is left of it: JSON, then the record read from it
    ctx,        \* owner of the callback scripts: "none", "call", "entry"
    scripts,    \* the list: address -> view
    paths,      \* HttpPath objects that live: <<[view, script], ...>>
    partials,   \* names of the templates loaded
    native,     \* "none", "built", "listening"
    routes,     \* handlers the native server was given, in order
    serving,    \* the route a worker serves
    rreg        \* workers whose request handle is in the request registry

creation == <<pc, views, conf, ctx, scripts, paths, partials, native, routes>>
vars == <<data, disk, creation, serving, rreg>>

NoRoute == 0

Init ==
    /\ data \in Inputs
    /\ disk \in Disks
    /\ pc = "extract"
    /\ views = <<>>
    /\ conf = ServerDefault
    /\ ctx = "none"
    /\ scripts = <<>>
    /\ paths = <<>>
    /\ partials = {}
    /\ native = "none"
    /\ routes = <<>>
    /\ serving = [w \in Workers |-> NoRoute]
    /\ rreg = {}

-----------------------------------------------------------------------------
(* extract_and_delete_views: the first field of that name; a second one    *)
(* stays in, and is an unknown field of the configuration.                 *)

NoScript == [type |-> "null"]
ViewDefault == [method |-> "", path |-> "", callbackScript |-> NoScript]

(* check_json_callback_script of wilton_core: refuses what cannot be run.  *)
IsScript(v) == v.type = "script"

ReadView(view, fi) ==
    CASE fi.name \in {"method", "path"} -> Overwrite(view, fi, IsText(fi.val))
      [] fi.name = "callbackScript" /\ IsScript(fi.val) ->
            [view EXCEPT !.callbackScript = fi.val]
      [] OTHER -> Refused

HttpView(json) ==
    IF json.type = "object" THEN Parse(json, ViewDefault, ReadView) ELSE Refused

ViewFields == {i \in DOMAIN Fields(data) : Fields(data)[i].name = "views"}
FirstViews == {i \in ViewFields : \A j \in ViewFields : i <= j}

ViewsAt(i) == Elements(Fields(data)[i].val, HttpView)
ViewsFit(i) ==
    /\ IsArray(Fields(data)[i].val)
    /\ \A j \in DOMAIN ViewsAt(i) : ViewsAt(i)[j] # Refused

Fails == pc' = "failed" /\ UNCHANGED <<views, conf, ctx, scripts, paths, partials,
                                       native, routes>>

ExtractFails ==
    /\ pc = "extract"
    /\ data.type = "object" => \A i \in FirstViews : ~ViewsFit(i)
    /\ Fails

Extract ==
    /\ pc = "extract"
    /\ data.type = "object"
    /\ \E i \in FirstViews :
          /\ ViewsFit(i)
          /\ views' = ViewsAt(i)
          /\ conf' = [type |-> "object", fields |-> RemoveAt(Fields(data), i)]
    /\ ctx' = "call"
    /\ pc' = "paths"
    /\ UNCHANGED <<scripts, paths, partials, native, routes>>

-----------------------------------------------------------------------------
(* create_paths.                                                           *)

(* Mutant: the scripts are kept in a vector, which moves when it grows.    *)
AddCallbackMoves(i) ==
    [a \in (i .. 2 * i - 1) |-> a - i + 1]

(* server_ctx::add_callback: a new node at the end of the list.            *)
AddCallback(i) ==
    [a \in DOMAIN scripts \cup {i} |-> IF a = i THEN i ELSE scripts[a]]

NextPath == Len(paths) + 1

(* wilton_HttpPath_create refuses an empty method or path.                 *)
PathFails ==
    /\ pc = "paths"
    /\ NextPath <= Len(views)
    /\ views[NextPath].method = "" \/ views[NextPath].path = ""
    /\ scripts' = AddCallback(NextPath)
    /\ pc' = "unwind"
    /\ UNCHANGED <<views, conf, ctx, paths, partials, native, routes>>

CreatePath ==
    /\ pc = "paths"
    /\ NextPath <= Len(views)
    /\ views[NextPath].method # "" /\ views[NextPath].path # ""
    /\ scripts' = AddCallback(NextPath)
    /\ \E a \in DOMAIN scripts' :
          /\ scripts'[a] = NextPath
          /\ paths' = Append(paths, [view |-> NextPath, script |-> a])
    /\ UNCHANGED <<pc, views, conf, ctx, partials, native, routes>>

PathsDone ==
    /\ pc = "paths"
    /\ NextPath > Len(views)
    /\ pc' = "server"
    /\ UNCHANGED <<views, conf, ctx, scripts, paths, partials, native, routes>>

-----------------------------------------------------------------------------
(* wilton_Server_create and the constructor of sserver::impl.              *)

Unwinds ==
    /\ pc' = "unwind"
    /\ native' = "none"
    /\ routes' = <<>>
    /\ partials' = {}
    /\ UNCHANGED <<views, conf, ctx, scripts, paths>>

(* Mutant: what was read is thrown away.                                   *)
ReadConfForgets ==
    /\ pc = "server"
    /\ Len(paths) <= MaxPaths
    /\ ServerConf(conf) # Refused
    /\ pc' = "partials"
    /\ UNCHANGED <<conf, views, ctx, scripts, paths, partials, native, routes>>

ReadConf ==
    /\ pc = "server"
    /\ Len(paths) <= MaxPaths
    /\ ServerConf(conf) # Refused
    /\ conf' = ServerConf(conf)
    /\ pc' = "partials"
    /\ UNCHANGED <<views, ctx, scripts, paths, partials, native, routes>>

ConfRefused ==
    /\ pc = "server"
    /\ Len(paths) > MaxPaths \/ ServerConf(conf) = Refused
    /\ Unwinds

(* load_partials: the files of that extension in every directory, none     *)
(* twice under one name.                                                   *)
Templates(dir) == {f \in disk.listing[dir] : f.ext = ".mustache"}

PartialsFit(dirs) ==
    /\ \A i \in DOMAIN dirs : dirs[i] \in disk.dirs
    /\ \A i, j \in DOMAIN dirs : \A f \in Templates(dirs[i]), g \in Templates(dirs[j]) :
          f.name = g.name => i = j

LoadPartials ==
    LET dirs == conf.mustache.partialsDirs IN
    /\ pc = "partials"
    /\ PartialsFit(dirs)
    /\ partials' = UNION {{f.name : f \in Templates(dirs[i])} : i \in DOMAIN dirs}
    /\ pc' = "native"
    /\ UNCHANGED <<views, conf, ctx, scripts, paths, native, routes>>

(* The native server checks the address and the key files.                 *)
BuildNative ==
    /\ pc = "native"
    /\ native' = "built"
    /\ pc' = "handlers"
    /\ UNCHANGED <<views, conf, ctx, scripts, paths, partials, routes>>

Route(kind, view, script) == [kind |-> kind, view |-> view, script |-> script]

(* Any method that begins with WS, whether such a method exists or not.    *)
KindOf(view) == IF view.method \in WSTexts THEN "websocket" ELSE "http"

AddHandler ==
    LET pa == paths[Len(routes) + 1] IN
    /\ pc = "handlers"
    /\ Len(routes) < Len(paths)
    /\ routes' = Append(routes, Route(KindOf(views[pa.view]), pa.view, pa.script))
    /\ UNCHANGED <<pc, views, conf, ctx, scripts, paths, partials, native>>

Redirect ==
    IF conf.rootRedirectLocation = "" THEN <<>> ELSE << Route("redirect", 0, 0) >>

AddRedirect ==
    /\ pc = "handlers"
    /\ Len(routes) = Len(paths)
    /\ routes' = routes \o Redirect
    /\ pc' = "roots"
    /\ UNCHANGED <<views, conf, ctx, scripts, paths, partials, native>>

NextRoot == Len(routes) - Len(paths) - Len(Redirect) + 1

RootKind(dr) ==
    CASE dr.dirPath # "" -> "dir"
      [] dr.dirPath = "" /\ dr.zipPath # "" -> "zip"
      [] OTHER -> "loader"

(* Mutant: only a directory is checked.                                    *)
RootFitsDirOnly(dr) == RootKind(dr) = "dir" => dr.dirPath \in disk.dirs

RootFits(dr) ==
    CASE RootKind(dr) = "dir" -> dr.dirPath \in disk.dirs
      [] RootKind(dr) = "zip" -> dr.zipPath \in disk.files
      [] OTHER -> dr.useResourceLoader

AddRoot ==
    /\ pc = "roots"
    /\ NextRoot <= Len(conf.documentRoots)
    /\ RootFits(conf.documentRoots[NextRoot])
    /\ routes' = Append(routes, Route(RootKind(conf.documentRoots[NextRoot]), 0, 0))
    /\ UNCHANGED <<pc, views, conf, ctx, scripts, paths, partials, native>>

(* Mutant: the native server is started before the document roots.         *)
StartEarly ==
    /\ pc = "roots"
    /\ native' = "listening"
    /\ pc' = IF NextRoot > Len(conf.documentRoots) THEN "register" ELSE pc
    /\ UNCHANGED <<views, conf, ctx, scripts, paths, partials, routes>>

Start ==
    /\ pc = "roots"
    /\ NextRoot > Len(conf.documentRoots)
    /\ native' = "listening"
    /\ pc' = "register"
    /\ UNCHANGED <<views, conf, ctx, scripts, paths, partials, routes>>

(* A wrong address, key file, method or zip file, a template that cannot   *)
(* be read, a port in use: external, so at any step of the constructor.    *)
BuildFails ==
    /\ pc \in {"partials", "native", "handlers", "roots"}
    /\ Unwinds

-----------------------------------------------------------------------------
(* server_create again.                                                    *)

(* Mutant: the failed call leaves its paths, as plain pointers would.      *)
UnwindPathsKept ==
    /\ pc = "unwind"
    /\ pc' = "unwind scripts"
    /\ UNCHANGED <<views, conf, ctx, scripts, paths, partials, native, routes>>

(* The locals are destroyed in reverse order: first the paths ...          *)
UnwindPaths ==
    /\ pc = "unwind"
    /\ paths' = <<>>
    /\ pc' = "unwind scripts"
    /\ UNCHANGED <<views, conf, ctx, scripts, partials, native, routes>>

(* ... then the list of scripts.                                           *)
UnwindScripts ==
    /\ pc = "unwind scripts"
    /\ ctx' = "none"
    /\ scripts' = <<>>
    /\ pc' = "failed"
    /\ UNCHANGED <<views, conf, paths, partials, native, routes>>

(* Mutant: the list is copied into the entry, not moved.                   *)
RegisterCopies ==
    /\ pc = "register"
    /\ ctx' = "entry"
    /\ scripts' = [a \in {Len(views) + i : i \in DOMAIN views} |-> a - Len(views)]
    /\ pc' = "return"
    /\ UNCHANGED <<views, conf, paths, partials, native, routes>>

Register ==
    /\ pc = "register"
    /\ ctx' = "entry"
    /\ pc' = "return"
    /\ UNCHANGED <<views, conf, scripts, paths, partials, native, routes>>

Return ==
    /\ pc = "return"
    /\ paths' = <<>>
    /\ pc' = "done"
    /\ UNCHANGED <<views, conf, ctx, scripts, partials, native, routes>>

-----------------------------------------------------------------------------
(* A pool thread with a request for a view: its callback registers the     *)
(* request, then reads the script.                                         *)

Serve(w, i) ==
    /\ native = "listening"
    /\ serving[w] = NoRoute
    /\ routes[i].kind \in {"http", "websocket"}
    /\ serving' = [serving EXCEPT ![w] = i]
    /\ rreg' = rreg \cup {w}
    /\ UNCHANGED <<data, disk, creation>>

ScriptOf(i) == views[scripts[routes[i].script]].callbackScript

(* Mutant: a script that was run does not take the handle back.            *)
ServedKeeps(w) ==
    /\ serving[w] # NoRoute
    /\ serving' = [serving EXCEPT ![w] = NoRoute]
    /\ UNCHANGED <<data, disk, creation, rreg>>

(* The script ran, well or not: the handle is taken back.                  *)
Served(w) ==
    /\ serving[w] # NoRoute
    /\ ScriptOf(serving[w]) # NoScript
    /\ serving' = [serving EXCEPT ![w] = NoRoute]
    /\ rreg' = rreg \ {w}
    /\ UNCHANGED <<data, disk, creation>>

(* The view had no script: the arguments cannot be added to the null value *)
(* that stands for it, and the callback throws into the native server.     *)
ServedThrows(w) ==
    /\ serving[w] # NoRoute
    /\ ScriptOf(serving[w]) = NoScript
    /\ serving' = [serving EXCEPT ![w] = NoRoute]
    /\ UNCHANGED <<data, disk, creation, rreg>>

-----------------------------------------------------------------------------
PathStep == CreatePath \/ PathFails \/ PathsDone

NativeStep ==
    \/ ReadConf \/ ConfRefused \/ LoadPartials \/ BuildNative
    \/ AddHandler \/ AddRedirect \/ AddRoot \/ Start \/ BuildFails

UnwindStep == UnwindPaths \/ UnwindScripts

CreateStep ==
    /\ Extract \/ ExtractFails \/ PathStep \/ NativeStep \/ UnwindStep
         \/ Register \/ Return
    /\ UNCHANGED <<data, disk, serving, rreg>>

Next ==
    \/ CreateStep
    \/ \E w \in Workers :
          Served(w) \/ ServedThrows(w) \/ \E i \in DOMAIN routes : Serve(w, i)

Spec == Init /\ [][Next]_vars

-----------------------------------------------------------------------------
(* Properties.                                                             *)

(* Every variable keeps to the values the code gives it.                   *)
TypeOK ==
    /\ pc \in {"extract", "paths", "server", "partials", "native", "handlers", "roots",
               "register", "return", "unwind", "unwind scripts", "done", "failed"}
    /\ \A i \in DOMAIN views : DOMAIN views[i] = DOMAIN ViewDefault
    /\ pc \in {"partials", "native", "handlers", "roots", "register", "return", "done"}
          => DOMAIN conf = DOMAIN ServerDefault
    /\ ctx \in {"none", "call", "entry"}
    /\ \A a \in DOMAIN scripts : scripts[a] \in DOMAIN views
    /\ \A i \in DOMAIN paths : paths[i].view \in DOMAIN views
    /\ native \in {"none", "built", "listening"}
    /\ serving \in [Workers -> {NoRoute} \cup DOMAIN routes]
    /\ rreg \subseteq Workers

(* What is read from a record does not depend on where its fields stand:   *)
(* it is refused exactly when one of its fields alone is refused, the last *)
(* of several fields of a name counts, and the list a record may have is   *)
(* put together in the order it is given, after what is there by default.  *)
Alone(fi) == [type |-> "object", fields |-> <<fi>>]

FieldByField(json, default, Read(_, _), list) ==
    LET fields == Fields(json)
        whole == Parse(json, default, Read)
        One(fi) == Parse(Alone(fi), default, Read)
        Added(fi) == SubSeq(One(fi)[list], Len(default[list]) + 1, Len(One(fi)[list]))
        listed[n \in 0 .. Len(fields)] ==
            IF n = 0 THEN default[list]
            ELSE IF fields[n].name = list THEN listed[n - 1] \o Added(fields[n])
                                          ELSE listed[n - 1]
    IN  /\ whole = Refused <=> \E i \in DOMAIN fields : One(fields[i]) = Refused
        /\ whole # Refused => whole[list] = listed[Len(fields)]
        /\ whole # Refused => \A name \in DOMAIN default \ {list} :
              LET given == {i \in DOMAIN fields : fields[i].name = name} IN
              \/ given = {} /\ whole[name] = default[name]
              \/ \E i \in given : /\ \A j \in given : j <= i
                                 /\ whole[name] = One(fields[i])[name]

RootFields(fields) == {fi \in Range(fields) : fi.name = "documentRoots" /\ IsArray(fi.val)}
Roots(json) == UNION {Range(fi.val.elements) : fi \in RootFields(Fields(json))}

ConfigAsDescribed ==
    pc = "server" =>
        /\ FieldByField(conf, ServerDefault, ReadServer, "documentRoots")
        /\ \A root \in Roots(conf) : FieldByField(root, RootDefault, ReadRoot, "mimeTypes")

(* A server listens only with everything it was configured with: its       *)
(* configuration fits the disk, each view, the redirect and each document  *)
(* root has its handler, and the partials of all directories are loaded.   *)
ListeningComplete ==
    native = "listening" =>
        /\ \A i \in DOMAIN views : views[i].method # "" /\ views[i].path # ""
        /\ [i \in DOMAIN routes |-> <<routes[i].kind, routes[i].view>>] =
                 [i \in DOMAIN views |-> <<KindOf(views[i]), i>>]
              \o (IF conf.rootRedirectLocation = "" THEN <<>> ELSE << <<"redirect", 0>> >>)
              \o [i \in DOMAIN conf.documentRoots |->
                     <<RootKind(conf.documentRoots[i]), 0>>]
        /\ \A i \in DOMAIN conf.documentRoots :
              LET dr == conf.documentRoots[i] IN
              CASE dr.dirPath # "" -> dr.dirPath \in disk.dirs
                [] dr.dirPath = "" /\ dr.zipPath # "" -> dr.zipPath \in disk.files
                [] OTHER -> dr.useResourceLoader
        /\ \A i \in DOMAIN conf.mustache.partialsDirs :
              LET dir == conf.mustache.partialsDirs[i] IN
              dir \in disk.dirs /\ \A f \in Templates(dir) : f.name \in partials

(* A handler's pointer leads to the script of its own view as long as a    *)
(* worker may read it: while later views are added, while the list moves   *)
(* into the server entry, and after the paths are gone.                    *)
ScriptPointersHold ==
    \A i \in DOMAIN routes : routes[i].view # 0 =>
        /\ routes[i].script \in DOMAIN scripts
        /\ scripts[routes[i].script] = routes[i].view

(* A call that has ended left no HttpPath; one that failed left nothing    *)
(* running and no script, one that worked left a server that is registered *)
(* with its scripts.                                                       *)
NothingLeftBehind ==
    /\ pc \in {"done", "failed"} => paths = <<>>
    /\ pc = "failed" => ctx = "none" /\ scripts = <<>> /\ native = "none" /\ routes = <<>>
    /\ pc = "done" => ctx = "entry" /\ native = "listening"

(* A handler that ends leaves its request handle registered exactly when   *)
(* the view it was added for had no callback script: the other views are   *)
(* found through their pointers and take the handle back.                  *)
OnlyScriptlessLeavesHandle ==
    [][\A w \in Workers : serving[w] # NoRoute /\ serving'[w] = NoRoute =>
          (w \in rreg' <=> views[routes[serving[w]].view].callbackScript = NoScript)]_vars

(* Seen from the registry of servers, all of this is one server_create of  *)
(* the module ServerRegistry.                                              *)
CallPc == CASE pc \in {"extract", "failed", "return", "done"} -> "script"
            [] pc = "register" -> "register"
            [] OTHER -> "create"

Registry == INSTANCE ServerRegistry WITH
    Apps <- {app},
    Entries <- {entry},
    sreg <- IF ctx = "entry" THEN {entry} ELSE {},
    native <- [e \in {entry} |-> IF native = "listening" THEN "listening" ELSE "none"],
    scripts <- IF ctx = "none" THEN {} ELSE {entry},
    serving <- [w \in Workers |-> IF serving[w] = NoRoute THEN None ELSE entry],
    pc <- [c \in Workers \cup {app} |-> IF c = app THEN CallPc ELSE "script"],
    op <- [c \in Workers \cup {app} |->
              IF c = app /\ CallPc # "script"
              THEN [name |-> "server_create", entry |-> entry]
              ELSE [name |-> "none", entry |-> None]],
    twice <- FALSE,
    exit <- "no",
    fault <- [kind |-> "none", entry |-> None]

RegistryCreate == Registry!Spec
=============================================================================
