# wilton_server in TLA+

`wilton_server` embeds an HTTP and WebSocket server (staticlib_pion) into the
Wilton JavaScript runtime.  Scripts create servers and answer requests with
`wiltoncall` operations on integer handles; the server runs callback scripts on
its own pool threads.  This directory holds TLA+ models of that code, the TLC
runs that check them on small instances, and TLAPS proofs for every instance of
the safety of most components.

## The system

| Part | State it keeps | Operations |
| --- | --- | --- |
| request lifecycle: path callback (`wiltoncall_server.cpp` 206-257), handler lambdas (`sserver.cpp` 95-118), `request::impl` (`request.cpp`) | the atomic `state` (created, committed), the native response writer or WebSocket (a pointer that is moved away by whoever answers), status line | 11 request operations, `send_system_error`, `finish()` |
| handle registries (`unique_handle_registry`, in wilton_core, not in this repository) | a set of pointers; the handle is the pointer | `put`, `remove` |
| deferred answers: `response_writer.cpp`, `websocket.cpp`, `wilton_server.cpp` 437-501 | heap objects that own the native object | set metadata, send (deletes), close (deletes) |
| request payload: `request_payload_handler.hpp` | buffer, file, name, state (memory, file), limit | `operator()`, two getters, destructor |
| response stream sender: `response_stream_sender.hpp` | native writer, stream, finalizer, a 4096-byte buffer | `send`, `handle_write` as completion callback |
| server registry: `wiltoncall_server.cpp` 94-126, 269-395 | heap entries: native server and callback scripts | create, stop, broadcast, port query |
| header and query merging: `request.cpp` 262-311 | none between requests | `get_request_metadata` |
| mustache cache: `mustache_cache.hpp` | map of loaded templates under a mutex, references into it without | `get` |
| static document roots, root redirect (`handlers/`) | configuration, zip index | one call per request, which may start a stream |
| configuration (`conf/`, `http_path.hpp`) | none after start | constructors that read, check and default the fields |
| `server_create` and `sserver::impl` (`wiltoncall_server.cpp` 169-193, 269-297; `sserver.cpp` 54-151) | views, list of callback scripts, paths, partials, the native server and its handlers | a fixed sequence of steps, each of which may fail |
| shutdown | the static pointer of the server registry, its deleter | run by `exit()` while threads may be running |
| TLS set-up | - | calls of OpenSSL |

How they interact.  The native server takes a connection, feeds the body to a
payload handler and calls the handler lambda on a pool thread.  The lambda moves
the native response into a `request` on its stack, and calls the path callback,
which registers the address of that stack object as a handle, runs the callback
script with it, answers status 500 if the script failed, and removes the handle;
the lambda then calls `finish()`.  Every operation of a script takes the pointer
out of the registry, works on it and puts it back.  `send_later` and
`retain_websocket` move the native object to a heap object with a handle of its
own, which any thread may use after the request is gone.  Files and templates
are streamed by a sender that owns itself from one completion callback to the
next.  Server handles are taken out and put back the same way.

What is hard.
- Handles are addresses of stack frames that die and come back for the next
  request of the same thread; or heap addresses that are freed and used again.
- Taking a pointer out of a registry is the only mutual exclusion there is.
- The compare-and-swap of `state` decides who may move the native object away;
  code that only loads the state, or does not look at it, may find it gone.
- An operation may fail after it committed the request.
- `finish()`, the error answer and the script's own answer are three attempts to
  answer one request, in any combination.
- A deferred answer belongs to nobody while it is between two owners.
- The body may be spilled to disk and read back in any order, with disk errors.
- Completion callbacks: the buffer they share, the end of the stream on a
  multiple of its size, the finalizer that deletes the file.
- Servers are stopped while handlers run that point into memory the entry owns;
  a stop may be called by one of the handlers it waits for.
- A server serves before `server_create` has registered it, and its handlers
  point into a list that is still on the frame of that call.
- A template file may be rewritten while it is read, and its text is used after
  the lock is gone.
- At exit the registry goes while other threads still have servers in their hands.

`PROJECT.json` lists each such hazard at its line with the properties aimed at it.

## The modules

| Module | Models |
| --- | --- |
| `HandleRegistry` | the registry as the code uses it (external) |
| `RequestLifecycle` | requests, handles, scripts on several threads, deferred answers, errors, `finish()` |
| `RequestInvariant` | the inductive invariants of RequestLifecycle: `SInv`, and `IInv` for scripts that keep their handles to themselves |
| `ResponseContract` | abstract: what the client of a request is promised |
| `RequestPayload` | the payload handler of one request, on a disk that may fail |
| `ResponseStream` | one sender, its callbacks, its finalizer |
| `Responses` | how a response starts, composed with `ResponseStream` up to its end |
| `ServerRegistry` | create, stop, broadcast, port query by several callers; `exit()` |
| `ServerConfig` | how each configuration record is read from JSON |
| `ServerCreate` | one `server_create`, step by step, over a configuration and a disk |
| `MustacheCache` | the template cache, its lock, files that change |
| `TemplateStore` | abstract: what the cache promises |
| `RequestFields` | merging of headers and query parameters |
| `MCRequestLifecycle`, `MCResponses`, `MCServerCreate`, `MCRequestFields` | constants for TLC |
| `RequestProofs`, `PayloadProofs`, `StreamProofs`, `ServerProofs`, `CreateProofs`, `MustacheProofs`, `FieldsProofs` | theorems and proofs (TLAPS) |
| `FoldProofs` | induction over the fields of a JSON object and the names of a path, used by `CreateProofs` and `StreamProofs` |

Which composes which: `Responses` extends `ResponseStream`, `ServerCreate` extends
`ServerConfig`, `ServerRegistry` and `RequestLifecycle` extend `HandleRegistry`.
Three modules implement another through a refinement mapping: `RequestLifecycle`
implements `ResponseContract`, `ServerCreate` implements `ServerRegistry`,
`MustacheCache` implements `TemplateStore`.

Definitions whose comment begins with "Mutant" are variants of the code that a
plausible mistake would give.  No specification uses them: each property
of a passing run is checked to fail with one of them in place of the original,
as listed under "mutants" in `PROJECT.json`.

### RequestLifecycle

A pool thread stands for the handle of its frame, because that is an address on
its stack and the same for every request the thread serves.  `cur[t]` is the
request whose frame is live there.  A call is a record of the operation, the
pointer taken, and the request that pointer was taken for, so that a call that
outlives the frame is visible (`Dangling`).  The steps of an operation are those
other threads can get between: remove (`BeginCall`), check and swap
(`CheckPasses`, `CheckRefuses`), use of the native object (`Act...`), `PutBack`,
and `Register` for a new writer.  The load in `set_response_metadata` and its
write are two steps, the compare-and-swap is one.  `send_system_error` and
`finish()` go through the same steps, called by "error" and "server".
`native[r]` is the owner of the native object: "pion" before it arrives, "impl"
(the request), "sender", "holder" (a heap object), "sent", "aborted" (destroyed
after something was attempted, connection lost), "dropped" (destroyed with the
frame, no answer).  At the first undefined behaviour (`fault`) the behaviour
ends: nothing can be said of what the program does next.

The exceptions, each with what it leaves undone:
- `EnterThrows`: the view of the request has no callback script (`Scriptless`).
  The path callback has registered the frame and then throws; the frame is
  unwound without the error answer, the last remove and `finish()`.  The request
  dies unanswered, unless another thread that found the handle was faster, and
  the handle stays registered (`stray`) until the thread, with the same address,
  enters its next callback.
- `ActWriteFails`: a native write throws after the swap (`unsent`).  The request
  is committed and keeps its native object, which dies with the frame.
- `ActSend` with the outcome "aborted": a native send throws, the object moved
  into the call is destroyed there.
- `ActTemplateFails`: the template does not load, after the swap (`untold`).
- `ScriptFails`: the callback script returns an error; the error answer follows.
- `CloseFails`: a WebSocket whose close threw, which nobody can close again
  (`unclosed`).

Putting a pointer into a registry that has it already leaves the registry as it
is: `Put` is a set union, as for the stray handle of `EnterThrows`.

Two regimes: with `SharedRequests = FALSE` a script uses a request handle only
on the thread its callback runs on, which is how Wilton applications use them.
With `TRUE` a handle may be used by any thread, which the API allows.  Writer
and WebSocket handles are used by any thread in both.

What is left out: the values the getters return, headers, WebSocket messages
other than one per connection, and the deleters the registries run at exit.  A
callback whose registration itself fails (no memory) is left out as well.

### ResponseContract

Phases of one request: new, open, answering, deferred, answered, lost.  The
status line may change only while open or deferred.  A request is lost only after
somebody began to answer it, or if nobody serves it (`Unserved`, the requests
without a callback script).  `ResponseContractHolds`
reads the phase off `native` and `state` and is checked as a temporal property:
every step of RequestLifecycle is a step of the contract or changes nothing in it.
With shared handles a metadata call may pass its check and write after the swap
of another thread, so the status line may change late; what remains is
`OutcomeContractHolds`, the same contract with a constant for the status line:
the phases alone, at most one outcome and none taken back.

### RequestPayload

The body is numbered bytes; a client's chunks have any length; the disk may fail
at each use, which leaves what the code leaves.  `tmpDirPath` is configured or
not.  The native server's part is external: it stops feeding after an exception,
runs the handler after the last byte, and destroys the handler at the end, or at
any moment before it, when the client goes or a timeout ends the request.  A
remove of the file that fails is ignored, as in the code; the phase is then
"left".  `LimitIsOfTheBody` relates the comparison made for each chunk to the
length of the whole body.  Names of temporary files are assumed to differ
between requests.

### ResponseStream

One content of any length up to a bound, a buffer of `BufSize` bytes in place of
4096, the native writer's queue (`payload`), the asynchronous write that ends
well or not.  A sender that throws while reading is destroyed with the response.

### Responses

What runs before the sender: the handlers of a directory, of a zip file and of
the resource loader, the redirect of `/`, `send_temp_file` and `send_mustache`.
Each handler is one decision, as in the code: what it cuts off the resource,
whether the root has the file, the status and content type it sets, and whether
it streams, answers directly, throws into the native server or refuses the
script.  A path is a sequence of names and slashes, because the handlers differ
in what they do with the slash behind their own resource: a zip file and the
loader are asked for the path without it, the operating system reads any number
of slashes as one (`Squeeze`).  "." and symbolic links are left out; of a resource
shorter than the handler's only that it is (`Short`).  What a zip index or the loader
hold is external.  `Stream` is a step of `ResponseStream` together with what its
finalizer does to the temporary file.

### ServerRegistry

Entries are heap addresses, used again after a delete.  Callers are application
threads and, while they run a callback script, pool threads.  A stop makes the
native server stop listening, waits for the handlers that run, and deletes it:
that it does wait is an assumption about staticlib_pion (`Idle`).  A stop called
by a handler of the same server then waits for itself, directly or through
another server's handler (`Deadlocked`).  `twice` remembers that a failed
`get_tcp_port` has put its entry back twice; several properties hold only until
then.  `exit` is "yes" once `exit()` has destroyed the static pointer of the
registry: a call that looks for it later is undefined behaviour
(`LooksTooLate`), one that has its copy goes on, and the last copy hands the
entries to the deleter (`Deleter...`).  The deleter ignores a stop that failed
and deletes the scripts under a native server that stays ("stop failed").

### ServerConfig, ServerCreate

A constructor of `conf/` is a fold over the fields of its JSON object: a field
is stored, appended to a list, or refuses the record.  Values have types and
widths (`uint16_t`, `uint32_t`); texts are abstract except for being empty, and
a method for beginning with "WS" (`WSTexts`), which alone makes a WebSocket
handler of it (`KindOf`).
`ServerCreate` then follows `server_create`: "extract" takes the views out of
the configuration, "paths" makes an `HttpPath` and a list node for each,
"server" reads the rest, "partials" loads the templates of every directory,
"native" builds the server, "handlers" and "roots" hand it its handlers,
"register" is the state in which it listens but is in no registry yet, "return"
destroys the paths.  A failure goes through "unwind" and "unwind scripts", the
order in which locals are destroyed.  Workers serve a view's handler as soon as
the server listens and read its script through the handler's pointer; a view
without one makes the handler throw, as in RequestLifecycle.

### MustacheCache, TemplateStore

`get` holds the lock from the search to the insertion, the read of the file
included; the caller renders from a reference into the map after the lock is
gone.  A file is read in two parts and may be written, rewritten or removed in
between, so that a text may be half old and half new; it then stays so.
`TemplateStore` is what that still promises: a map that is written once for each
path, whose texts are the same for everybody.

### RequestFields

The merging loop over the fields the native server parsed, one field per step.

## The runs

| Run | Checks | Bounds |
| --- | --- | --- |
| `request_confined` | `InductiveInvariant`, `HandlesLive`, `ExclusiveCheckout`, `UnansweredOnlyByThrow`, `ErrorReported` | 2 pool threads, 1 other thread; an HTTP request, a WebSocket message, an HTTP request without a script; 2 heap addresses; 413112 states |
| `request_shared` | `InductiveInvariant`, `CommitPathSafe`, `NobodyForgotten`, `OutcomeContractHolds` with shared handles | 1 pool thread, 1 other thread; an HTTP request, a close notification and a WebSocket message without a script, all on the same frame; 2 heap addresses; 1639546 states |
| `request_liveness` | `EventuallySettled` under fairness, `ResponseContractHolds`; confined | 1 pool thread, 1 other thread; an HTTP request, a WebSocket message, a close notification, an HTTP request without a script; 2 heap addresses; 109740 states |
| `request_getters` | violated: `NoNullDereference` | 1 pool thread, 1 other thread; an HTTP request, a WebSocket message |
| `request_template` | violated: `NeverSilentlyDropped` | as above |
| `payload` | `TypeOK`, `AnswersAreWhole`, `LimitIsOfTheBody`, `NoFileLeftBehind` | 5 bytes, limits 0, 1, 3, 9, 4 getter calls |
| `responses` | `StartTypeOK`, `WireIsPrefix`, `CompleteOrClosed`, `ToldAtTheEnd`, `StaticAnswered`, `TempFileRemoved`, `ResponseEnds` | lengths 0 to 7, buffer of 2; 10 paths and a short resource for each of the roots |
| `server` | `TypeOK`, `HandlerScriptsLive`, `ServerUseExclusive`, `OnlyDoublePutDangles`, `NoServerLeak`, `StopReturns` | 1 application thread, 2 pool threads, 2 addresses |
| `server_null` | violated: `NoNullEntry` | 1 address |
| `server_create` | `TypeOK`, `ConfigAsDescribed`, `ListeningComplete`, `ScriptPointersHold`, `NothingLeftBehind`, `OnlyScriptlessLeavesHandle`, `RegistryCreate` | 1019 configurations on 3 disks, 1 pool thread |
| `mustache` | `TypeOK`, `RenderedTextStable`, `GetReturns`, `ImplementsStore` | 2 threads, 2 files, 2 versions of each |
| `fields` | `MergedAsDescribed` | 3 fields, 4 spellings of 2 names, 2 values and the empty one |

Why the bounds are enough.  Two pool threads and a third one are what a race on
a writer needs, with the callback of another request going on; more requests
than frames (`request_shared`: three requests, one pool thread) makes a frame come
back for another request, also after a callback that threw; a close notification
is in the runs that need no second pool thread, since it can only be refused; two heap addresses are as many as requests that can be
deferred, so a detach is never blocked for want of one, and are used again after
they are freed.  Five bytes cross every limit in every position of a chunk;
four getter calls go from memory to file and back twice.  Lengths up to 7 with a
buffer of 2 have 0 to 3 full chunks with every remainder.  Two servers with two
handlers are what stops need to wait for each other in a circle.  The
configurations combine nine lists of views, good and bad, with up to two further
fields of every kind, right, wrong, repeated and at the ends of their ranges;
`UInt16Max` is 65535 and `MaxPaths` 2 in place of it, `UInt32Max` is cut to
2000000000, which TLC can count.  Two threads and a file rewritten once
between its two parts are what a race on the cache needs, a second file shows that
one path does not disturb another.  Symmetry is
used for interchangeable threads and addresses, in runs without liveness only.

`CHECK_DEADLOCK FALSE` stands in every cfg: the requests, bytes, calls or fields
of an instance run out, and a behaviour ends at its first undefined behaviour.

Fairness.
- `request_liveness`: pool threads, and threads inside an operation, are runnable
  threads that nothing here blocks (a mutex is held only inside a registry or
  the template cache): weak fairness.  That a callback script ends, and that a
  deferred writer or WebSocket is used in the end, are what the code asks of
  scripts: strong fairness, since a script may be inside calls again and again
  before it ends.  `EventuallySettled` makes one exception, a WebSocket whose
  close threw (`unclosed`, see below).
- `responses`: the pool thread that runs a handler goes on, and the native server
  ends every write it was given, well or not: weak fairness of each.
- `server`: a thread inside an operation goes on (weak), a callback script that
  is not inside one for ever comes to an end (strong); no operation has to fail.
- `mustache`: a thread that has the lock goes on (weak), one that waits for it
  gets it in the end (strong, as of a mutex that does not starve).

## What the violated properties show

- `request_getters`: `get_metadata` after an answer reads the response pointer
  that was moved away (`request.cpp` 254-260), although later metadata or answers
  are refused properly.
- `request_template`: a template that does not load leaves the client without
  any answer, since the request was committed before.
- `server_null`: two calls at a time on one server handle read through null.

Further disagreements are listed under "findings" without a run of their own: a
body exactly at the limit is refused as exceeding it; the finalizer hears of
success before the last write has ended; the separator of joined headers; the
second put of `get_tcp_port`; the payload state after a disk error; a view
without a callback script, whose handler throws, leaves its request handle
registered and its request unanswered; MIME types given for a document root, which its defaults precede;
`numberOfThreads`, read as 16 bits; the status of `send400`; and
`tmpFilenameLen`, printed under another name than it is read.  Known leaks the models contain:
a WebSocket whose close throws (`CloseFails`), and the context and temporary file
of a `send_temp_file` that was refused or whose read threw (`TempFileRemoved`
says exactly when), and the temporary file of a body whose remove failed.

## What is proved

For all sets of threads, requests and addresses, all bodies and contents, limits
and buffer sizes, configurations and disks:

| Module | Theorem | Statement |
| --- | --- | --- |
| `RequestProofs` | `TypeCorrect` | `Spec => []TypeOK`, in both regimes |
| | `InvariantHolds` | `Spec => []InductiveInvariant`, in both regimes: `SInv`, and `IInv` unless handles are shared |
| | `CommitPathIsSafe`, `NobodyIsForgotten` | `CommitPathSafe`, `NobodyForgotten`, in both regimes |
| | `OutcomesKeepContract` | `Spec => OutcomeContractHolds`, in both regimes |
| | `HandlesAreLive`, `CheckoutIsExclusive`, `UnansweredNeedsThrow`, `ErrorsAreReported` | `~SharedRequests => (Spec => []P)` for `HandlesLive`, `ExclusiveCheckout`, `UnansweredOnlyByThrow`, `ErrorReported` |
| | `LifecycleImplementsContract` | `~SharedRequests => (Spec => ResponseContractHolds)` |
| `PayloadProofs` | `PayloadTypeCorrect`, `WholeAnswers`, `LimitOfBody`, `FilesRemoved` | `TypeOK`, `AnswersAreWhole`, `LimitIsOfTheBody`, `NoFileLeftBehind` |
| `StreamProofs` | `ResponseTypeCorrect`, `WireIsAlwaysPrefix`, `CompletedIsWhole`, `FinalizerToldOnce` | `StartTypeOK`, `WireIsPrefix`, `CompleteOrClosed`, `ToldAtTheEnd`, in every response of `Responses` |
| | `TempFilesGo`, `StaticIsAnswered` | `TempFileRemoved`, `StaticAnswered` |
| `ServerProofs` | `ServerTypeCorrect`, `UseIsExclusive`, `HandlersHaveScripts`, `DanglingNeedsDoublePut`, `RunningServersReachable` | `TypeOK`, `ServerUseExclusive`, `HandlerScriptsLive`, `OnlyDoublePutDangles`, `NoServerLeak` |
| `CreateProofs` | `CreateTypeCorrect`, `PointersHold`, `FailuresLeaveNothing`, `OnlyScriptlessLeaves` | `TypeOK`, `ScriptPointersHold`, `NothingLeftBehind`, `OnlyScriptlessLeavesHandle` |
| | `ReadAsDescribed` | `Spec => []ConfigAsDescribed` |
| | `ListensComplete` | `Spec => []ListeningComplete` |
| | `CreateRefinesRegistry` | `Spec => RegistryCreate` |
| `MustacheProofs` | `CacheTypeCorrect`, `RenderedStable` | `TypeOK`, `RenderedTextStable` |
| | `CacheRefinesStore` | `Spec => ImplementsStore` |
| `FieldsProofs` | `FieldsMergedAsDescribed` | `Spec => []MergedAsDescribed` |

Assumptions: those of the ASSUMEs, evaluated by TLC on every run.  They say that
stack and heap addresses, threads and the null pointer differ, that bounds are
natural numbers and the buffer is not empty, that what is asked for is a finite
path or the short resource (`RestsAssumption`), and that what a JSON text can hold
is finite (`ListsAssumption`: the fields of an object and the elements of an
array are sequences, down to the arrays in the document roots).

`HandlesAreLive` and `UnansweredNeedsThrow` do not say that all is well: they say
that nothing but the exceptions named in them, all of which the model can take,
leaves a handle behind or a request unanswered.

The arguments.

*Requests.*  None of the properties is inductive by itself.  `SInv` is what
holds whoever uses a request handle.  `Frames`: every thread has a frame exactly
while it serves, and no two the same request.  `Roles`: who is inside which
operation at which point, so that the steps of a script, of `send_system_error`
and of `finish()` cannot be taken for one another.  `Claims`: an uncommitted
request has its native object, and of all calls on a request at most one has won
the swap and not moved the object away yet; it still finds it.  This is why the
commit path is safe even for handles that every thread may use: the swap alone
gives it, not the registry.  `Finished`: a frame is only left with its request
committed, or unwound from a path callback that threw.  `Writers`: no two holders for a deferred request, and none in the
hands of two threads or of one and the registry.  `Hands`: every native object
that is not yet answered has an owner that somebody can reach: a request with a
live frame, or a holder that is registered, in the hands of a call, or in
`unclosed`; this is `NobodyForgotten` of each holder.  `Protocol`: close
notifications arrive committed, and never reach a sender or a holder.

`IInv` is what is gained when a script keeps its request handle to its own
thread: `Confined`, that only that thread is ever inside a call on it;
`Handles`, that the handle is registered exactly at certain points of that
thread's program, and from a path callback that threw to the thread's next one;
`Owners`, that a committed request that still has its native object is about to be
answered, or an exception after the commit is on record for it; and `Reports`,
which follows the error answer through its steps, up to a write of it that fails.
`UnansweredOnlyByThrow` follows from `Owners` and `Finished` at the step that
destroys a frame.  `TypeOK` is the first conjunct of `SInv`.  Both are one invariant,
`InductiveInvariant`; TLC checks it in either regime (`request_confined`,
`request_shared`), the proof shows that `Init` implies it and that every action
keeps each of its parts.  In the shared regime `HandlesLive` and
`ExclusiveCheckout` are not promised, and `ErrorReported` and the status line of
the contract do not hold: their theorems need `~SharedRequests`.

*The contract.*  The proof is in two parts.  `PhaseStep`: with `SInv`, every
action moves the phase of each request as the contract allows or leaves it, in
both regimes; this is `OutcomesKeepContract`.  `LineStep`: with `IInv`, the
status line changes only while the contract lets it, which needs the handle to be
confined; together they are `LifecycleImplementsContract`.

*Payload.*  In memory state before any getter the buffer is the body so far, so
that the comparison with what is kept is one with the body (`FeedLimit`).  The
body so far is in the buffer in memory state, and in the file as soon as there
is a name, while the disk has not failed (`BodyKept`); a file has a name
(`FilesAreNamed`), which the destructor goes by; the failures of the disk are
counted against the calls that could meet them (`FailureCount`).

*Streams.*  What the client has are the first `w` bytes of the content, and what
the native writer holds are the bytes from `w` to where the stream was read
(`WireOK`); the last chunk is only started at the end of the content (`Order`).
A temporary file is whole until the finalizer is told and gone from then on, and
its sender tells it before it gives the last chunk away (`TempInv`); with `Order`
only a refused send and a read that threw end without telling.

*Static requests.*  The answer is one decision, so that the argument is about
paths.  `Squeeze` is a recursive function over the path; `SqueezePlain` shows by
induction (`FoldProofs` again, with `Adds` as its step) that for every path
without doubled slashes it is the path with its first slash cut off, which is
what a zip file and the loader are asked for (`LookedUp`).

*Servers.*  An entry being created or deleted is in nobody else's hands and has
no native server (`Unserved`); one that is registered or in the hands of a call
has its scripts and its native server (`RegisteredLive`, `HandsLive`); and a
native server has its scripts (`NativeHasScripts`).  Most of it holds until an
entry is put back twice, or until a stop at exit has failed.

*Creation.*  Node `i` of the list holds the script of view `i` and stays there
(`Nodes`); paths and the handlers made of them point to the node of their view
(`PathsOK`, `RoutesOK`); each step owns what the steps before it made (`Owned`,
`NativeOwned`), which also gives the refinement: extract begins the registry's
create, start starts it, register or unwinding the scripts ends it, and all other
steps are invisible to it.  `OnlyScriptlessLeavesHandle` compares the script of the
view a handler was added for with what happens to the handle, which the handler
decides by the script it reads through its pointer: `Nodes` and `RoutesOK` make
them one (`OwnScript`).  For `ListeningComplete` the invariant has to say
where in its list every handler stands before the list is complete (`RoutesMade`:
the first handlers are those of the views in their order, then the redirect,
then the roots), that there is a path for each view (`PathsMade`), and what the
partials were loaded from (`PartialsLoaded`); each step of the constructor adds
at the end, and the counts decide which group it adds to.

*Reading a configuration.*  `ConfigAsDescribed` compares the fold of a
constructor over all fields with what each field gives when it stands alone.
Induction over the fields is done once, in `FoldProofs`: the natural numbers are
well-founded, so a recursive function over `0 .. Len(fields)` exists and what its
first value has and each step keeps, its last value has.  The module is
parameterised by the step and the property as operator constants, and
instantiated for each constructor and each invariant (`ServerReads`, `RootReads`,
`ViewsFields`, ...).  The invariant (`Described`) says what the record is after
`n` fields; `NextDescribed` is its step for any record, and what is left for a
constructor is that it treats a field in any record as it does alone
(`ServerFieldAlone`, `RootFieldAlone`), which goes through its cases.

*Merging.*  The loop is a sequence of steps, so its induction is that of the
specification: after `pos` fields the map has an entry for exactly the keys seen
(`KeysOK`), and each entry is the first of its fields, or the values of all of
them joined in order (`Entry`, by ranks in the set of indices).

*Templates.*  The lock keeps two threads from being between search and
insertion at a time, and only a path without a text is given one, so that every
step is one of the store.

`StaticAnswered` says so much because it is about the path each root is found to
hold: of a path with two slashes in a row it speaks for a directory only, since
the operating system opens it, while the names in a zip file are compared as they
are.

Only model-checked: liveness (`EventuallySettled`, `ResponseEnds`, `StopReturns`,
`GetReturns`), since fairness and ENABLED are out of the prover's reach, and the
three properties that are violated.  Every invariant, and every other action or
refinement property of a passing run, is a theorem.

## Not modelled

- The deleters of the request, writer and WebSocket registries at exit: they
  answer 503 through native objects whose life after their server is the native
  server's affair.
- TLS set-up: calls of OpenSSL, with one decision that has no state (a subject
  that contains a text).  Its configuration fields are read in `ServerConfig`.
- The values the getters of a request return, apart from the merging of fields;
  the `to_json` printers; the records of request and response metadata, which
  are plain copies of fields.
- Which connections a broadcast reaches: the native server's choice.
- Names of temporary files: assumed to differ.

## Plan

Done, in this order: the request lifecycle with its contract; payload handler,
response stream, server registry, field merging; the handlers that start a
response; configuration and `server_create`; the template cache; exit of the
server registry; proofs about all of them; the safety of shared request handles,
of field merging and of configuration reading as theorems; then that no native
response is forgotten and none has two outcomes with shared handles, the
temporary files and the static requests.

What is left, by importance:

1. Owners of writer handles, to state what the reuse of heap addresses breaks
   (an old handle that leads to somebody else's writer).
2. The deleters of the other registries at exit, once what staticlib_pion does
   with their native objects is known.
3. `RequestLifecycle` and `RequestPayload` composed: the payload's lifetime and
   the getters after the request was answered.
