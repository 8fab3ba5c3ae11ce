-------------------------- MODULE RequestLifecycle --------------------------
(***************************************************************************)
(* The life of one HTTP request or WebSocket message inside                *)
(* wilton_server: the pool thread of the native server that builds the     *)
(* `request` on its stack, the handle the callback script is given, the    *)
(* calls scripts make with it (each takes the pointer out of a registry    *)
(* and puts it back), the atomic created -> committed switch that decides  *)
(* who owns the native response, the one-off writer and WebSocket objects  *)
(* that answer later, the error answer for a failed script and finish().   *)
(*                                                                         *)
(* A request handle is the address of a wilton_Request on the stack of the *)
(* pool thread that runs the handler, hence one address per thread, used   *)
(* again for every request the thread serves: a pool thread stands for its *)
(* own handle here.                                                        *)
(***************************************************************************)
EXTENDS HandleRegistry

CONSTANTS
    Pool,           \* worker threads of the native server
    Apps,           \* other threads that run scripts
    Requests,       \* HTTP requests and WebSocket messages to arrive
    Holders,        \* heap addresses for writer and WebSocket objects
    Kind,           \* [Requests -> Kinds]: which handler the request is for
    Scriptless,     \* requests whose view has no callbackScript
    SharedRequests, \* may a script use a request handle on another thread?
    None            \* a null pointer

Kinds == {"http", "ws", "wsclose"}

ASSUME ThreadsAssumption == Pool \cap Apps = {}
ASSUME KindAssumption == Kind \in [Requests -> Kinds]
ASSUME ScriptlessAssumption == Scriptless \subseteq Requests
ASSUME SharedAssumption == SharedRequests \in BOOLEAN
ASSUME AddressAssumption == Pool \cap Holders = {}   \* stack and heap
ASSUME NoneAssumption == None \notin Pool \cup Requests \cup Holders

VARIABLES
    rreg,      \* request registry: pool threads whose handle is registered
    hreg,      \* response_writer and websocket registries
    cur,       \* the request whose frame is live on a pool thread's stack
    pc,        \* what a thread does next
    call,      \* the request operation a thread is inside
    state,     \* request::impl::state, the atomic
    native,    \* who owns the native response writer or WebSocket
    status,    \* status line set in the native response
    holds,     \* the request whose native object a heap object holds
    failed,    \* requests whose script failed before any answer (history)
    untold,    \* requests whose template did not load (history)
    unsent,    \* requests whose response could not be written (history)
    unclosed,  \* requests whose WebSocket did not close (history)
    stray,     \* threads whose last path callback threw (history)
    fault      \* the first undefined behaviour; the program stops there

registries == <<rreg, hreg>>
threads == <<cur, pc, call>>
requests == <<state, native, status>>
history == <<failed, untold, unsent, unclosed, stray>>
vars == <<rreg, hreg, cur, pc, call, state, native, status, holds, failed,
          untold, unsent, unclosed, stray, fault>>

Callers == Pool \cup Apps

Getters == {"get_metadata", "get_data", "get_form_data", "get_data_filename"}
HttpOnly == {"get_form_data", "get_data_filename", "set_response_metadata",
             "send_temp_file", "send_mustache", "send_later"}
Sends == {"send_response", "finish"}
Streams == {"send_temp_file", "send_mustache"}
Detaches == {"send_later", "retain_websocket"}
Committing == Sends \cup Streams \cup Detaches
RequestOps == (Getters \cup Committing \cup {"set_response_metadata"})
                 \ {"finish"}
HolderOps == {"set_metadata_with_response_writer",
              "send_with_response_writer", "send_with_websocket",
              "close_websocket"}

NoCall == [op |-> "none", ptr |-> None, req |-> None, by |-> "none",
           made |-> None]

Init ==
    /\ rreg = Empty
    /\ hreg = Empty
    /\ cur = [t \in Pool |-> None]
    /\ pc = [c \in Callers |-> IF c \in Pool THEN "idle" ELSE "script"]
    /\ call = [c \in Callers |-> NoCall]
    /\ state = [r \in Requests |-> "created"]
    /\ native = [r \in Requests |-> "pion"]
    /\ status = [r \in Requests |-> "200"]
    /\ holds = [h \in Holders |-> None]
    /\ failed = {}
    /\ untold = {}
    /\ unsent = {}
    /\ unclosed = {}
    /\ stray = {}
    /\ fault = "none"

-----------------------------------------------------------------------------
(* The handler lambda of sserver.cpp on a pool thread.                     *)

(* Thread c is at point p of a program that still has defined behaviour.   *)
At(c, p) == fault = "none" /\ pc[c] = p

(* The native server picks a request up; request::impl takes the native    *)
(* object over.  A WSCLOSE notification may not be answered: it starts     *)
(* committed.                                                              *)
Arrive(t, r) ==
    /\ At(t, "idle")
    /\ native[r] = "pion"
    /\ cur' = [cur EXCEPT ![t] = r]
    /\ pc' = [pc EXCEPT ![t] = "enter"]
    /\ native' = [native EXCEPT ![r] = "impl"]
    /\ state' = [state EXCEPT ![r] =
                    IF Kind[r] = "wsclose" THEN "committed" ELSE "created"]
    /\ UNCHANGED <<registries, call, status, holds, history, fault>>

(* Mutant: the script is run with a handle that was not registered.        *)
EnterUnregistered(t) ==
    /\ At(t, "enter")
    /\ cur[t] \notin Scriptless
    /\ pc' = [pc EXCEPT ![t] = "script"]
    /\ stray' = stray \ {t}
    /\ UNCHANGED <<registries, cur, call, requests, holds, failed, untold, unsent,
                   unclosed, fault>>

(* The path callback registers the frame and runs the callback script.     *)
Enter(t) ==
    /\ At(t, "enter")
    /\ cur[t] \notin Scriptless
    /\ rreg' = Put(rreg, t)
    /\ pc' = [pc EXCEPT ![t] = "script"]
    /\ stray' = stray \ {t}
    /\ UNCHANGED <<hreg, cur, call, requests, holds, failed, untold, unsent,
                   unclosed, fault>>

(* For a view that was accepted without a callbackScript the parameters    *)
(* are null: the path callback throws once it has registered the frame.    *)
(* No script runs, nobody answers or calls finish(), the handle stays.     *)
EnterThrows(t) ==
    /\ At(t, "enter")
    /\ cur[t] \in Scriptless
    /\ rreg' = Put(rreg, t)
    /\ pc' = [pc EXCEPT ![t] = "unwind"]
    /\ stray' = stray \cup {t}
    /\ UNCHANGED <<hreg, cur, call, requests, holds, failed, untold, unsent,
                   unclosed, fault>>

ScriptReturns(t) ==
    /\ At(t, "script")
    /\ pc' = [pc EXCEPT ![t] = "leave"]
    /\ UNCHANGED <<registries, cur, call, requests, holds, history, fault>>

(* wiltoncall_runscript returns an error.                                  *)
ScriptFails(t) ==
    /\ At(t, "script")
    /\ pc' = [pc EXCEPT ![t] = "err_remove"]
    /\ failed' = IF state[cur[t]] = "created" THEN failed \cup {cur[t]}
                                              ELSE failed
    /\ UNCHANGED <<registries, cur, call, requests, holds, untold, unsent, unclosed,
                   stray, fault>>

(* Mutant: the error path forgets to set the status.                       *)
ErrorRemoveSendsOnly(t) ==
    /\ At(t, "err_remove")
    /\ rreg' = Remove(rreg, t)
    /\ pc' = [pc EXCEPT ![t] = "check"]
    /\ call' = [call EXCEPT ![t] =
         [op |-> "send_response", ptr |-> t, req |-> cur[t], by |-> "error",
          made |-> None]]
    /\ UNCHANGED <<hreg, cur, requests, holds, history, fault>>

(* send_system_error: take the handle, set status 500, send the message,   *)
(* put the handle back; nothing when the handle is not there.  The two     *)
(* request operations are those below, called `by` the error path.         *)
ErrorRemove(t) ==
    /\ At(t, "err_remove")
    /\ IF Found(rreg, t)
       THEN /\ rreg' = Remove(rreg, t)
            /\ pc' = [pc EXCEPT ![t] = "check"]
            /\ call' = [call EXCEPT ![t] =
                 [op |-> "set_response_metadata", ptr |-> t, req |-> cur[t],
                  by |-> "error", made |-> None]]
       ELSE /\ pc' = [pc EXCEPT ![t] = "leave"]
            /\ UNCHANGED <<rreg, call>>
    /\ UNCHANGED <<hreg, cur, requests, holds, history, fault>>

(* Mutants: the last remove is forgotten; finish() is forgotten.           *)
LeaveRegistered(t) ==
    /\ At(t, "leave")
    /\ pc' = [pc EXCEPT ![t] = "check"]
    /\ call' = [call EXCEPT ![t] =
         [op |-> "finish", ptr |-> t, req |-> cur[t], by |-> "server",
          made |-> None]]
    /\ UNCHANGED <<registries, cur, requests, holds, history, fault>>

LeaveUnfinished(t) ==
    /\ At(t, "leave")
    /\ rreg' = Remove(rreg, t)
    /\ pc' = [pc EXCEPT ![t] = "destroy"]
    /\ UNCHANGED <<hreg, cur, call, requests, holds, history, fault>>

(* The path callback ends by removing the handle; then the handler lambda  *)
(* calls finish(), not through the registry.                               *)
Leave(t) ==
    /\ At(t, "leave")
    /\ rreg' = Remove(rreg, t)
    /\ pc' = [pc EXCEPT ![t] = "check"]
    /\ call' = [call EXCEPT ![t] =
         [op |-> "finish", ptr |-> t, req |-> cur[t], by |-> "server",
          made |-> None]]
    /\ UNCHANGED <<hreg, cur, requests, holds, history, fault>>

(* The frame dies, after finish() or because the path callback threw; a    *)
(* native object the request still owns dies with it and its connection is *)
(* dropped.                                                                *)
Destroy(t) ==
    /\ At(t, "destroy") \/ At(t, "unwind")
    /\ cur' = [cur EXCEPT ![t] = None]
    /\ pc' = [pc EXCEPT ![t] = "idle"]
    /\ call' = [call EXCEPT ![t] = NoCall]
    /\ native' = [native EXCEPT ![cur[t]] = IF @ = "impl" THEN "dropped" ELSE @]
    /\ UNCHANGED <<registries, state, status, holds, history, fault>>

-----------------------------------------------------------------------------
(* The operations on a request handle (wiltoncall_server.cpp down to       *)
(* request::impl): remove, check and commit, act, put back.                *)

(* The memory a call works on is no longer the request it was taken for.   *)
Dangling(c) == \/ call[c].req = None
               \/ cur[call[c].ptr] # call[c].req

(* A handle not in the registry is refused with an error and no effect.    *)
BeginCall(c, t, o) ==
    /\ At(c, "script")
    /\ SharedRequests \/ c = t
    /\ Found(rreg, t)
    /\ rreg' = Remove(rreg, t)
    /\ pc' = [pc EXCEPT ![c] = "check"]
    /\ call' = [call EXCEPT ![c] =
         [op |-> o, ptr |-> t, req |-> cur[t], by |-> "script",
          made |-> None]]
    /\ UNCHANGED <<hreg, cur, requests, holds, history, fault>>

(* Where the caller goes when the operation is over, done or refused:      *)
(* the error path sends after it set the status whatever the result, the   *)
(* handler lambda returns after finish().                                  *)
Continue(c, made) ==
    LET k == call[c] IN
    \/ /\ k.by = "error" /\ k.op = "set_response_metadata"
       /\ pc' = [pc EXCEPT ![c] = "check"]
       /\ call' = [call EXCEPT ![c].op = "send_response"]
    \/ /\ k.by = "server"
       /\ pc' = [pc EXCEPT ![c] = "destroy"]
       /\ UNCHANGED call
    \/ /\ k.by = "script" \/ (k.by = "error" /\ k.op = "send_response")
       /\ pc' = [pc EXCEPT ![c] = "putback"]
       /\ call' = [call EXCEPT ![c].made = made]

(* Mutant: set_response_metadata does not look at the state.               *)
AdmitsLateMetadata(o, r) ==
    /\ o \in HttpOnly => Kind[r] = "http"
    /\ o = "retain_websocket" => Kind[r] # "http"
    /\ o \in Committing => state[r] = "created"

(* The checks an operation makes before it touches anything: the protocol  *)
(* it is for, and the state it needs (a compare-and-swap, but only a load  *)
(* for set_response_metadata).                                             *)
Admits(o, r) ==
    /\ o \in HttpOnly => Kind[r] = "http"
    /\ o = "retain_websocket" => Kind[r] # "http"
    /\ o \in Committing \cup {"set_response_metadata"} => state[r] = "created"

(* Mutants: send_later and retain_websocket, or finish(), only load the    *)
(* state and do not swap it.                                               *)
StateAfterDetachLoads(o, s) ==
    IF o \in Committing \ Detaches THEN "committed" ELSE s

StateAfterFinishLoads(o, s) ==
    IF o \in Committing \ {"finish"} THEN "committed" ELSE s

(* The compare-and-swap's new value, in the same atomic step as the check. *)
StateAfter(o, s) == IF o \in Committing THEN "committed" ELSE s

CheckPasses(c) ==
    LET k == call[c] IN
    /\ At(c, "check") /\ ~Dangling(c)
    /\ Admits(k.op, k.req)
    /\ state' = [state EXCEPT ![k.req] = StateAfter(k.op, @)]
    /\ pc' = [pc EXCEPT ![c] = "act"]
    /\ UNCHANGED <<registries, cur, call, native, status, holds, history, fault>>

(* What may fail before the checks are over: reading or parsing a payload, *)
(* parsing metadata or template values, opening the file.                  *)
MayFailEarly == Getters \cup Streams \cup {"set_response_metadata"}

(* Refused by a check or failed early: an error and no effect.             *)
CheckRefuses(c) ==
    LET k == call[c] IN
    /\ At(c, "check") /\ ~Dangling(c)
    /\ \/ ~Admits(k.op, k.req)
       \/ k.by = "script" /\ k.op \in MayFailEarly
    /\ Continue(c, None)
    /\ UNCHANGED <<registries, cur, requests, holds, history, fault>>

(* Only the payload of an HTTP request is kept apart from the native       *)
(* response writer; everything else goes through the native object.        *)
NeedsNative(o, r) == ~(o \in Getters \ {"get_metadata"} /\ Kind[r] = "http")

Acting(c, ops) ==
    /\ At(c, "act") /\ ~Dangling(c)
    /\ call[c].op \in ops
    /\ NeedsNative(call[c].op, call[c].req) => native[call[c].req] = "impl"

ActGet(c) ==
    /\ Acting(c, Getters)
    /\ Continue(c, None)
    /\ UNCHANGED <<registries, cur, requests, holds, history, fault>>

ActSetMetadata(c) ==
    /\ Acting(c, {"set_response_metadata"})
    /\ status' = [status EXCEPT ![call[c].req] =
                     IF call[c].by = "error" THEN "500" ELSE "script"]
    /\ Continue(c, None)
    /\ UNCHANGED <<registries, cur, state, native, holds, history, fault>>

(* send_response and finish: the native object goes back to the server, or *)
(* dies in a send that throws.                                             *)
ActSend(c) ==
    /\ Acting(c, Sends)
    /\ \E outcome \in {"sent", "aborted"} :
          native' = [native EXCEPT ![call[c].req] = outcome]
    /\ Continue(c, None)
    /\ UNCHANGED <<registries, cur, state, status, holds, history, fault>>

(* The native write before the send throws: the request is committed and   *)
(* keeps the native object.                                                *)
ActWriteFails(c) ==
    /\ Acting(c, {"send_response"})
    /\ unsent' = unsent \cup {call[c].req}
    /\ Continue(c, None)
    /\ UNCHANGED <<registries, cur, requests, holds, failed, untold, unclosed,
                   stray, fault>>

(* The native response moves into a response_stream_sender; when the first *)
(* read throws, the sender is destroyed with the response inside.          *)
ActStream(c) ==
    /\ Acting(c, Streams)
    /\ \E owner \in {"sender", "aborted"} :
          native' = [native EXCEPT ![call[c].req] = owner]
    /\ Continue(c, None)
    /\ UNCHANGED <<registries, cur, state, status, holds, history, fault>>

(* mustache_cache::get throws, after the request was committed.            *)
ActTemplateFails(c) ==
    /\ Acting(c, {"send_mustache"})
    /\ untold' = untold \cup {call[c].req}
    /\ Continue(c, None)
    /\ UNCHANGED <<registries, cur, requests, holds, failed, unsent, unclosed,
                   stray, fault>>

(* The native object moves to a new heap object: a wilton_ResponseWriter   *)
(* or a wilton_WebSocket.                                                  *)
ActDetach(c, h) ==
    /\ Acting(c, Detaches)
    /\ holds[h] = None
    /\ holds' = [holds EXCEPT ![h] = call[c].req]
    /\ native' = [native EXCEPT ![call[c].req] = "holder"]
    /\ Continue(c, h)
    /\ UNCHANGED <<registries, cur, state, status, history, fault>>

(* The request goes back first, the new heap object is registered next.    *)
PutBack(c) ==
    LET k == call[c] IN
    /\ At(c, "putback")
    /\ rreg' = Put(rreg, k.ptr)
    /\ IF k.made # None
       THEN pc' = [pc EXCEPT ![c] = "register"] /\ UNCHANGED call
       ELSE /\ pc' = [pc EXCEPT ![c] = IF k.by = "error" THEN "leave"
                                                         ELSE "script"]
            /\ call' = [call EXCEPT ![c] = NoCall]
    /\ UNCHANGED <<hreg, cur, requests, holds, history, fault>>

(* Mutant: the writer is not registered.                                   *)
RegisterForgets(c) ==
    /\ At(c, "register")
    /\ pc' = [pc EXCEPT ![c] = "script"]
    /\ call' = [call EXCEPT ![c] = NoCall]
    /\ UNCHANGED <<registries, cur, requests, holds, history, fault>>

Register(c) ==
    /\ At(c, "register")
    /\ hreg' = Put(hreg, call[c].made)
    /\ pc' = [pc EXCEPT ![c] = "script"]
    /\ call' = [call EXCEPT ![c] = NoCall]
    /\ UNCHANGED <<rreg, cur, requests, holds, history, fault>>

(* Undefined behaviour: a step of a call on memory that is no longer its   *)
(* request's, or through a native pointer that was moved away.             *)
UseAfterFree(c) ==
    /\ \/ At(c, "check")
       \/ At(c, "act")
    /\ Dangling(c)
    /\ fault' = "use_after_free"
    /\ UNCHANGED <<registries, threads, requests, holds, history>>

NullDereference(c) ==
    /\ At(c, "act") /\ ~Dangling(c)
    /\ NeedsNative(call[c].op, call[c].req)
    /\ native[call[c].req] # "impl"
    /\ fault' = "null_dereference"
    /\ UNCHANGED <<registries, threads, requests, holds, history>>

-----------------------------------------------------------------------------
(* The operations on a response writer or a retained WebSocket.            *)

HolderAdmits(o, r) ==
    (o \in {"send_with_websocket", "close_websocket"}) <=> (Kind[r] # "http")

(* Mutant: the pointer is looked up, not taken out.                        *)
BeginHolderCallPeeks(c, h, o) ==
    /\ At(c, "script")
    /\ Found(hreg, h)
    /\ HolderAdmits(o, holds[h])
    /\ pc' = [pc EXCEPT ![c] = "hact"]
    /\ call' = [call EXCEPT ![c] =
         [op |-> o, ptr |-> h, req |-> holds[h], by |-> "script",
          made |-> None]]
    /\ UNCHANGED <<registries, cur, requests, holds, history, fault>>

(* Each kind of object has a registry of its own, where a handle of the    *)
(* other kind is not found.                                                *)
BeginHolderCall(c, h, o) ==
    /\ At(c, "script")
    /\ Found(hreg, h)
    /\ HolderAdmits(o, holds[h])
    /\ hreg' = Remove(hreg, h)
    /\ pc' = [pc EXCEPT ![c] = "hact"]
    /\ call' = [call EXCEPT ![c] =
         [op |-> o, ptr |-> h, req |-> holds[h], by |-> "script",
          made |-> None]]
    /\ UNCHANGED <<rreg, cur, requests, holds, history, fault>>

(* Metadata that does not parse leaves the status as it was.               *)
HolderSetMetadata(c) ==
    LET k == call[c] IN
    /\ At(c, "hact") /\ k.op = "set_metadata_with_response_writer"
    /\ \E s \in {"script", status[k.req]} :
          status' = [status EXCEPT ![k.req] = s]
    /\ pc' = [pc EXCEPT ![c] = "hput"]
    /\ UNCHANGED <<registries, cur, call, state, native, holds, history, fault>>

(* Mutant: a writer is treated as one-off by set_metadata too.             *)
HolderPutBackForgets(c) ==
    /\ At(c, "hput")
    /\ pc' = [pc EXCEPT ![c] = "script"]
    /\ call' = [call EXCEPT ![c] = NoCall]
    /\ UNCHANGED <<registries, cur, requests, holds, history, fault>>

HolderPutBack(c) ==
    /\ At(c, "hput")
    /\ hreg' = Put(hreg, call[c].ptr)
    /\ pc' = [pc EXCEPT ![c] = "script"]
    /\ call' = [call EXCEPT ![c] = NoCall]
    /\ UNCHANGED <<rreg, cur, requests, holds, history, fault>>

(* A one-off operation: the object is deleted, never put back, whether the *)
(* native call succeeds or throws.                                         *)
HolderSend(c) ==
    LET k == call[c] IN
    /\ At(c, "hact") /\ k.op \in HolderOps \ {"set_metadata_with_response_writer"}
    /\ \E outcome \in {"sent", "aborted"} :
          /\ outcome = "aborted" => k.op # "close_websocket"
          /\ native' = [native EXCEPT ![k.req] = outcome]
    /\ holds' = [holds EXCEPT ![k.ptr] = None]
    /\ pc' = [pc EXCEPT ![c] = "script"]
    /\ call' = [call EXCEPT ![c] = NoCall]
    /\ UNCHANGED <<registries, cur, state, status, history, fault>>

(* wilton_WebSocket_close does not delete the object when close() throws,  *)
(* and nobody puts it back: it can never be reached again.                 *)
CloseFails(c) ==
    /\ At(c, "hact") /\ call[c].op = "close_websocket"
    /\ unclosed' = unclosed \cup {call[c].req}
    /\ pc' = [pc EXCEPT ![c] = "script"]
    /\ call' = [call EXCEPT ![c] = NoCall]
    /\ UNCHANGED <<registries, cur, requests, holds, failed, untold, unsent, stray,
                   fault>>

-----------------------------------------------------------------------------
(* response_stream_sender after its first chunk: the last chunk hands the  *)
(* response to the server, a failed write or read destroys it.             *)
SenderEnds(r, outcome) ==
    /\ fault = "none"
    /\ native[r] = "sender"
    /\ native' = [native EXCEPT ![r] = outcome]
    /\ UNCHANGED <<registries, threads, state, status, holds, history, fault>>

-----------------------------------------------------------------------------
ServerStep(t) ==
    \/ \E r \in Requests : Arrive(t, r)
    \/ Enter(t)
    \/ EnterThrows(t)
    \/ ScriptReturns(t)
    \/ ScriptFails(t)
    \/ ErrorRemove(t)
    \/ Leave(t)
    \/ Destroy(t)

(* A thread inside a call goes on: nothing here waits for anybody.         *)
InsideCall(c) ==
    \/ CheckPasses(c)
    \/ CheckRefuses(c)
    \/ ActGet(c)
    \/ ActSetMetadata(c)
    \/ ActSend(c)
    \/ ActWriteFails(c)
    \/ ActStream(c)
    \/ ActTemplateFails(c)
    \/ \E h \in Holders : ActDetach(c, h)
    \/ PutBack(c)
    \/ Register(c)
    \/ UseAfterFree(c)
    \/ NullDereference(c)
    \/ HolderSetMetadata(c)
    \/ HolderPutBack(c)
    \/ HolderSend(c)
    \/ CloseFails(c)

ScriptCalls(c) ==
    \/ \E t \in Pool, o \in RequestOps : BeginCall(c, t, o)
    \/ \E h \in Holders, o \in HolderOps : BeginHolderCall(c, h, o)

Next ==
    \/ \E t \in Pool : ServerStep(t)
    \/ \E c \in Callers : InsideCall(c) \/ ScriptCalls(c)
    \/ \E r \in Requests, outcome \in {"sent", "aborted"} : SenderEnds(r, outcome)

Spec == Init /\ [][Next]_vars

(* Fairness.  Pool threads and threads inside a call are ordinary runnable *)
(* threads, and the server finishes its writes or reports them failed.     *)
(* The last two are what the code asks of scripts: a callback terminates,  *)
(* and a writer or a retained WebSocket is used in the end.                *)
ScriptEnds(t) == ScriptReturns(t) \/ ScriptFails(t)

AnswersLater(h) ==
    \E c \in Callers, o \in HolderOps \ {"set_metadata_with_response_writer"} :
        BeginHolderCall(c, h, o)

Fairness ==
    /\ \A t \in Pool : WF_vars(Enter(t) \/ EnterThrows(t) \/ ErrorRemove(t)
                                 \/ Leave(t) \/ Destroy(t))
    /\ \A c \in Callers : WF_vars(InsideCall(c))
    /\ \A r \in Requests : WF_vars(
            \E outcome \in {"sent", "aborted"} : SenderEnds(r, outcome))
    /\ \A t \in Pool : SF_vars(ScriptEnds(t))
    /\ \A h \in Holders : SF_vars(AnswersLater(h))

FairSpec == Spec /\ Fairness

-----------------------------------------------------------------------------
(* Properties.                                                             *)

Calls == [op : RequestOps \cup HolderOps \cup {"finish", "none"},
          ptr : Pool \cup Holders \cup {None},
          req : Requests \cup {None},
          by : {"none", "script", "error", "server"},
          made : Holders \cup {None}]

(* Every variable keeps to the values the code gives it.                   *)
TypeOK ==
    /\ rreg \in SUBSET Pool
    /\ hreg \in SUBSET Holders
    /\ cur \in [Pool -> Requests \cup {None}]
    /\ pc \in [Callers -> {"idle", "enter", "script", "err_remove", "leave",
                           "destroy", "unwind", "check", "act", "putback",
                           "register", "hact", "hput"}]
    /\ call \in [Callers -> Calls]
    /\ state \in [Requests -> {"created", "committed"}]
    /\ native \in [Requests -> {"pion", "impl", "sender", "holder", "sent",
                                "aborted", "dropped"}]
    /\ status \in [Requests -> {"200", "script", "500"}]
    /\ holds \in [Holders -> Requests \cup {None}]
    /\ failed \in SUBSET Requests
    /\ untold \in SUBSET Requests
    /\ unsent \in SUBSET Requests
    /\ unclosed \in SUBSET Requests
    /\ stray \in SUBSET Pool
    /\ fault \in {"none", "use_after_free", "null_dereference"}

(* With a handle that stays with its callback script, the pointer any call *)
(* is using leads to the frame it was taken for, and the handler's last    *)
(* remove (which does nothing while a call has the handle out) is enough:  *)
(* a handle outlives its frame in the registry only where the path         *)
(* callback threw after it had registered it, and no longer than until the *)
(* thread, with the same address, enters its next callback.                *)
HandlesLive ==
    /\ \A t \in rreg : cur[t] # None \/ t \in stray
    /\ \A c \in Callers : pc[c] \in {"check", "act"} => ~Dangling(c)
    /\ fault # "use_after_free"

(* Taking the pointer out of the registry gives a call the object alone:   *)
(* no two calls work on one request or one writer, and an object in use    *)
(* cannot be found by a third.                                             *)
InCall(c) == pc[c] \in {"check", "act", "hact", "hput"}
                 /\ call[c].by \in {"script", "error"}
ExclusiveCheckout ==
    \A c \in Callers : InCall(c) =>
        /\ call[c].ptr \notin rreg \cup hreg
        /\ \A d \in Callers \ {c} : InCall(d) => call[d].ptr # call[c].ptr

(* Whoever won the compare-and-swap still finds the native object when it  *)
(* comes to use it, also when finish() and a script's send race: the swap  *)
(* lets one of them through, once.                                         *)
CommitPathSafe ==
    \A c \in Callers :
        pc[c] = "act" /\ call[c].op \in Committing /\ ~Dangling(c)
            => native[call[c].req] = "impl"

(* An HTTP request or a WebSocket message that could be answered ends with *)
(* its connection dropped by ~request only after an exception: a template  *)
(* that did not load or a native write that threw, both after the commit,  *)
(* or the path callback of a view without a script.  finish() answers      *)
(* everything else scripts leave open.                                     *)
UnansweredOnlyByThrow ==
    \A r \in Requests :
        native[r] = "dropped" /\ Kind[r] # "wsclose"
            => r \in untold \cup unsent \cup Scriptless

(* A script that fails before it answered is reported: once its handler is *)
(* gone the client's answer, with status 500 for HTTP, has been given to   *)
(* the native server, which alone can still fail to write or send it.      *)
ErrorReported ==
    fault = "none" =>
        \A r \in failed :
            \/ \E t \in Pool : cur[t] = r
            \/ /\ native[r] \in {"sent", "aborted"} \/ r \in unsent
               /\ Kind[r] = "http" => status[r] = "500"

(* Whoever uses the handles, a request that arrived is not forgotten: the  *)
(* frame that still owns its native object is there, or its writer or      *)
(* WebSocket is registered, or in the hands of a thread that is            *)
(* registering, using or putting it back.  Only a close that threw leaves  *)
(* one that nobody can reach again.                                        *)
HasHolder(c, h) == \/ call[c].made = h
                   \/ pc[c] \in {"hact", "hput"} /\ call[c].ptr = h
Reached(h) == h \in hreg \/ \E c \in Callers : HasHolder(c, h)
NobodyForgotten ==
    \A r \in Requests :
        /\ native[r] = "impl" => \E t \in Pool : cur[t] = r
        /\ native[r] = "holder" =>
              \E h \in Holders : holds[h] = r /\ (Reached(h) \/ r \in unclosed)

(* No call goes through a native pointer that was moved away.              *)
NoNullDereference == fault # "null_dereference"

Settled(r) == native[r] \in {"sent", "aborted", "dropped"}

(* Every request that arrives is settled in the end, one way or another,   *)
(* unless its WebSocket leaked in a close that threw or the program has    *)
(* already met undefined behaviour.                                        *)
EventuallySettled ==
    \A r \in Requests :
        native[r] # "pion" ~> Settled(r) \/ r \in unclosed \/ fault # "none"

(* The handler reports a failed script with status 500 and finish()        *)
(* answers what a script left open: a request whose template does not load *)
(* is not dropped without any answer.                                      *)
NeverSilentlyDropped == \A r \in untold : native[r] # "dropped"

(* What a client may rely on: ResponseContract, with the phase read off    *)
(* the atomic and the owner of the native object.                          *)
Phase(r) ==
    CASE native[r] = "pion" -> "new"
      [] native[r] = "impl" /\ state[r] = "created" -> "open"
      [] native[r] = "impl" /\ state[r] = "committed" -> "answering"
      [] native[r] = "sender" -> "answering"
      [] native[r] = "holder" -> "deferred"
      [] native[r] = "sent" -> "answered"
      [] native[r] \in {"aborted", "dropped"} -> "lost"

Contract == INSTANCE ResponseContract
                WITH phase <- [r \in Requests |-> Phase(r)], line <- status,
                     Unserved <- Scriptless
ResponseContractHolds == Contract!Spec

(* The contract without the status line, with one nobody edits in its      *)
(* place.  It is kept even if a request handle is used by other threads    *)
(* and after its handler is gone: no request is answered twice, or         *)
(* answered after it was lost, or opened again.                            *)
Outcome == INSTANCE ResponseContract
               WITH phase <- [r \in Requests |-> Phase(r)],
                    line <- [r \in Requests |-> "200"],
                    Unserved <- Scriptless
OutcomeContractHolds == Outcome!Spec
=============================================================================
