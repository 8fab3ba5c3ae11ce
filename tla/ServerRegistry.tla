--------------------------- MODULE ServerRegistry ---------------------------
(***************************************************************************)
(* server_create, server_stop, server_broadcast_websocket and              *)
(* server_get_tcp_port, called by scripts on several threads, some of them *)
(* the callback scripts of the servers themselves.  A server entry is a    *)
(* heap object with the native server and the callback scripts its         *)
(* handlers point into; its address is the handle.  As with request        *)
(* handles, every operation takes the entry out of the registry and puts   *)
(* it back, except a stop that worked, which deletes it.  A freed address  *)
(* may be the next entry's.                                                *)
(***************************************************************************)
EXTENDS HandleRegistry

CONSTANTS
    Apps,      \* threads that run scripts
    Workers,   \* pool threads of the native servers
    Entries,   \* heap addresses of server entries
    None       \* no entry

Callers == Apps \cup Workers

ASSUME CallersAssumption == Apps \cap Workers = {}
ASSUME EntryAssumption == None \notin Entries

VARIABLES
    sreg,      \* server registry
    native,    \* the native server: "none", "listening", "stopping"
    scripts,   \* entries whose list of callback scripts is alive
    serving,   \* the entry whose callback script a worker runs
    pc,        \* where a caller is inside an operation
    op,        \* the operation, and the entry it has in its hands
    twice,     \* a failed get_tcp_port put its entry back twice (history)
    exit,      \* is the process in exit()?  "no", "yes", "stop failed"
    fault      \* the first undefined behaviour; the program stops there

vars == <<sreg, native, scripts, serving, pc, op, twice, exit, fault>>

Uses == {"server_broadcast_websocket", "server_get_tcp_port"}
NoOp == [name |-> "none", entry |-> None]
Fault(kind, e) == [kind |-> kind, entry |-> e]
NoFault == Fault("none", None)

Init ==
    /\ sreg = Empty
    /\ native = [e \in Entries |-> "none"]
    /\ scripts = {}
    /\ serving = [w \in Workers |-> None]
    /\ pc = [c \in Callers |-> "script"]
    /\ op = [c \in Callers |-> NoOp]
    /\ twice = FALSE
    /\ exit = "no"
    /\ fault = NoFault

(* A worker runs scripts only while it serves a request.                   *)
At(c, p) ==
    /\ fault = NoFault
    /\ pc[c] = p
    /\ c \in Workers => serving[c] # None

(* It calls server_registry(), which is a static variable.                 *)
Looks(c, p) == At(c, p) /\ exit = "no"

Go(c, p, name, e) ==
    /\ pc' = [pc EXCEPT ![c] = p]
    /\ op' = [op EXCEPT ![c] = [name |-> name, entry |-> e]]

Done(c) == Go(c, "script", "none", None)

(* The list of callback scripts lives as long as the entry that holds it.  *)
Alive(e) == e \in scripts

-----------------------------------------------------------------------------
(* server_create: the callback scripts are put in a list the paths point   *)
(* into, then the native server is built and started.                      *)

Create(c, e) ==
    /\ At(c, "script")
    /\ native[e] = "none" /\ ~Alive(e)
    /\ scripts' = scripts \cup {e}
    /\ Go(c, "create", "server_create", e)
    /\ UNCHANGED <<sreg, native, serving, twice, exit, fault>>

(* From here on its handlers may run.                                      *)
CreateStarts(c) ==
    /\ At(c, "create")
    /\ native' = [native EXCEPT ![op[c].entry] = "listening"]
    /\ pc' = [pc EXCEPT ![c] = "register"]
    /\ UNCHANGED <<sreg, scripts, serving, op, twice, exit, fault>>

(* An invalid configuration, a missing directory, a port in use.           *)
CreateFails(c) ==
    /\ At(c, "create")
    /\ scripts' = scripts \ {op[c].entry}
    /\ Done(c)
    /\ UNCHANGED <<sreg, native, serving, twice, exit, fault>>

(* The list moves into the entry; its nodes stay where the paths point.    *)
CreateRegisters(c) ==
    /\ Looks(c, "register")
    /\ sreg' = Put(sreg, op[c].entry)
    /\ Done(c)
    /\ UNCHANGED <<native, scripts, serving, twice, exit, fault>>

-----------------------------------------------------------------------------
(* A worker takes a request of a listening server, reads the callback      *)
(* script out of the list and runs it.                                     *)
Serve(w, e) ==
    /\ fault = NoFault
    /\ serving[w] = None
    /\ native[e] = "listening"
    /\ serving' = [serving EXCEPT ![w] = e]
    /\ UNCHANGED <<sreg, native, scripts, pc, op, twice, exit, fault>>

Served(w) ==
    /\ At(w, "script")
    /\ serving' = [serving EXCEPT ![w] = None]
    /\ UNCHANGED <<sreg, native, scripts, pc, op, twice, exit, fault>>

-----------------------------------------------------------------------------
(* The operations on a handle.                                             *)

(* Mutant: the entry is looked up, not taken out.                          *)
BeginPeeks(c, e, name) ==
    /\ Looks(c, "script")
    /\ Found(sreg, e) /\ Alive(e)
    /\ Go(c, "use", name, e)
    /\ UNCHANGED <<sreg, native, scripts, serving, twice, exit, fault>>

Begin(c, e, name) ==
    /\ Looks(c, "script")
    /\ Found(sreg, e) /\ Alive(e)
    /\ sreg' = Remove(sreg, e)
    /\ Go(c, "use", name, e)
    /\ UNCHANGED <<native, scripts, serving, twice, exit, fault>>

(* Mutant: the null pointer is noticed, but put back like any entry.       *)
BeginInvalidPuts(c, e) ==
    /\ Looks(c, "script")
    /\ ~Found(sreg, e)
    /\ sreg' = Put(sreg, None)
    /\ UNCHANGED <<native, scripts, serving, pc, op, twice, exit, fault>>

(* An unknown handle, or one that another call has in its hands: the       *)
(* registry answers nullptr and pa->first reads through it.  pa->first     *)
(* also reads through an entry that was deleted while registered.          *)
BeginInvalid(c, e) ==
    /\ Looks(c, "script")
    /\ ~Found(sreg, e)
    /\ fault' = Fault("null_dereference", e)
    /\ UNCHANGED <<sreg, native, scripts, serving, pc, op, twice, exit>>

BeginDangling(c, e) ==
    /\ Looks(c, "script")
    /\ Found(sreg, e) /\ ~Alive(e)
    /\ fault' = Fault("use_after_free", e)
    /\ UNCHANGED <<sreg, native, scripts, serving, pc, op, twice, exit>>

(* An operation under way, on an entry somebody else has deleted or on one *)
(* that lives.                                                             *)
Using(c, names) == At(c, "use") /\ op[c].name \in names

UseDangling(c) ==
    LET e == op[c].entry IN
    /\ Using(c, Uses \cup {"server_stop"})
    /\ ~Alive(e) \/ native[e] = "none"
    /\ fault' = Fault("use_after_free", e)
    /\ UNCHANGED <<sreg, native, scripts, serving, pc, op, twice, exit>>

OnLive(c, names) ==
    Using(c, names) /\ Alive(op[c].entry) /\ native[op[c].entry] # "none"

(* Mutant: an operation that fails keeps the entry.                        *)
UseKeeps(c) ==
    /\ OnLive(c, Uses)
    /\ sreg' \in {sreg, Put(sreg, op[c].entry)}
    /\ Done(c)
    /\ UNCHANGED <<native, scripts, serving, twice, exit, fault>>

(* Done or failed, the entry is put back.                                  *)
Use(c) ==
    /\ OnLive(c, Uses)
    /\ sreg' = Put(sreg, op[c].entry)
    /\ Done(c)
    /\ UNCHANGED <<native, scripts, serving, twice, exit, fault>>

(* A get_tcp_port that failed puts it back a second time.                  *)
PortFails(c) ==
    /\ OnLive(c, {"server_get_tcp_port"})
    /\ sreg' = Put(sreg, op[c].entry)
    /\ pc' = [pc EXCEPT ![c] = "put again"]
    /\ UNCHANGED <<native, scripts, serving, op, twice, exit, fault>>

PortPutsAgain(c) ==
    /\ At(c, "put again")
    /\ sreg' = Put(sreg, op[c].entry)
    /\ twice' = TRUE
    /\ Done(c)
    /\ UNCHANGED <<native, scripts, serving, exit, fault>>

(* Mutant: a stop does not keep the native server from taking requests.    *)
StopWaitsListening(c) ==
    /\ OnLive(c, {"server_stop"})
    /\ native[op[c].entry] = "listening"
    /\ UNCHANGED <<sreg, native, scripts, serving, pc, op, twice, exit, fault>>

(* wilton_Server_stop: the native server stops listening, waits for its    *)
(* workers and is deleted.                                                 *)
StopWaits(c) ==
    /\ OnLive(c, {"server_stop"})
    /\ native[op[c].entry] = "listening"
    /\ native' = [native EXCEPT ![op[c].entry] = "stopping"]
    /\ UNCHANGED <<sreg, scripts, serving, pc, op, twice, exit, fault>>

Idle(e) == \A w \in Workers : serving[w] # e

(* Mutant: as in a broadcast, the entry is put back whatever the outcome.  *)
StopWorksPutsBack(c) ==
    LET e == op[c].entry IN
    /\ OnLive(c, {"server_stop"})
    /\ native[e] = "stopping" /\ Idle(e)
    /\ native' = [native EXCEPT ![e] = "none"]
    /\ sreg' = Put(sreg, e)
    /\ pc' = [pc EXCEPT ![c] = "delete"]
    /\ UNCHANGED <<scripts, serving, op, twice, exit, fault>>

StopWorks(c) ==
    LET e == op[c].entry IN
    /\ OnLive(c, {"server_stop"})
    /\ native[e] = "stopping" /\ Idle(e)
    /\ native' = [native EXCEPT ![e] = "none"]
    /\ pc' = [pc EXCEPT ![c] = "delete"]
    /\ UNCHANGED <<sreg, scripts, serving, op, twice, exit, fault>>

(* It throws: the entry is put back, to be stopped again.                  *)
StopFails(c) ==
    /\ OnLive(c, {"server_stop"})
    /\ sreg' = Put(sreg, op[c].entry)
    /\ Done(c)
    /\ UNCHANGED <<native, scripts, serving, twice, exit, fault>>

(* The entry is deleted, and the callback scripts with it.                 *)
StopDeletes(c) ==
    /\ At(c, "delete")
    /\ scripts' = scripts \ {op[c].entry}
    /\ Done(c)
    /\ UNCHANGED <<sreg, native, serving, twice, exit, fault>>

-----------------------------------------------------------------------------
(* exit() destroys the static pointer to the registry while other threads  *)
(* run.  A call under way has its copy of it; the registry dies with the   *)
(* last one and hands its entries to the deleter.                          *)

ExitStarts ==
    /\ fault = NoFault
    /\ exit = "no"
    /\ exit' = "yes"
    /\ UNCHANGED <<sreg, native, scripts, serving, pc, op, twice, fault>>

LooksTooLate(c) ==
    /\ At(c, "script") \/ At(c, "register")
    /\ exit # "no"
    /\ fault' = Fault("destroyed_registry", None)
    /\ UNCHANGED <<sreg, native, scripts, serving, pc, op, twice, exit>>

Deleting(e) ==
    /\ fault = NoFault
    /\ exit # "no"
    /\ \A c \in Callers : pc[c] \notin {"use", "put again", "delete"}
    /\ Found(sreg, e)

(* Mutant: the deleter deletes the entry before it stops the server.       *)
DeleterWaitsDeleted(e) ==
    /\ Deleting(e) /\ Alive(e)
    /\ native[e] = "listening"
    /\ native' = [native EXCEPT ![e] = "stopping"]
    /\ scripts' = scripts \ {e}
    /\ UNCHANGED <<sreg, serving, pc, op, twice, exit, fault>>

DeleterWaits(e) ==
    /\ Deleting(e) /\ Alive(e)
    /\ native[e] = "listening"
    /\ native' = [native EXCEPT ![e] = "stopping"]
    /\ UNCHANGED <<sreg, scripts, serving, pc, op, twice, exit, fault>>

DeleterWorks(e) ==
    /\ Deleting(e) /\ Alive(e)
    /\ native[e] = "stopping" /\ Idle(e)
    /\ native' = [native EXCEPT ![e] = "none"]
    /\ scripts' = scripts \ {e}
    /\ sreg' = Remove(sreg, e)
    /\ UNCHANGED <<serving, pc, op, twice, exit, fault>>

(* Nobody looks at the error of the stop; the entry is deleted, the native *)
(* server and its handlers stay.                                           *)
DeleterStopFails(e) ==
    /\ Deleting(e) /\ Alive(e)
    /\ native[e] # "none"
    /\ scripts' = scripts \ {e}
    /\ sreg' = Remove(sreg, e)
    /\ exit' = "stop failed"
    /\ UNCHANGED <<native, serving, pc, op, twice, fault>>

DeleterDangling(e) ==
    /\ Deleting(e) /\ ~Alive(e)
    /\ fault' = Fault("use_after_free", e)
    /\ UNCHANGED <<sreg, native, scripts, serving, pc, op, twice, exit>>

-----------------------------------------------------------------------------
CreateStep(c) == CreateStarts(c) \/ CreateFails(c) \/ CreateRegisters(c)

UseStep(c) == Use(c) \/ UseDangling(c) \/ PortFails(c) \/ PortPutsAgain(c)

StopStep(c) == StopWaits(c) \/ StopWorks(c) \/ StopFails(c) \/ StopDeletes(c)

DeleterStep(e) ==
    DeleterWaits(e) \/ DeleterWorks(e) \/ DeleterStopFails(e) \/ DeleterDangling(e)

Next ==
    \/ \E c \in Callers : CreateStep(c) \/ UseStep(c) \/ StopStep(c) \/ LooksTooLate(c)
    \/ \E c \in Callers, e \in Entries :
          \/ Create(c, e)
          \/ BeginInvalid(c, e)
          \/ BeginDangling(c, e)
          \/ \E name \in Uses \cup {"server_stop"} : Begin(c, e, name)
    \/ \E w \in Workers : Served(w) \/ \E e \in Entries : Serve(w, e)
    \/ ExitStarts
    \/ \E e \in Entries : DeleterStep(e)

Spec == Init /\ [][Next]_vars

(* A thread inside an operation goes on, and a callback script that goes   *)
(* on comes to an end; an operation does not have to fail.                 *)
Inside(c) ==
    \/ CreateStarts(c) \/ CreateRegisters(c) \/ UseStep(c)
    \/ StopWaits(c) \/ StopWorks(c) \/ StopDeletes(c)

FairSpec ==
    /\ Spec
    /\ \A c \in Callers : WF_vars(Inside(c))
    /\ \A w \in Workers : SF_vars(Served(w))

-----------------------------------------------------------------------------
(* Properties.                                                             *)

(* Every variable keeps to the values the code gives it.                   *)
TypeOK ==
    /\ sreg \subseteq Entries
    /\ native \in [Entries -> {"none", "listening", "stopping"}]
    /\ scripts \subseteq Entries
    /\ serving \in [Workers -> Entries \cup {None}]
    /\ pc \in [Callers -> {"script", "create", "register", "use", "put again",
                           "delete"}]
    /\ op \in [Callers -> [name : Uses \cup {"server_create", "server_stop", "none"},
                           entry : Entries \cup {None}]]
    /\ twice \in BOOLEAN
    /\ exit \in {"no", "yes", "stop failed"}
    /\ fault \in [kind : {"none", "null_dereference", "use_after_free",
                          "destroyed_registry"},
                  entry : Entries \cup {None}]

InHands(e) == {c \in Callers : op[c].entry = e /\ pc[c] # "put again"}

(* The callback script a handler reads is alive as long as any handler of  *)
(* its server runs: from before the server is started, through the move of *)
(* the list into the registered entry, to after it has been stopped, by a  *)
(* call or at exit, unless a stop at exit failed.                          *)
HandlerScriptsLive ==
    ~twice /\ exit # "stop failed" => \A w \in Workers : serving[w] # None =>
                  Alive(serving[w]) /\ native[serving[w]] # "none"

(* An entry is in the hands of one call at most, and not at the same time  *)
(* in the registry for another to take; until a get_tcp_port has failed.   *)
ServerUseExclusive ==
    ~twice => \A e \in Entries :
                  \A c, d \in InHands(e) : c = d /\ ~Found(sreg, e)

(* No call reads through an entry that was deleted, unless a get_tcp_port  *)
(* that failed has put an entry back twice: only then can one call have    *)
(* it in its hands and another delete it.                                  *)
OnlyDoublePutDangles == fault.kind = "use_after_free" => twice

(* A server that runs can be stopped: its handle is registered, or a call  *)
(* has it that will register it or is stopping it; a server that runs on   *)
(* for ever is one whose stop at exit failed.                              *)
NoServerLeak ==
    fault = NoFault /\ exit # "stop failed" =>
        \A e \in Entries : native[e] # "none" => Found(sreg, e) \/ InHands(e) # {}

(* Calls that wait for each other: each stops a server of which another of *)
(* them is a handler.                                                      *)
Stopping(c) == pc[c] = "use" /\ op[c].name = "server_stop"

Deadlocked ==
    UNION {X \in SUBSET Callers : \A c \in X :
              Stopping(c) /\ \E w \in X \cap Workers : serving[w] = op[c].entry}

(* A stop returns, however many requests the server has under way and      *)
(* whatever their scripts call, unless it waits for itself: a script of    *)
(* the server that stops it, directly or through the stop of another; or   *)
(* unless the process ends first.                                          *)
StopReturns ==
    \A c \in Callers :
        Stopping(c) ~> (~Stopping(c) \/ twice \/ exit # "no" \/ fault # NoFault \/ c \in Deadlocked)

(* A call whose handle finds no entry is refused as "Invalid               *)
(* 'serverHandle' parameter specified", even when the server runs and the  *)
(* entry only is in the hands of another broadcast or port query.          *)
NoNullEntry ==
    ~(/\ fault.kind = "null_dereference"
      /\ native[fault.entry] = "listening"
      /\ \E c \in InHands(fault.entry) : op[c].name \in Uses)
=============================================================================
