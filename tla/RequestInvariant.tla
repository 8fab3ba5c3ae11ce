-------------------------- MODULE RequestInvariant --------------------------
(***************************************************************************)
(* The inductive invariants behind the safety of RequestLifecycle: SInv,   *)
(* whoever uses a request handle, and IInv, when request handles stay with *)
(* their callback script (~SharedRequests).  TLC checks them as an         *)
(* invariant; RequestProofs proves that they are inductive and what        *)
(* follows from them.                                                      *)
(***************************************************************************)
EXTENDS RequestLifecycle

(* Frames: exactly the threads that are not idle have one, for a request   *)
(* that has arrived and was not dropped, and no request has two.           *)
Frames ==
    /\ \A t \in Pool : cur[t] = None <=> pc[t] = "idle"
    /\ \A t \in Pool : cur[t] # None => native[cur[t]] \notin {"pion", "dropped"}
    /\ \A t, u \in Pool : cur[t] # None /\ cur[t] = cur[u] => t = u

(* Roles: the record of a call says who runs which operation on what, and  *)
(* only a pool thread runs the code around a callback script.              *)
Roles ==
    /\ \A a \in Apps : pc[a] \notin {"idle", "enter", "err_remove", "leave",
                                     "destroy", "unwind"}
    /\ \A c \in Callers : pc[c] \in {"check", "act", "putback"} =>
          \/ call[c].by = "script" /\ call[c].op \in RequestOps
          \/ /\ call[c].by = "error"
             /\ call[c].op \in {"set_response_metadata", "send_response"}
             /\ c \in Pool /\ call[c].ptr = c /\ call[c].req = cur[c]
          \/ /\ call[c].by = "server" /\ call[c].op = "finish" /\ pc[c] # "putback"
             /\ c \in Pool /\ call[c].ptr = c /\ call[c].req = cur[c]
    /\ \A c \in Callers : pc[c] \in {"hact", "hput"} =>
          /\ call[c].by = "script" /\ call[c].op \in HolderOps
          /\ call[c].ptr \in Holders
    /\ \A c \in Callers : call[c].made # None =>
          pc[c] \in {"putback", "register"} /\ call[c].by = "script"
    /\ \A c \in Callers : pc[c] = "register" => call[c].made # None

(* Claims: an uncommitted request owns its native object unless it went    *)
(* with the frame of a path callback that threw; of the calls on a live    *)
(* request one at most has won the swap and not moved the object yet, and  *)
(* it still finds it; and the request of a call has arrived, so that a     *)
(* frame that died under the call does not come back to life.              *)
Claiming(c) == pc[c] = "act" /\ call[c].op \in Committing /\ ~Dangling(c)
Unmoved(r) == \/ native[r] \in {"pion", "impl"}
              \/ native[r] = "dropped" /\ r \in Scriptless
Claims ==
    /\ \A r \in Requests : state[r] = "created" => Unmoved(r)
    /\ \A c \in Callers : call[c].req # None => native[call[c].req] # "pion"
    /\ \A c \in Callers : Claiming(c) =>
          state[call[c].req] = "committed" /\ native[call[c].req] = "impl"
    /\ \A c, d \in Callers :
          Claiming(c) /\ Claiming(d) /\ call[c].req = call[d].req => c = d

(* Finished: finish() has seen to it that no request dies uncommitted,     *)
(* except where a view without a script never got to it.                   *)
Finished ==
    \A t \in Pool :
        /\ pc[t] = "destroy" => state[cur[t]] = "committed"
        /\ pc[t] = "unwind" => cur[t] \in Scriptless

(* Confined: only the frame's own thread is ever inside a call on it.      *)
InRequestCall == {"check", "act", "putback", "register", "destroy"}
Confined ==
    /\ \A a \in Apps : pc[a] \in {"script", "hact", "hput"}
    /\ \A c \in Callers : pc[c] \in InRequestCall =>
          c \in Pool /\ call[c].ptr = c /\ call[c].req = cur[c]

(* Handles: a thread's handle is registered exactly while its script, or   *)
(* the code around it, could use it, and from a path callback that threw   *)
(* to the next one of the thread.                                          *)
Handles ==
    \A t \in Pool :
        /\ t \in rreg <=> \/ pc[t] \in {"script", "err_remove", "register",
                                       "hact", "hput", "leave"}
                          \/ t \in stray
        /\ t \in stray => pc[t] \in {"idle", "enter", "unwind"}
        /\ pc[t] = "unwind" => t \in stray

(* Owners: a committing operation that has not yet moved the native object *)
(* still finds it, and has not failed before; a committed request that     *)
(* owns it is one of those, or its template did not load or its response   *)
(* could not be written.                                                   *)
Owners ==
    /\ \A c \in Callers : pc[c] = "act" /\ call[c].op \in Committing =>
          /\ state[cur[c]] = "committed" /\ native[cur[c]] = "impl"
          /\ cur[c] \notin untold \cup unsent
    /\ \A r \in untold \cup unsent : state[r] = "committed" /\ native[r] # "pion"
    /\ \A c \in Callers :
          pc[c] = "act" /\ call[c].op = "set_response_metadata" =>
             state[cur[c]] = "created"
    /\ \A r \in Requests :
          native[r] = "impl" /\ state[r] = "committed"
          /\ Kind[r] # "wsclose" /\ r \notin untold \cup unsent =>
             \E t \in Pool : /\ cur[t] = r /\ pc[t] = "act"
                             /\ call[t].op \in Committing

(* Writers: a heap object holds the object of one deferred request, and is *)
(* registered or in the hands of one call, never both.                     *)
Writers ==
    /\ \A h \in Holders : holds[h] # None => native[holds[h]] = "holder"
    /\ \A h, i \in Holders : holds[h] # None /\ holds[h] = holds[i] => h = i
    /\ \A h \in hreg : holds[h] # None
    /\ \A c \in Callers, h \in Holders : HasHolder(c, h) =>
          holds[h] # None /\ h \notin hreg
    /\ \A c, d \in Callers, h \in Holders :
          HasHolder(c, h) /\ HasHolder(d, h) => c = d
    /\ \A c \in Callers : pc[c] \in {"hact", "hput"} =>
          /\ call[c].req = holds[call[c].ptr]
          /\ HolderAdmits(call[c].op, call[c].req)

(* Hands: a native object that is owned by a request has a frame for it,   *)
(* and one that was deferred a heap object, which is registered or in the  *)
(* hands of a call unless a close of it threw.                             *)
Hands ==
    /\ \A r \in Requests : native[r] = "impl" => \E t \in Pool : cur[t] = r
    /\ \A r \in Requests : native[r] = "holder" => \E h \in Holders : holds[h] = r
    /\ \A h \in Holders : holds[h] # None => Reached(h) \/ holds[h] \in unclosed

(* Protocol: a close notification is never deferred, answered or streamed, *)
(* and the status line of other than HTTP requests is not edited: such a   *)
(* notification arrives committed, and the checks let an operation pass    *)
(* only for the protocol it is for.                                        *)
Protocol ==
    /\ \A r \in Requests : Kind[r] = "wsclose" =>
          /\ native[r] \in {"pion", "impl", "dropped"}
          /\ native[r] = "impl" => state[r] = "committed"
    /\ \A c \in Callers : pc[c] = "act" /\ call[c].req # None =>
          /\ call[c].op \in Committing => Kind[call[c].req] # "wsclose"
          /\ call[c].op = "set_response_metadata" => Kind[call[c].req] = "http"

(* Reports: how far the error answer for a failed script has come.         *)
Reported(r) ==
    /\ \/ native[r] \in {"sent", "aborted"}
       \/ r \in unsent /\ native[r] \in {"impl", "dropped"}
    /\ Kind[r] = "http" => status[r] = "500"
Reporting(t) ==
    \/ pc[t] = "err_remove" /\ state[cur[t]] = "created"
    \/ /\ pc[t] \in {"check", "act"} /\ call[t].by = "error"
       /\ \/ /\ call[t].op = "set_response_metadata"
             /\ state[cur[t]] = "created"
          \/ /\ call[t].op = "send_response"
             /\ pc[t] = "check" => state[cur[t]] = "created"
             /\ Kind[cur[t]] = "http" => status[cur[t]] = "500"
Reports ==
    \A r \in failed :
        \/ Reported(r)
        \/ \E t \in Pool : cur[t] = r /\ Reporting(t)

SInv ==
    /\ TypeOK
    /\ Frames
    /\ Roles
    /\ Claims
    /\ Finished
    /\ Writers
    /\ Hands
    /\ Protocol

IInv ==
    /\ SInv
    /\ fault # "use_after_free"
    /\ Confined
    /\ Handles
    /\ Owners
    /\ Reports
    /\ UnansweredOnlyByThrow

(* Every reachable state satisfies the inductive invariant of the proofs   *)
(* for its regime.                                                         *)
InductiveInvariant == SInv /\ (~SharedRequests => IInv)
=============================================================================
