---------------------------- MODULE RequestProofs ----------------------------
(***************************************************************************)
(* Machine-checked proofs about RequestLifecycle, for any sets of threads, *)
(* requests and heap addresses: its types, its inductive invariant, the    *)
(* safety properties, and that it implements ResponseContract.             *)
(***************************************************************************)
EXTENDS RequestInvariant, TLAPS

-----------------------------------------------------------------------------
(* Type correctness, whoever uses a request handle.                        *)

(* What TypeOK needs to be inductive: which kind of pointer a call works   *)
(* on, that a thread about to register a writer has one, and that a thread *)
(* that is not idle has a frame.                                           *)
Pointers ==
    /\ \A c \in Callers : pc[c] \in {"check", "act", "putback"} =>
          call[c].ptr \in Pool /\ call[c].by # "none"
    /\ \A c \in Callers : pc[c] \in {"hact", "hput"} => call[c].ptr \in Holders
    /\ \A c \in Callers : pc[c] = "register" => call[c].made \in Holders
    /\ \A t \in Pool : pc[t] # "idle" => cur[t] \in Requests

TInv == TypeOK /\ Pointers

LEMMA Updated ==
    ASSUME NEW S, NEW T, NEW f \in [S -> T], NEW x, NEW v \in T
    PROVE  [f EXCEPT ![x] = v] \in [S -> T]
OBVIOUS

LEMMA NoCallType == NoCall \in Calls
BY DEF NoCall, Calls

LEMMA ContinueType ==
    ASSUME TInv, NEW c \in Callers, NEW made \in Holders \cup {None},
           pc[c] \in {"check", "act"}, Continue(c, made), UNCHANGED cur
    PROVE  /\ pc' \in [Callers -> {"idle", "enter", "script", "err_remove",
                                   "leave", "destroy", "unwind", "check",
                                   "act", "putback", "register", "hact",
                                   "hput"}]
           /\ call' \in [Callers -> Calls]
           /\ Pointers'
<1>1. call[c] \in Calls /\ call[c].ptr \in Pool /\ call[c].by # "none"
  BY DEF TInv, TypeOK, Pointers
<1>2. CASE /\ call[c].by = "error"
           /\ pc' = [pc EXCEPT ![c] = "check"]
           /\ call' = [call EXCEPT ![c].op = "send_response"]
  BY <1>1, <1>2 DEF TInv, TypeOK, Pointers, Calls, RequestOps, Getters, Committing, Sends,
     Streams, Detaches
<1>3. CASE /\ pc' = [pc EXCEPT ![c] = "destroy"]
           /\ UNCHANGED call
  BY <1>1, <1>3 DEF TInv, TypeOK, Pointers
<1>4. CASE /\ pc' = [pc EXCEPT ![c] = "putback"]
           /\ call' = [call EXCEPT ![c].made = made]
  BY <1>1, <1>4 DEF TInv, TypeOK, Pointers, Calls
<1> QED BY <1>2, <1>3, <1>4 DEF Continue

LEMMA TypeStep == TInv /\ SInv /\ [Next]_vars => TInv'
<1> SUFFICES ASSUME TInv, SInv, [Next]_vars PROVE TInv'
  OBVIOUS
<1> USE DEF Callers, registries, threads, requests, history
<1>1. ASSUME NEW t \in Pool, NEW r \in Requests, Arrive(t, r) PROVE TInv'
  BY <1>1 DEF TInv, TypeOK, Pointers, Arrive, At
<1>2. ASSUME NEW t \in Pool, Enter(t) \/ EnterThrows(t) PROVE TInv'
  BY <1>2 DEF TInv, TypeOK, Pointers, Enter, EnterThrows, At, Put
<1>3. ASSUME NEW t \in Pool, ScriptReturns(t) PROVE TInv'
  BY <1>3 DEF TInv, TypeOK, Pointers, ScriptReturns, At
<1>4. ASSUME NEW t \in Pool, ScriptFails(t) PROVE TInv'
  BY <1>4 DEF TInv, TypeOK, Pointers, ScriptFails, At
<1>5. ASSUME NEW t \in Pool, ErrorRemove(t) PROVE TInv'
  <2>1. CASE Found(rreg, t)
    <3>1. call'[t] \in Calls
      BY <1>5, <2>1 DEF TInv, TypeOK, Pointers, ErrorRemove, At, Calls, RequestOps
    <3> QED BY <1>5, <2>1, <3>1 DEF TInv, TypeOK, Pointers, ErrorRemove, At, Remove
  <2>2. CASE ~Found(rreg, t)
    BY <1>5, <2>2 DEF TInv, TypeOK, Pointers, ErrorRemove, At
  <2> QED BY <2>1, <2>2
<1>6. ASSUME NEW t \in Pool, Leave(t) PROVE TInv'
  <2>1. [op |-> "finish", ptr |-> t, req |-> cur[t], by |-> "server",
         made |-> None] \in Calls
    BY <1>6 DEF TInv, TypeOK, Calls
  <2> QED BY <1>6, <2>1 DEF TInv, TypeOK, Pointers, Leave, At, Remove
<1>7. ASSUME NEW t \in Pool, Destroy(t) PROVE TInv'
  BY <1>7, NoCallType DEF TInv, TypeOK, Pointers, Destroy, At
<1>8. ASSUME NEW c \in Callers, NEW t \in Pool, NEW o \in RequestOps,
             BeginCall(c, t, o)
      PROVE  TInv'
  <2>1. [op |-> o, ptr |-> t, req |-> cur[t], by |-> "script", made |-> None]
           \in Calls
    BY <1>8 DEF TInv, TypeOK, Calls
  <2> QED BY <1>8, <2>1 DEF TInv, TypeOK, Pointers, BeginCall, At, Remove
<1>9. ASSUME NEW c \in Callers, NEW h \in Holders, NEW o \in HolderOps,
             BeginHolderCall(c, h, o)
      PROVE  TInv'
  <2>1. [op |-> o, ptr |-> h, req |-> holds[h], by |-> "script", made |-> None]
           \in Calls
    BY <1>9 DEF TInv, TypeOK, Calls
  <2> QED BY <1>9, <2>1 DEF TInv, TypeOK, Pointers, BeginHolderCall, At, Remove
<1>10. ASSUME NEW c \in Callers, CheckPasses(c) PROVE TInv'
  BY <1>10 DEF TInv, TypeOK, Pointers, CheckPasses, At, StateAfter
<1>11. ASSUME NEW c \in Callers, CheckRefuses(c) PROVE TInv'
  <2>1. pc[c] = "check" /\ Continue(c, None) /\ UNCHANGED cur
    BY <1>11 DEF CheckRefuses, At
  <2> QED BY <1>11, <2>1, ContinueType DEF TInv, TypeOK, CheckRefuses
<1>12. ASSUME NEW c \in Callers, ActGet(c) PROVE TInv'
  <2>1. pc[c] = "act" /\ Continue(c, None) /\ UNCHANGED cur
    BY <1>12 DEF ActGet, Acting, At
  <2> QED BY <1>12, <2>1, ContinueType DEF TInv, TypeOK, ActGet
<1>13. ASSUME NEW c \in Callers, ActSetMetadata(c) PROVE TInv'
  <2>1. pc[c] = "act" /\ Continue(c, None) /\ UNCHANGED cur
    BY <1>13 DEF ActSetMetadata, Acting, At
  <2> QED BY <1>13, <2>1, ContinueType DEF TInv, TypeOK, ActSetMetadata
<1>14. ASSUME NEW c \in Callers, ActSend(c) PROVE TInv'
  <2>1. pc[c] = "act" /\ Continue(c, None) /\ UNCHANGED cur
    BY <1>14 DEF ActSend, Acting, At
  <2> QED BY <1>14, <2>1, ContinueType DEF TInv, TypeOK, ActSend
<1>15. ASSUME NEW c \in Callers, ActStream(c) PROVE TInv'
  <2>1. pc[c] = "act" /\ Continue(c, None) /\ UNCHANGED cur
    BY <1>15 DEF ActStream, Acting, At
  <2>2. PICK owner \in {"sender", "aborted"} : native' = [native EXCEPT ![call[c].req] = owner]
    BY <1>15 DEF ActStream
  <2>3. native' \in [Requests -> {"pion", "impl", "sender", "holder", "sent", "aborted",
                                 "dropped"}]
    BY <2>2, Updated DEF TInv, TypeOK
  <2>4. UNCHANGED <<registries, cur, state, status, holds, history, fault>>
    BY <1>15 DEF ActStream
  <2> QED BY <2>1, <2>3, <2>4, ContinueType DEF TInv, TypeOK
<1>16. ASSUME NEW c \in Callers, ActTemplateFails(c) \/ ActWriteFails(c) PROVE TInv'
  <2>1. /\ pc[c] = "act" /\ ~Dangling(c)
        /\ Continue(c, None) /\ UNCHANGED cur
    BY <1>16 DEF ActTemplateFails, ActWriteFails, Acting, At
  <2>2. call[c].req \in Requests
    BY <2>1 DEF TInv, TypeOK, Calls, Dangling
  <2>3. /\ untold' \in SUBSET Requests /\ unsent' \in SUBSET Requests
        /\ UNCHANGED <<registries, requests, holds, failed, unclosed, stray, fault>>
    BY <1>16, <2>2 DEF TInv, TypeOK, ActTemplateFails, ActWriteFails
  <2>4. /\ pc' \in [Callers -> {"idle", "enter", "script", "err_remove",
                                "leave", "destroy", "unwind", "check",
                                "act", "putback", "register", "hact",
                                "hput"}]
        /\ call' \in [Callers -> Calls] /\ Pointers'
    BY <2>1, ContinueType
  <2> QED BY <2>1, <2>3, <2>4 DEF TInv, TypeOK
<1>17. ASSUME NEW c \in Callers, NEW h \in Holders, ActDetach(c, h) PROVE TInv'
  <2>1. pc[c] = "act" /\ Continue(c, h) /\ UNCHANGED cur
    BY <1>17 DEF ActDetach, Acting, At
  <2>2. call[c].req \in Requests \cup {None}
    BY DEF TInv, TypeOK, Calls
  <2> QED BY <1>17, <2>1, <2>2, ContinueType DEF TInv, TypeOK, ActDetach
<1>18. ASSUME NEW c \in Callers, PutBack(c) PROVE TInv'
  <2>1. call[c].ptr \in Pool /\ call[c].made \in Holders \cup {None}
    BY <1>18 DEF TInv, TypeOK, Pointers, PutBack, At, Calls
  <2> QED BY <1>18, <2>1, NoCallType DEF TInv, TypeOK, Pointers, PutBack, At, Put
<1>19. ASSUME NEW c \in Callers, Register(c) PROVE TInv'
  BY <1>19, NoCallType DEF TInv, TypeOK, Pointers, Register, At, Put
<1>20. ASSUME NEW c \in Callers, UseAfterFree(c) \/ NullDereference(c) PROVE TInv'
  BY <1>20 DEF TInv, TypeOK, Pointers, UseAfterFree, NullDereference
<1>21. ASSUME NEW c \in Callers, HolderSetMetadata(c) PROVE TInv'
  <2>1. status' \in [Requests -> {"200", "script", "500"}]
    BY <1>21 DEF TInv, TypeOK, HolderSetMetadata
  <2> QED BY <1>21, <2>1 DEF TInv, TypeOK, Pointers, HolderSetMetadata, At
<1>22. ASSUME NEW c \in Callers, HolderPutBack(c) PROVE TInv'
  BY <1>22, NoCallType DEF TInv, TypeOK, Pointers, HolderPutBack, At, Put
<1>23. ASSUME NEW c \in Callers, HolderSend(c) PROVE TInv'
  <2>1. PICK outcome \in {"sent", "aborted"} : native' = [native EXCEPT ![call[c].req] = outcome]
    BY <1>23 DEF HolderSend
  <2>2. native' \in [Requests -> {"pion", "impl", "sender", "holder", "sent", "aborted",
                                 "dropped"}]
    BY <2>1, Updated DEF TInv, TypeOK
  <2>3. /\ pc' = [pc EXCEPT ![c] = "script"] /\ call' = [call EXCEPT ![c] = NoCall]
        /\ holds' = [holds EXCEPT ![call[c].ptr] = None]
        /\ UNCHANGED <<registries, cur, state, status, history, fault>>
    BY <1>23 DEF HolderSend
  <2>4. call' \in [Callers -> Calls] /\ holds' \in [Holders -> Requests \cup {None}]
    BY <2>3, Updated, NoCallType DEF TInv, TypeOK
  <2>5. pc' \in [Callers -> {"idle", "enter", "script", "err_remove", "leave", "destroy",
                            "unwind", "check", "act", "putback", "register", "hact",
                            "hput"}]
    BY <2>3, Updated DEF TInv, TypeOK
  <2>6. Pointers'
    BY <1>23, <2>3 DEF TInv, TypeOK, Pointers, HolderSend, At
  <2> QED BY <2>2, <2>3, <2>4, <2>5, <2>6 DEF TInv, TypeOK
<1>24. ASSUME NEW c \in Callers, CloseFails(c) PROVE TInv'
  <2>1. call[c].req \in Requests
    <3>1. pc[c] = "hact" /\ call[c].ptr \in Holders /\ HasHolder(c, call[c].ptr)
      BY <1>24 DEF CloseFails, At, TInv, Pointers, HasHolder
    <3> QED BY <3>1 DEF TInv, TypeOK, SInv, Writers
  <2> QED BY <1>24, <2>1, NoCallType DEF TInv, TypeOK, Pointers, CloseFails, At
<1>25. ASSUME NEW r \in Requests, NEW outcome \in {"sent", "aborted"},
              SenderEnds(r, outcome)
       PROVE  TInv'
  BY <1>25 DEF TInv, TypeOK, Pointers, SenderEnds
<1>26. CASE UNCHANGED vars
  BY <1>26 DEF TInv, TypeOK, Pointers, vars
<1> QED
  BY <1>1, <1>2, <1>3, <1>4, <1>5, <1>6, <1>7, <1>8, <1>9, <1>10, <1>11, <1>12,
     <1>13, <1>14, <1>15, <1>16, <1>17, <1>18, <1>19, <1>20, <1>21, <1>22,
     <1>23, <1>24, <1>25, <1>26
  DEF Next, ServerStep, InsideCall, ScriptCalls

-----------------------------------------------------------------------------
(* Whoever uses a request handle: SInv.                                    *)

LEMMA ContinueHolders ==
    ASSUME TInv, SInv, NEW c \in Callers, pc[c] \in {"check", "act"},
           Continue(c, None)
    PROVE  /\ \A d \in Callers, h \in Holders : HasHolder(d, h)' <=> HasHolder(d, h)
           /\ \A d \in Callers : pc'[d] \in {"hact", "hput"} =>
                 pc[d] = pc'[d] /\ call[d] = call'[d]
<1> USE DEF Callers
<1>1. call[c] \in Calls /\ call[c].made = None
  BY DEF TInv, TypeOK, SInv, Roles
<1>2. CASE /\ pc' = [pc EXCEPT ![c] = "check"]
           /\ call' = [call EXCEPT ![c].op = "send_response"]
  BY <1>1, <1>2, NoneAssumption DEF TInv, TypeOK, Calls, HasHolder
<1>3. CASE /\ pc' = [pc EXCEPT ![c] = "destroy"]
           /\ UNCHANGED call
  BY <1>1, <1>3, NoneAssumption DEF TInv, TypeOK, HasHolder
<1>4. CASE /\ pc' = [pc EXCEPT ![c] = "putback"]
           /\ call' = [call EXCEPT ![c].made = None]
  BY <1>1, <1>4, NoneAssumption DEF TInv, TypeOK, Calls, HasHolder
<1> QED BY <1>2, <1>3, <1>4 DEF Continue

LEMMA ContinueOthers ==
    ASSUME TInv, NEW c \in Callers, NEW made \in Holders \cup {None}, Continue(c, made)
    PROVE  /\ pc' = [pc EXCEPT ![c] = pc'[c]] /\ pc'[c] \in {"check", "destroy", "putback"}
           /\ pc'[c] = "destroy" => call[c].by = "server"
           /\ \A d \in Callers \ {c} : pc'[d] = pc[d] /\ call'[d] = call[d]
BY DEF Continue, TInv, TypeOK

(* Frames: a thread takes up a request only when it has none, and only one *)
(* that has not arrived.                                                   *)
LEMMA FramesStep ==
    ASSUME TInv, TInv', SInv, [Next]_vars
    PROVE  Frames'
<1> USE DEF Callers, registries, threads, requests, history
<1>1. ASSUME NEW t \in Pool, NEW r \in Requests, Arrive(t, r) PROVE Frames'
  BY <1>1, ThreadsAssumption, NoneAssumption DEF Arrive, At, TInv, TypeOK, SInv, Frames, Roles
<1>2. ASSUME NEW t \in Pool, Enter(t) \/ EnterThrows(t) PROVE Frames'
  BY <1>2, ThreadsAssumption, NoneAssumption DEF Enter, EnterThrows, Put, At, TInv, TypeOK, SInv, Frames,
     Roles
<1>3. ASSUME NEW t \in Pool, ScriptReturns(t) PROVE Frames'
  BY <1>3, ThreadsAssumption, NoneAssumption DEF ScriptReturns, At, TInv, TypeOK, SInv,
     Frames, Roles
<1>4. ASSUME NEW t \in Pool, ScriptFails(t) PROVE Frames'
  BY <1>4, ThreadsAssumption, NoneAssumption DEF ScriptFails, At, TInv, TypeOK, SInv,
     Frames, Roles
<1>5. ASSUME NEW t \in Pool, ErrorRemove(t) PROVE Frames'
  BY <1>5, ThreadsAssumption, NoneAssumption DEF ErrorRemove, Remove, Found, At, TInv,
     TypeOK, SInv, Frames, Roles
<1>6. ASSUME NEW t \in Pool, Leave(t) PROVE Frames'
  BY <1>6, ThreadsAssumption, NoneAssumption DEF Leave, Remove, At, TInv, TypeOK, SInv,
     Frames, Roles
<1>7. ASSUME NEW t \in Pool, Destroy(t) PROVE Frames'
  BY <1>7, ThreadsAssumption, NoneAssumption DEF Destroy, NoCall, At, TInv, TypeOK, SInv,
     Frames, Roles
<1>8. ASSUME NEW c \in Callers, NEW t \in Pool, NEW o \in RequestOps,
             BeginCall(c, t, o)
      PROVE  Frames'
  BY <1>8, ThreadsAssumption, NoneAssumption DEF BeginCall, Remove, Found, At, TInv, TypeOK,
     SInv, Frames, Roles
<1>9. ASSUME NEW c \in Callers, NEW h \in Holders, NEW o \in HolderOps,
             BeginHolderCall(c, h, o)
      PROVE  Frames'
  BY <1>9, ThreadsAssumption, NoneAssumption DEF BeginHolderCall, Remove, Found, At, TInv,
     TypeOK, SInv, Frames, Roles
<1>10. ASSUME NEW c \in Callers, CheckPasses(c) PROVE Frames'
  BY <1>10, ThreadsAssumption, NoneAssumption DEF CheckPasses, At, TInv, TypeOK, SInv,
     Frames, Roles
<1>11. ASSUME NEW c \in Callers, CheckRefuses(c) PROVE Frames'
  BY <1>11, ThreadsAssumption, NoneAssumption DEF CheckRefuses, Continue, At, TInv, TypeOK,
     SInv, Frames, Roles
<1>12. ASSUME NEW c \in Callers, ActGet(c) PROVE Frames'
  BY <1>12, ThreadsAssumption, NoneAssumption DEF ActGet, Acting, Continue, At, TInv,
     TypeOK, SInv, Frames, Roles
<1>13. ASSUME NEW c \in Callers, ActSetMetadata(c) PROVE Frames'
  BY <1>13, ThreadsAssumption, NoneAssumption DEF ActSetMetadata, Acting, Continue, At,
     TInv, TypeOK, SInv, Frames, Roles
<1>14. ASSUME NEW c \in Callers, ActSend(c) PROVE Frames'
  BY <1>14, ThreadsAssumption, NoneAssumption DEF ActSend, Acting, Continue, At, TInv,
     TypeOK, SInv, Frames, Roles
<1>15. ASSUME NEW c \in Callers, ActStream(c) PROVE Frames'
  BY <1>15, ThreadsAssumption, NoneAssumption DEF ActStream, Acting, Continue, At, TInv,
     TypeOK, SInv, Frames, Roles
<1>16. ASSUME NEW c \in Callers, ActTemplateFails(c) \/ ActWriteFails(c) PROVE Frames'
  BY <1>16, ThreadsAssumption, NoneAssumption DEF ActTemplateFails, ActWriteFails, Acting, Continue, At,
     TInv, TypeOK, SInv, Frames, Roles
<1>17. ASSUME NEW c \in Callers, NEW h \in Holders,
             ActDetach(c, h)
      PROVE  Frames'
  BY <1>17, ThreadsAssumption, NoneAssumption DEF ActDetach, Acting, Continue, At, TInv,
     TypeOK, SInv, Frames, Roles
<1>18. ASSUME NEW c \in Callers, PutBack(c) PROVE Frames'
  BY <1>18, ThreadsAssumption, NoneAssumption DEF PutBack, Put, NoCall, At, TInv, TypeOK,
     SInv, Frames, Roles
<1>19. ASSUME NEW c \in Callers, Register(c) PROVE Frames'
  BY <1>19, ThreadsAssumption, NoneAssumption DEF Register, Put, NoCall, At, TInv, TypeOK,
     SInv, Frames, Roles
<1>20. ASSUME NEW c \in Callers, NullDereference(c) PROVE Frames'
  BY <1>20, ThreadsAssumption, NoneAssumption DEF NullDereference, At, TInv, TypeOK, SInv,
     Frames, Roles
<1>21. ASSUME NEW c \in Callers, HolderSetMetadata(c) PROVE Frames'
  BY <1>21, ThreadsAssumption, NoneAssumption DEF HolderSetMetadata, At, TInv, TypeOK, SInv,
     Frames, Roles
<1>22. ASSUME NEW c \in Callers, HolderPutBack(c) PROVE Frames'
  BY <1>22, ThreadsAssumption, NoneAssumption DEF HolderPutBack, Put, NoCall, At, TInv,
     TypeOK, SInv, Frames, Roles
<1>23. ASSUME NEW c \in Callers, HolderSend(c) PROVE Frames'
  BY <1>23, ThreadsAssumption, NoneAssumption DEF HolderSend, NoCall, At, TInv, TypeOK,
     SInv, Frames, Roles
<1>24. ASSUME NEW c \in Callers, CloseFails(c) PROVE Frames'
  BY <1>24, ThreadsAssumption, NoneAssumption DEF CloseFails, NoCall, At, TInv, TypeOK,
     SInv, Frames, Roles
<1>25. ASSUME NEW r \in Requests, NEW outcome \in {"sent", "aborted"},
             SenderEnds(r, outcome)
      PROVE  Frames'
  BY <1>25, ThreadsAssumption, NoneAssumption DEF SenderEnds, At, TInv, TypeOK, SInv,
     Frames, Roles
<1>26. ASSUME NEW c \in Callers, UseAfterFree(c) PROVE Frames'
  BY <1>26 DEF UseAfterFree, TInv, TypeOK, SInv, Frames, Roles, Writers, Hands,
     HasHolder
<1>27. CASE UNCHANGED vars
  BY <1>27 DEF vars, TInv, TypeOK, SInv, Frames, Roles
<1> QED BY <1>1, <1>2, <1>3, <1>4, <1>5, <1>6, <1>7, <1>8, <1>9, <1>10, <1>11,
  <1>12, <1>13, <1>14, <1>15, <1>16, <1>17, <1>18, <1>19, <1>20, <1>21, <1>22,
  <1>23, <1>24, <1>25, <1>26, <1>27 DEF Next, ServerStep, InsideCall, ScriptCalls

LEMMA ContinueRoles ==
    ASSUME TInv, SInv, NEW c \in Callers, NEW made \in Holders \cup {None},
           pc[c] \in {"check", "act"}, Continue(c, made), UNCHANGED cur,
           made # None => call[c].by = "script"
    PROVE  Roles'
<1> USE DEF Callers
<1>1. call[c] \in Calls /\ call[c].made = None
  BY DEF TInv, TypeOK, SInv, Roles
<1>2. CASE /\ call[c].by = "error" /\ call[c].op = "set_response_metadata"
           /\ pc' = [pc EXCEPT ![c] = "check"]
           /\ call' = [call EXCEPT ![c].op = "send_response"]
  BY <1>1, <1>2, ThreadsAssumption, NoneAssumption
  DEF TInv, TypeOK, SInv, Roles, Calls
<1>3. CASE /\ call[c].by = "server"
           /\ pc' = [pc EXCEPT ![c] = "destroy"]
           /\ UNCHANGED call
  BY <1>1, <1>3, ThreadsAssumption, NoneAssumption
  DEF TInv, TypeOK, SInv, Roles
<1>4. CASE /\ call[c].by = "script" \/ (call[c].by = "error" /\ call[c].op = "send_response")
           /\ pc' = [pc EXCEPT ![c] = "putback"]
           /\ call' = [call EXCEPT ![c].made = made]
  BY <1>1, <1>4, ThreadsAssumption, NoneAssumption
  DEF TInv, TypeOK, SInv, Roles, Calls
<1> QED BY <1>2, <1>3, <1>4 DEF Continue

(* Roles: every operation is run by who may run it.                        *)
LEMMA RolesStep ==
    ASSUME TInv, TInv', SInv, [Next]_vars
    PROVE  Roles'
<1> USE DEF Callers, registries, threads, requests, history
<1>1. ASSUME NEW t \in Pool, NEW r \in Requests, Arrive(t, r) PROVE Roles'
  BY <1>1, ThreadsAssumption, NoneAssumption DEF Arrive, At, TInv, TypeOK, SInv, Frames, Roles
<1>2. ASSUME NEW t \in Pool, Enter(t) \/ EnterThrows(t) PROVE Roles'
  BY <1>2, ThreadsAssumption, NoneAssumption DEF Enter, EnterThrows, Put, At, TInv, TypeOK, SInv, Frames,
     Roles
<1>3. ASSUME NEW t \in Pool, ScriptReturns(t) PROVE Roles'
  BY <1>3, ThreadsAssumption, NoneAssumption DEF ScriptReturns, At, TInv, TypeOK, SInv,
     Frames, Roles
<1>4. ASSUME NEW t \in Pool, ScriptFails(t) PROVE Roles'
  BY <1>4, ThreadsAssumption, NoneAssumption DEF ScriptFails, At, TInv, TypeOK, SInv,
     Frames, Roles
<1>5. ASSUME NEW t \in Pool, ErrorRemove(t) PROVE Roles'
  BY <1>5, ThreadsAssumption, NoneAssumption DEF ErrorRemove, Remove, Found, At, TInv,
     TypeOK, SInv, Frames, Roles
<1>6. ASSUME NEW t \in Pool, Leave(t) PROVE Roles'
  BY <1>6, ThreadsAssumption, NoneAssumption DEF Leave, Remove, At, TInv, TypeOK, SInv,
     Frames, Roles
<1>7. ASSUME NEW t \in Pool, Destroy(t) PROVE Roles'
  BY <1>7, ThreadsAssumption, NoneAssumption DEF Destroy, NoCall, At, TInv, TypeOK, SInv,
     Frames, Roles
<1>8. ASSUME NEW c \in Callers, NEW t \in Pool, NEW o \in RequestOps,
             BeginCall(c, t, o)
      PROVE  Roles'
  BY <1>8, ThreadsAssumption, NoneAssumption DEF BeginCall, Remove, Found, At, TInv, TypeOK,
     SInv, Frames, Roles
<1>9. ASSUME NEW c \in Callers, NEW h \in Holders, NEW o \in HolderOps,
             BeginHolderCall(c, h, o)
      PROVE  Roles'
  BY <1>9, ThreadsAssumption, NoneAssumption DEF BeginHolderCall, Remove, Found, At, TInv,
     TypeOK, SInv, Frames, Roles
<1>10. ASSUME NEW c \in Callers, CheckPasses(c) PROVE Roles'
  BY <1>10, ThreadsAssumption, NoneAssumption DEF CheckPasses, At, TInv, TypeOK, SInv,
     Frames, Roles
<1>11. ASSUME NEW c \in Callers, CheckRefuses(c) PROVE Roles'
  <2>1. pc[c] \in {"check", "act"} /\ Continue(c, None) /\ UNCHANGED cur
    BY <1>11 DEF CheckRefuses, At, Acting
  <2> QED BY <2>1, ContinueRoles
<1>12. ASSUME NEW c \in Callers, ActGet(c) PROVE Roles'
  <2>1. pc[c] \in {"check", "act"} /\ Continue(c, None) /\ UNCHANGED cur
    BY <1>12 DEF ActGet, At, Acting
  <2> QED BY <2>1, ContinueRoles
<1>13. ASSUME NEW c \in Callers, ActSetMetadata(c) PROVE Roles'
  <2>1. pc[c] \in {"check", "act"} /\ Continue(c, None) /\ UNCHANGED cur
    BY <1>13 DEF ActSetMetadata, At, Acting
  <2> QED BY <2>1, ContinueRoles
<1>14. ASSUME NEW c \in Callers, ActSend(c) PROVE Roles'
  <2>1. pc[c] \in {"check", "act"} /\ Continue(c, None) /\ UNCHANGED cur
    BY <1>14 DEF ActSend, At, Acting
  <2> QED BY <2>1, ContinueRoles
<1>15. ASSUME NEW c \in Callers, ActStream(c) PROVE Roles'
  <2>1. pc[c] \in {"check", "act"} /\ Continue(c, None) /\ UNCHANGED cur
    BY <1>15 DEF ActStream, At, Acting
  <2> QED BY <2>1, ContinueRoles
<1>16. ASSUME NEW c \in Callers, ActTemplateFails(c) \/ ActWriteFails(c) PROVE Roles'
  <2>1. pc[c] \in {"check", "act"} /\ Continue(c, None) /\ UNCHANGED cur
    BY <1>16 DEF ActTemplateFails, ActWriteFails, At, Acting
  <2> QED BY <2>1, ContinueRoles
<1>17. ASSUME NEW c \in Callers, NEW h \in Holders,
             ActDetach(c, h)
      PROVE  Roles'
  <2>1. pc[c] \in {"check", "act"} /\ Continue(c, h) /\ UNCHANGED cur
    BY <1>17 DEF ActDetach, At, Acting
  <2>2. call[c].by = "script"
    BY <1>17 DEF ActDetach, Acting, At, SInv, Roles, Detaches
  <2> QED BY <2>1, <2>2, ContinueRoles
<1>18. ASSUME NEW c \in Callers, PutBack(c) PROVE Roles'
  BY <1>18, ThreadsAssumption, NoneAssumption DEF PutBack, Put, NoCall, At, TInv, TypeOK,
     SInv, Frames, Roles
<1>19. ASSUME NEW c \in Callers, Register(c) PROVE Roles'
  BY <1>19, ThreadsAssumption, NoneAssumption DEF Register, Put, NoCall, At, TInv, TypeOK,
     SInv, Frames, Roles
<1>20. ASSUME NEW c \in Callers, NullDereference(c) PROVE Roles'
  BY <1>20, ThreadsAssumption, NoneAssumption DEF NullDereference, At, TInv, TypeOK, SInv,
     Frames, Roles
<1>21. ASSUME NEW c \in Callers, HolderSetMetadata(c) PROVE Roles'
  BY <1>21, ThreadsAssumption, NoneAssumption DEF HolderSetMetadata, At, TInv, TypeOK, SInv,
     Frames, Roles
<1>22. ASSUME NEW c \in Callers, HolderPutBack(c) PROVE Roles'
  BY <1>22, ThreadsAssumption, NoneAssumption DEF HolderPutBack, Put, NoCall, At, TInv,
     TypeOK, SInv, Frames, Roles
<1>23. ASSUME NEW c \in Callers, HolderSend(c) PROVE Roles'
  BY <1>23, ThreadsAssumption, NoneAssumption DEF HolderSend, NoCall, At, TInv, TypeOK,
     SInv, Frames, Roles
<1>24. ASSUME NEW c \in Callers, CloseFails(c) PROVE Roles'
  BY <1>24, ThreadsAssumption, NoneAssumption DEF CloseFails, NoCall, At, TInv, TypeOK,
     SInv, Frames, Roles
<1>25. ASSUME NEW r \in Requests, NEW outcome \in {"sent", "aborted"},
             SenderEnds(r, outcome)
      PROVE  Roles'
  BY <1>25, ThreadsAssumption, NoneAssumption DEF SenderEnds, At, TInv, TypeOK, SInv,
     Frames, Roles
<1>26. ASSUME NEW c \in Callers, UseAfterFree(c) PROVE Roles'
  BY <1>26 DEF UseAfterFree, TInv, TypeOK, SInv, Frames, Roles, Writers, Hands,
     HasHolder
<1>27. CASE UNCHANGED vars
  BY <1>27 DEF vars, TInv, TypeOK, SInv, Frames, Roles
<1> QED BY <1>1, <1>2, <1>3, <1>4, <1>5, <1>6, <1>7, <1>8, <1>9, <1>10, <1>11,
  <1>12, <1>13, <1>14, <1>15, <1>16, <1>17, <1>18, <1>19, <1>20, <1>21, <1>22,
  <1>23, <1>24, <1>25, <1>26, <1>27 DEF Next, ServerStep, InsideCall, ScriptCalls

(* What may change while the claims hold: nobody comes to claim a request, *)
(* and who still claims one finds it as it was.                            *)
LEMMA ClaimsKept ==
    ASSUME SInv,
           \A r \in Requests : state'[r] = "created" => Unmoved(r)',
           \A d \in Callers : call'[d].req # None => native'[call'[d].req] # "pion",
           \A d \in Callers : Claiming(d)' =>
               /\ Claiming(d) /\ call'[d].req = call[d].req
               /\ state'[call[d].req] = state[call[d].req]
               /\ native'[call[d].req] = native[call[d].req]
    PROVE  Claims'
BY DEF SInv, Claims

(* A step that leaves the requests alone and lets no call act.             *)
LEMMA ClaimsUntouched ==
    ASSUME SInv, UNCHANGED <<cur, state, native>>,
           \A d \in Callers : pc'[d] = "act" => pc[d] = "act" /\ call'[d] = call[d],
           \A d \in Callers : call'[d].req # None => native[call'[d].req] # "pion"
    PROVE  Claims'
<1>1. \A d \in Callers : Claiming(d)' => Claiming(d) /\ call'[d].req = call[d].req
  BY DEF Claiming, Dangling
<1>2. \A r \in Requests : state'[r] = "created" => Unmoved(r)'
  BY DEF SInv, Claims, Unmoved
<1> QED BY <1>1, <1>2, ClaimsKept

(* A step that moves the native object of a committed request nobody       *)
(* claims after it.                                                        *)
LEMMA ClaimsMoved ==
    ASSUME TInv, SInv, NEW r \in Requests, NEW n, n # "pion", state[r] = "committed",
           native' = [native EXCEPT ![r] = n], UNCHANGED <<cur, state>>,
           \A d \in Callers : pc'[d] = "act" =>
               /\ pc[d] = "act" /\ call'[d] = call[d]
               /\ Claiming(d) => call[d].req # r,
           \A d \in Callers : call'[d].req # None => native[call'[d].req] # "pion"
    PROVE  Claims'
<1>1. \A d \in Callers : Claiming(d)' => Claiming(d) /\ call'[d] = call[d] /\ call[d].req # r
  BY DEF Claiming, Dangling
<1>2. \A q \in Requests : state'[q] = "created" => Unmoved(q)'
  BY DEF SInv, Claims, TInv, TypeOK, Unmoved
<1>3. \A q \in Requests : q # r => native'[q] = native[q]
  BY DEF TInv, TypeOK
<1>4. \A d \in Callers : call'[d].req # None => native'[call'[d].req] # "pion"
  BY DEF TInv, TypeOK
<1>5. \A d \in Callers : Claiming(d) => call[d].req \in Requests
  BY DEF Claiming, Dangling, TInv, TypeOK, Calls
<1> QED BY <1>1, <1>2, <1>3, <1>4, <1>5, ClaimsKept

(* What a call that goes on leaves as it is.                               *)
LEMMA ContinueClaims ==
    ASSUME TInv, SInv, NEW c \in Callers, NEW made \in Holders \cup {None}, Continue(c, made)
    PROVE  /\ \A d \in Callers : pc'[d] = "act" => d # c /\ pc[d] = "act" /\ call'[d] = call[d]
           /\ \A d \in Callers : call'[d].req # None => native[call'[d].req] # "pion"
<1>1. /\ pc'[c] \in {"check", "destroy", "putback"}
      /\ \A d \in Callers \ {c} : pc'[d] = pc[d] /\ call'[d] = call[d]
  BY ContinueOthers
<1>2. call'[c].req = call[c].req
  BY DEF Continue, TInv, TypeOK, Calls
<1> QED BY <1>1, <1>2 DEF SInv, Claims

(* A call that acts works on a request, and on its native object.          *)
LEMMA ActingOn ==
    ASSUME TInv, SInv, NEW c \in Callers, Acting(c, Committing)
    PROVE  /\ Claiming(c) /\ call[c].req \in Requests /\ pc[c] = "act"
           /\ state[call[c].req] = "committed" /\ native[call[c].req] = "impl"
           /\ \A d \in Callers : Claiming(d) /\ call[d].req = call[c].req => d = c
<1>1. Claiming(c) /\ call[c].req \in Requests /\ pc[c] = "act"
  BY DEF Acting, At, Claiming, Dangling, TInv, TypeOK, Calls
<1> QED BY <1>1 DEF SInv, Claims

(* Claims: the swap lets one call through, and the frame of a request that *)
(* is gone never comes back.                                               *)
LEMMA ClaimsStep ==
    ASSUME TInv, TInv', SInv, [Next]_vars
    PROVE  Claims'
<1> USE DEF registries, threads, requests, history
<1>a. ASSUME UNCHANGED <<cur, state, native, pc, call>> PROVE Claims'
  BY <1>a, ClaimsUntouched DEF SInv, Claims
<1>b. ASSUME NEW c \in Callers, NEW p, p # "act", NEW k, pc' = [pc EXCEPT ![c] = p],
             call' = [call EXCEPT ![c] = k], k.req # None => native[k.req] # "pion",
             UNCHANGED <<cur, state, native>>
      PROVE  Claims'
  <2>1. /\ \A d \in Callers : d # c => pc'[d] = pc[d] /\ call'[d] = call[d]
        /\ pc'[c] = p /\ call'[c] = k
    BY <1>b DEF TInv, TypeOK
  <2> QED BY <1>b, <2>1, ClaimsUntouched DEF SInv, Claims
<1>n. NoCall.req = None
  BY DEF NoCall
<1>f. \A t \in Pool : cur[t] # None => native[cur[t]] # "pion"
  BY DEF SInv, Frames
<1>p. Pool \subseteq Callers
  BY DEF Callers
<1>1. ASSUME NEW t \in Pool, NEW r \in Requests, Arrive(t, r) PROVE Claims'
  <2>1. /\ native[r] = "pion" /\ cur' = [cur EXCEPT ![t] = r] /\ call' = call
        /\ pc' = [pc EXCEPT ![t] = "enter"] /\ native' = [native EXCEPT ![r] = "impl"]
        /\ \E s : state' = [state EXCEPT ![r] = s]
    BY <1>1 DEF Arrive
  <2>2. \A q \in Requests : q # r => native'[q] = native[q] /\ state'[q] = state[q]
    BY <2>1 DEF TInv, TypeOK
  <2>3. \A q \in Requests : state'[q] = "created" => Unmoved(q)'
    BY <2>1, <2>2 DEF SInv, Claims, TInv, TypeOK, Unmoved
  <2>4. \A d \in Callers : call[d].req # None => call[d].req \in Requests /\ call[d].req # r
    BY <2>1 DEF SInv, Claims, TInv, TypeOK, Calls
  <2>5. \A d \in Callers : call'[d].req # None => native'[call'[d].req] # "pion"
    BY <2>1, <2>2, <2>4 DEF SInv, Claims
  <2>6. \A d \in Callers : Claiming(d)' => Claiming(d)
    <3> SUFFICES ASSUME NEW d \in Callers, Claiming(d)' PROVE Claiming(d)
      OBVIOUS
    <3>1. /\ pc'[d] = "act" /\ call[d].op \in Committing /\ call[d].req # None
          /\ cur'[call[d].ptr] = call[d].req
      BY <2>1 DEF Claiming, Dangling
    <3>2. pc[d] = "act" /\ d # t
      BY <2>1, <3>1 DEF TInv, TypeOK
    <3>3. call[d].ptr \in Pool /\ call[d].ptr # t
      BY <2>1, <2>4, <3>1, <3>2 DEF TInv, TypeOK, Pointers
    <3>4. cur[call[d].ptr] = call[d].req
      BY <2>1, <3>1, <3>3 DEF TInv, TypeOK
    <3> QED BY <3>1, <3>2, <3>4 DEF Claiming, Dangling
  <2>7. \A d \in Callers : Claiming(d) => call[d].req # None
    BY DEF Claiming, Dangling
  <2> QED BY <2>1, <2>2, <2>3, <2>4, <2>5, <2>6, <2>7, ClaimsKept
<1>7. ASSUME NEW t \in Pool, Destroy(t) PROVE Claims'
  <2>1. /\ pc[t] \in {"destroy", "unwind"} /\ cur' = [cur EXCEPT ![t] = None]
        /\ pc' = [pc EXCEPT ![t] = "idle"] /\ call' = [call EXCEPT ![t] = NoCall]
        /\ native' = [native EXCEPT ![cur[t]] = IF @ = "impl" THEN "dropped" ELSE @]
        /\ state' = state
    BY <1>7 DEF Destroy, At
  <2>2. cur[t] \in Requests
    BY <2>1 DEF TInv, Pointers
  <2>3. \A q \in Requests : q # cur[t] => native'[q] = native[q]
    BY <2>1 DEF TInv, TypeOK
  <2>4. native'[cur[t]] # "pion"
    BY <1>f, <2>1, <2>2, NoneAssumption DEF TInv, TypeOK
  <2>6. \A q \in Requests : state'[q] = "created" => Unmoved(q)'
    <3> SUFFICES ASSUME NEW q \in Requests, state'[q] = "created" PROVE Unmoved(q)'
      OBVIOUS
    <3>1. CASE q = cur[t]
      <4>1. q \in Scriptless /\ Unmoved(q)
        BY <2>1, <2>2, <3>1 DEF SInv, Finished, Claims
      <4>2. native'[q] = IF native[q] = "impl" THEN "dropped" ELSE native[q]
        BY <2>1, <2>2, <3>1 DEF TInv, TypeOK
      <4>3. native[q] # "pion"
        BY <1>f, <2>2, <3>1, NoneAssumption
      <4> QED BY <4>1, <4>2, <4>3 DEF Unmoved
    <3>2. CASE q # cur[t]
      BY <2>1, <2>3, <3>2 DEF SInv, Claims, Unmoved
    <3> QED BY <3>1, <3>2
  <2>7. \A d \in Callers : call'[d].req # None => call'[d] = call[d]
    BY <1>n, <2>1 DEF TInv, TypeOK
  <2>8. \A d \in Callers : call'[d].req # None => native'[call'[d].req] # "pion"
    <3> SUFFICES ASSUME NEW d \in Callers, call'[d].req # None
                 PROVE  native'[call'[d].req] # "pion"
      OBVIOUS
    <3>1. call'[d].req = call[d].req /\ call[d].req \in Requests
      BY <2>7 DEF TInv, TypeOK, Calls
    <3> QED BY <2>3, <2>4, <3>1 DEF SInv, Claims
  <2>9. \A d \in Callers : Claiming(d)' =>
            Claiming(d) /\ call'[d] = call[d] /\ call[d].req # cur[t] /\ call[d].req \in Requests
    <3> SUFFICES ASSUME NEW d \in Callers, Claiming(d)'
                 PROVE  /\ Claiming(d) /\ call'[d] = call[d]
                        /\ call[d].req # cur[t] /\ call[d].req \in Requests
      OBVIOUS
    <3>1. /\ pc'[d] = "act" /\ call'[d].op \in Committing /\ call'[d].req # None
          /\ cur'[call'[d].ptr] = call'[d].req
      BY DEF Claiming, Dangling
    <3>2. call'[d] = call[d] /\ pc[d] = "act" /\ call[d].req \in Requests
      BY <2>1, <2>7, <3>1 DEF TInv, TypeOK, Calls
    <3>3. call[d].ptr \in Pool
      BY <3>2 DEF TInv, Pointers
    <3>4. call[d].ptr # t /\ cur[call[d].ptr] = call[d].req
      BY <2>1, <3>1, <3>2, <3>3 DEF TInv, TypeOK
    <3>5. call[d].req # cur[t]
      BY <3>1, <3>2, <3>3, <3>4 DEF SInv, Frames
    <3> QED BY <3>1, <3>2, <3>4, <3>5 DEF Claiming, Dangling
  <2> QED BY <2>1, <2>3, <2>6, <2>8, <2>9, ClaimsKept
<1>2. ASSUME NEW t \in Pool, Enter(t) \/ EnterThrows(t) \/ ScriptReturns(t) \/ ScriptFails(t) PROVE Claims'
  <2>1. /\ \E p \in {"script", "unwind", "leave", "err_remove"} : pc' = [pc EXCEPT ![t] = p]
        /\ call' = call /\ UNCHANGED <<cur, state, native>>
    BY <1>2 DEF Enter, EnterThrows, ScriptReturns, ScriptFails
  <2>2. \A d \in Callers : pc'[d] = "act" => pc[d] = "act"
    BY <2>1 DEF TInv, TypeOK
  <2> QED BY <2>1, <2>2, ClaimsUntouched DEF SInv, Claims
<1>3. ASSUME NEW t \in Pool, ErrorRemove(t) \/ Leave(t) PROVE Claims'
  <2>1. \/ pc' = [pc EXCEPT ![t] = "leave"] /\ call' = call
        \/ \E o, b : /\ pc' = [pc EXCEPT ![t] = "check"]
                     /\ call' = [call EXCEPT ![t] = [op |-> o, ptr |-> t, req |-> cur[t],
                                                    by |-> b, made |-> None]]
    BY <1>3 DEF ErrorRemove, Leave
  <2>2. UNCHANGED <<cur, state, native>>
    BY <1>3 DEF ErrorRemove, Leave
  <2>3. CASE pc' = [pc EXCEPT ![t] = "leave"] /\ call' = call
    <3>1. \A d \in Callers : pc'[d] = "act" => pc[d] = "act"
      BY <2>3 DEF TInv, TypeOK
    <3> QED BY <2>2, <2>3, <3>1, ClaimsUntouched DEF SInv, Claims
  <2>4. ASSUME NEW k, k.req = cur[t], pc' = [pc EXCEPT ![t] = "check"],
               call' = [call EXCEPT ![t] = k]
        PROVE  Claims'
    BY <1>b, <1>f, <1>p, <2>2, <2>4
  <2> QED BY <2>1, <2>3, <2>4
<1>8. ASSUME NEW c \in Callers, NEW t \in Pool, NEW o \in RequestOps, BeginCall(c, t, o)
      PROVE  Claims'
  <2> DEFINE k == [op |-> o, ptr |-> t, req |-> cur[t], by |-> "script", made |-> None]
  <2>1. /\ pc' = [pc EXCEPT ![c] = "check"] /\ call' = [call EXCEPT ![c] = k]
        /\ UNCHANGED <<cur, state, native>>
    BY <1>8 DEF BeginCall
  <2>2. k.req = cur[t]
    OBVIOUS
  <2> HIDE DEF k
  <2> QED BY <1>b, <1>f, <2>1, <2>2
<1>9. ASSUME NEW c \in Callers, NEW h \in Holders, NEW o \in HolderOps,
             BeginHolderCall(c, h, o)
      PROVE  Claims'
  <2> DEFINE k == [op |-> o, ptr |-> h, req |-> holds[h], by |-> "script", made |-> None]
  <2>1. /\ pc' = [pc EXCEPT ![c] = "hact"] /\ call' = [call EXCEPT ![c] = k]
        /\ UNCHANGED <<cur, state, native>>
    BY <1>9 DEF BeginHolderCall
  <2>2. k.req = holds[h]
    OBVIOUS
  <2>3. holds[h] # None => native[holds[h]] = "holder"
    BY DEF SInv, Writers
  <2> HIDE DEF k
  <2> QED BY <1>b, <2>1, <2>2, <2>3
<1>10. ASSUME NEW c \in Callers, CheckPasses(c) PROVE Claims'
  <2> DEFINE r == call[c].req
  <2>1. /\ pc[c] = "check" /\ ~Dangling(c) /\ Admits(call[c].op, r)
        /\ state' = [state EXCEPT ![r] = StateAfter(call[c].op, @)]
        /\ pc' = [pc EXCEPT ![c] = "act"] /\ UNCHANGED <<cur, call, native>>
    BY <1>10 DEF CheckPasses, At
  <2>2. r \in Requests /\ native[r] # "pion"
    BY <2>1 DEF Dangling, TInv, TypeOK, Calls, SInv, Claims
  <2>3. \A d \in Callers : Claiming(d)' =>
            \/ d # c /\ Claiming(d)
            \/ d = c /\ call[c].op \in Committing
    BY <2>1 DEF Claiming, Dangling, TInv, TypeOK
  <2>4. CASE call[c].op \notin Committing
    <3>1. state' = state
      BY <2>1, <2>2, <2>4 DEF StateAfter, TInv, TypeOK
    <3>2. \A q \in Requests : state'[q] = "created" => Unmoved(q)'
      BY <2>1, <3>1 DEF SInv, Claims, Unmoved
    <3> QED BY <2>1, <2>3, <2>4, <3>1, <3>2, ClaimsKept DEF SInv, Claims
  <2>5. CASE call[c].op \in Committing
    <3>1. state[r] = "created" /\ state' = [state EXCEPT ![r] = "committed"]
      BY <2>1, <2>5 DEF Admits, StateAfter
    <3>2. native[r] = "impl"
      <4>1. call[c].ptr \in Pool /\ cur[call[c].ptr] = r /\ r # None
        BY <2>1 DEF Dangling, TInv, Pointers
      <4>2. native[r] # "dropped"
        BY <4>1 DEF SInv, Frames
      <4> QED BY <2>2, <3>1, <4>2 DEF SInv, Claims, Unmoved
    <3>3. \A d \in Callers : Claiming(d) => call[d].req # r
      BY <3>1 DEF SInv, Claims
    <3>4. \A q \in Requests : q # r => state'[q] = state[q]
      BY <3>1 DEF TInv, TypeOK
    <3>5. state'[r] = "committed"
      BY <2>2, <3>1 DEF TInv, TypeOK
    <3>6. \A q \in Requests : state'[q] = "created" => Unmoved(q)'
      BY <2>1, <3>4, <3>5 DEF SInv, Claims, Unmoved
    <3>7. \A d \in Callers : Claiming(d) => call[d].req \in Requests
      BY DEF Claiming, Dangling, TInv, TypeOK, Calls
    <3>8. \A d \in Callers : Claiming(d)' =>
              state'[call'[d].req] = "committed" /\ native'[call'[d].req] = "impl"
      BY <2>1, <2>3, <3>2, <3>3, <3>4, <3>5, <3>7 DEF SInv, Claims
    <3>9. \A d, e \in Callers :
              Claiming(d)' /\ Claiming(e)' /\ call'[d].req = call'[e].req => d = e
      BY <2>1, <2>3, <3>3 DEF SInv, Claims
    <3> QED BY <2>1, <3>6, <3>8, <3>9 DEF SInv, Claims
  <2> QED BY <2>4, <2>5
<1>11. ASSUME NEW c \in Callers,
              CheckRefuses(c) \/ ActGet(c) \/ ActSetMetadata(c) \/ ActTemplateFails(c) \/ ActWriteFails(c)
       PROVE  Claims'
  <2>1. Continue(c, None) /\ UNCHANGED <<cur, state, native>>
    BY <1>11 DEF CheckRefuses, ActGet, ActSetMetadata, ActTemplateFails, ActWriteFails
  <2> QED BY <2>1, ContinueClaims, ClaimsUntouched
<1>12. ASSUME NEW c \in Callers, NEW made \in Holders \cup {None}, NEW n, n # "pion",
              Acting(c, Committing), Continue(c, made),
              native' = [native EXCEPT ![call[c].req] = n], UNCHANGED <<cur, state>>
       PROVE  Claims'
  <2> DEFINE r == call[c].req
  <2>1. /\ r \in Requests /\ state[r] = "committed"
        /\ \A d \in Callers : Claiming(d) /\ call[d].req = r => d = c
    BY <1>12, ActingOn
  <2>2. /\ \A d \in Callers : pc'[d] = "act" => d # c /\ pc[d] = "act" /\ call'[d] = call[d]
        /\ \A d \in Callers : call'[d].req # None => native[call'[d].req] # "pion"
    BY <1>12, ContinueClaims
  <2>3. n # "pion" /\ native' = [native EXCEPT ![r] = n] /\ UNCHANGED <<cur, state>>
    BY <1>12
  <2> HIDE DEF r
  <2>4. \A d \in Callers : pc'[d] = "act" =>
            /\ pc[d] = "act" /\ call'[d] = call[d]
            /\ Claiming(d) => call[d].req # r
    BY <2>1, <2>2
  <2> QED BY <2>1, <2>2, <2>3, <2>4, ClaimsMoved
<1>13. ASSUME NEW c \in Callers, ActSend(c) PROVE Claims'
  <2>1. /\ Acting(c, Committing) /\ Continue(c, None) /\ UNCHANGED <<cur, state>>
        /\ \E n : n # "pion" /\ native' = [native EXCEPT ![call[c].req] = n]
    BY <1>13 DEF ActSend, Acting, Committing
  <2> QED BY <1>12, <2>1
<1>14. ASSUME NEW c \in Callers, ActStream(c) PROVE Claims'
  <2>1. /\ Acting(c, Committing) /\ Continue(c, None) /\ UNCHANGED <<cur, state>>
        /\ \E n : n # "pion" /\ native' = [native EXCEPT ![call[c].req] = n]
    BY <1>14 DEF ActStream, Acting, Committing
  <2> QED BY <1>12, <2>1
<1>15. ASSUME NEW c \in Callers, NEW h \in Holders, ActDetach(c, h) PROVE Claims'
  <2>1. /\ Acting(c, Committing) /\ Continue(c, h) /\ UNCHANGED <<cur, state>>
        /\ native' = [native EXCEPT ![call[c].req] = "holder"]
    BY <1>15 DEF ActDetach, Acting, Committing
  <2> QED BY <1>12, <2>1
<1>16. ASSUME NEW c \in Callers, PutBack(c) PROVE Claims'
  <2>1. /\ \E p \in {"register", "leave", "script"} : pc' = [pc EXCEPT ![c] = p]
        /\ call' = call \/ call' = [call EXCEPT ![c] = NoCall]
        /\ UNCHANGED <<cur, state, native>>
    BY <1>16 DEF PutBack
  <2>2. \A d \in Callers : pc'[d] = "act" => pc[d] = "act" /\ call'[d] = call[d]
    BY <2>1 DEF TInv, TypeOK
  <2>3. \A d \in Callers : call'[d].req # None => call'[d].req = call[d].req
    BY <1>n, <2>1 DEF TInv, TypeOK
  <2> QED BY <2>1, <2>2, <2>3, ClaimsUntouched DEF SInv, Claims
<1>17. ASSUME NEW c \in Callers, Register(c) \/ HolderPutBack(c) \/ CloseFails(c)
       PROVE  Claims'
  <2>1. /\ pc' = [pc EXCEPT ![c] = "script"] /\ call' = [call EXCEPT ![c] = NoCall]
        /\ UNCHANGED <<cur, state, native>>
    BY <1>17 DEF Register, HolderPutBack, CloseFails
  <2> QED BY <1>b, <1>n, <2>1
<1>18. ASSUME NEW c \in Callers, HolderSetMetadata(c) PROVE Claims'
  <2>1. pc' = [pc EXCEPT ![c] = "hput"] /\ UNCHANGED <<cur, call, state, native>>
    BY <1>18 DEF HolderSetMetadata
  <2>2. \A d \in Callers : pc'[d] = "act" => pc[d] = "act"
    BY <2>1 DEF TInv, TypeOK
  <2> QED BY <2>1, <2>2, ClaimsUntouched DEF SInv, Claims
<1>19. ASSUME NEW c \in Callers, HolderSend(c) PROVE Claims'
  <2> DEFINE r == call[c].req
  <2>1. /\ pc[c] = "hact" /\ \E n : n # "pion" /\ native' = [native EXCEPT ![r] = n]
        /\ pc' = [pc EXCEPT ![c] = "script"] /\ call' = [call EXCEPT ![c] = NoCall]
        /\ UNCHANGED <<cur, state>>
    BY <1>19 DEF HolderSend, At
  <2>n. PICK n : n # "pion" /\ native' = [native EXCEPT ![r] = n]
    BY <2>1
  <2>2. /\ call[c].ptr \in Holders /\ r = holds[call[c].ptr]
        /\ holds[call[c].ptr] # None
    BY <2>1 DEF SInv, Roles, Writers, HasHolder
  <2>3. r \in Requests /\ native[r] = "holder"
    BY <2>2 DEF SInv, Writers, TInv, TypeOK
  <2>4. state[r] = "committed" /\ \A d \in Callers : Claiming(d) => call[d].req # r
    BY <2>3 DEF SInv, Claims, Unmoved, TInv, TypeOK
  <2>5. \A d \in Callers : pc'[d] = "act" => pc[d] = "act" /\ call'[d] = call[d]
    BY <2>1 DEF TInv, TypeOK
  <2>6. \A d \in Callers : call'[d].req # None => call'[d].req = call[d].req
    BY <1>n, <2>1 DEF TInv, TypeOK
  <2>7. \A d \in Callers : call'[d].req # None => native[call'[d].req] # "pion"
    BY <2>6 DEF SInv, Claims
  <2>8. UNCHANGED <<cur, state>>
    BY <2>1
  <2> HIDE DEF r
  <2>9. \A d \in Callers : pc'[d] = "act" =>
            /\ pc[d] = "act" /\ call'[d] = call[d]
            /\ Claiming(d) => call[d].req # r
    BY <2>4, <2>5
  <2> QED BY <2>3, <2>4, <2>7, <2>8, <2>9, <2>n, ClaimsMoved
<1>20. ASSUME NEW r \in Requests, NEW outcome \in {"sent", "aborted"}, SenderEnds(r, outcome)
       PROVE  Claims'
  <2>1. /\ native[r] = "sender" /\ native' = [native EXCEPT ![r] = outcome]
        /\ outcome # "pion" /\ UNCHANGED <<cur, state, pc, call>>
    BY <1>20 DEF SenderEnds
  <2>2. state[r] = "committed" /\ \A d \in Callers : Claiming(d) => call[d].req # r
    BY <2>1 DEF SInv, Claims, Unmoved, TInv, TypeOK
  <2>3. \A d \in Callers : call[d].req # None => native[call[d].req] # "pion"
    BY DEF SInv, Claims
  <2> QED BY <2>1, <2>2, <2>3, ClaimsMoved
<1>21. ASSUME NEW c \in Callers, UseAfterFree(c) \/ NullDereference(c) PROVE Claims'
  BY <1>a, <1>21 DEF UseAfterFree, NullDereference
<1>22. CASE UNCHANGED vars
  BY <1>a, <1>22 DEF vars
<1> QED BY <1>1, <1>2, <1>3, <1>7, <1>8, <1>9, <1>10, <1>11, <1>13, <1>14, <1>15, <1>16,
           <1>17, <1>18, <1>19, <1>20, <1>21, <1>22
    DEF Next, ServerStep, InsideCall, ScriptCalls

(* Finished: finish() commits the request or finds it committed.           *)
LEMMA FinishedStep ==
    ASSUME TInv, TInv', SInv, [Next]_vars
    PROVE  Finished'
<1> USE DEF registries, threads, requests, history
<1>1. \A r \in Requests : state[r] = "committed" /\ native[r] # "pion" => state'[r] = "committed"
  <2> SUFFICES ASSUME NEW r \in Requests, state[r] = "committed", native[r] # "pion"
               PROVE  state'[r] = "committed"
    OBVIOUS
  <2>1. \/ state' = state
        \/ \E c \in Callers : CheckPasses(c)
        \/ \E t \in Pool, q \in Requests : Arrive(t, q)
    BY DEF Next, ServerStep, InsideCall, ScriptCalls, vars, Enter, EnterThrows, ScriptReturns,
       ScriptFails, ErrorRemove, Leave, Destroy, BeginCall, BeginHolderCall, CheckRefuses,
       ActGet, ActSetMetadata, ActSend, ActStream, ActTemplateFails, ActWriteFails, ActDetach, PutBack,
       Register, UseAfterFree, NullDereference, HolderSetMetadata, HolderPutBack,
       HolderSend, CloseFails, SenderEnds
  <2>2. ASSUME NEW c \in Callers, CheckPasses(c) PROVE state'[r] = "committed"
    BY <2>2 DEF CheckPasses, StateAfter, TInv, TypeOK
  <2>3. ASSUME NEW t \in Pool, NEW q \in Requests, Arrive(t, q) PROVE state'[r] = "committed"
    BY <2>3 DEF Arrive, TInv, TypeOK
  <2> QED BY <2>1, <2>2, <2>3
<1>a. ASSUME \A t \in Pool : pc'[t] \in {"destroy", "unwind"} =>
                                  pc[t] = pc'[t] /\ cur'[t] = cur[t]
      PROVE  Finished'
  <2> SUFFICES ASSUME NEW t \in Pool, pc'[t] = "destroy" PROVE state'[cur'[t]] = "committed"
    BY <1>a DEF Finished, SInv
  <2>1. pc[t] = "destroy" /\ cur'[t] = cur[t]
    BY <1>a
  <2>2. cur[t] \in Requests /\ native[cur[t]] # "pion" /\ state[cur[t]] = "committed"
    BY <2>1, NoneAssumption DEF TInv, Pointers, SInv, Frames, Finished
  <2> QED BY <1>1, <2>1, <2>2
<1>b. ASSUME NEW c \in Callers, NEW p, p \notin {"destroy", "unwind"},
             pc' = [pc EXCEPT ![c] = p], cur' = cur
      PROVE  Finished'
  <2>1. \A t \in Pool : pc'[t] \in {"destroy", "unwind"} => pc[t] = pc'[t]
    BY <1>b DEF TInv, TypeOK
  <2> QED BY <1>a, <1>b, <2>1
<1>p. Pool \subseteq Callers
  BY DEF Callers
<1>c. ASSUME NEW c \in Callers, NEW made \in Holders \cup {None}, Continue(c, made), cur' = cur,
             pc[c] \in {"check", "act"},
             call[c].by = "server" /\ c \in Pool => state[cur[c]] = "committed"
      PROVE  Finished'
  <2>1. /\ pc' = [pc EXCEPT ![c] = pc'[c]]
        /\ pc'[c] \in {"check", "destroy", "putback"}
        /\ pc'[c] = "destroy" => call[c].by = "server"
        /\ \A d \in Callers \ {c} : pc'[d] = pc[d]
    BY <1>c, ContinueOthers
  <2>2. CASE pc'[c] # "destroy"
    <3>1. pc'[c] \notin {"destroy", "unwind"}
      BY <2>1, <2>2
    <3> QED BY <1>b, <1>c, <2>1, <3>1
  <2>3. CASE pc'[c] = "destroy"
    <3>u. \A t \in Pool : pc'[t] = "unwind" => cur'[t] \in Scriptless
      BY <1>c, <1>p, <2>1, <2>3 DEF SInv, Finished
    <3> SUFFICES ASSUME NEW t \in Pool, pc'[t] = "destroy" PROVE state'[cur'[t]] = "committed"
      BY <3>u DEF Finished
    <3>1. cur[t] \in Requests /\ native[cur[t]] # "pion"
      <4>1. pc[t] # "idle"
        BY <1>c, <1>p, <2>1
      <4> QED BY <4>1, NoneAssumption DEF TInv, Pointers, SInv, Frames
    <3>2. CASE t = c
      <4>1. state[cur[t]] = "committed"
        BY <1>c, <2>1, <2>3, <3>2
      <4> QED BY <1>1, <1>c, <3>1, <4>1
    <3>3. CASE t # c
      <4>1. state[cur[t]] = "committed"
        BY <1>p, <2>1, <3>3 DEF SInv, Finished
      <4> QED BY <1>1, <1>c, <3>1, <4>1
    <3> QED BY <3>2, <3>3
  <2> QED BY <2>2, <2>3
<1>2. ASSUME NEW t \in Pool, NEW r \in Requests, Arrive(t, r) PROVE Finished'
  BY <1>a, <1>2 DEF Arrive, TInv, TypeOK
<1>3. ASSUME NEW t \in Pool, Destroy(t) PROVE Finished'
  BY <1>a, <1>3 DEF Destroy, TInv, TypeOK
<1>w. ASSUME NEW t \in Pool, EnterThrows(t) PROVE Finished'
  <2>1. /\ pc' = [pc EXCEPT ![t] = "unwind"] /\ cur' = cur /\ state' = state
        /\ cur[t] \in Scriptless
    BY <1>w DEF EnterThrows
  <2>2. \A u \in Pool \ {t} : pc'[u] = pc[u]
    BY <2>1 DEF TInv, TypeOK
  <2>3. pc'[t] = "unwind"
    BY <1>p, <2>1 DEF TInv, TypeOK
  <2> QED BY <2>1, <2>2, <2>3 DEF SInv, Finished
<1>4. ASSUME NEW t \in Pool,
             Enter(t) \/ ScriptReturns(t) \/ ScriptFails(t) \/ ErrorRemove(t) \/ Leave(t)
      PROVE  Finished'
  <2>1. /\ \E p \in {"script", "leave", "err_remove", "check"} : pc' = [pc EXCEPT ![t] = p]
        /\ cur' = cur
    BY <1>4 DEF Enter, EnterThrows, ScriptReturns, ScriptFails, ErrorRemove, Leave
  <2> QED BY <1>b, <1>p, <2>1
<1>5. ASSUME NEW c \in Callers,
             \/ \E t \in Pool, o \in RequestOps : BeginCall(c, t, o)
             \/ \E h \in Holders, o \in HolderOps : BeginHolderCall(c, h, o)
             \/ CheckPasses(c) \/ PutBack(c) \/ Register(c) \/ HolderSetMetadata(c)
             \/ HolderPutBack(c) \/ HolderSend(c) \/ CloseFails(c)
      PROVE  Finished'
  <2>1. /\ \E p \in {"check", "hact", "act", "register", "leave", "script", "hput"} :
              pc' = [pc EXCEPT ![c] = p]
        /\ cur' = cur
    BY <1>5 DEF BeginCall, BeginHolderCall, CheckPasses, PutBack, Register,
       HolderSetMetadata, HolderPutBack, HolderSend, CloseFails
  <2> QED BY <1>b, <2>1
<1>6. ASSUME NEW c \in Callers, CheckRefuses(c) PROVE Finished'
  <2>1. pc[c] = "check" /\ ~Dangling(c) /\ Continue(c, None) /\ cur' = cur
    BY <1>6 DEF CheckRefuses, At
  <2>2. ASSUME call[c].by = "server" PROVE state[cur[c]] = "committed"
    <3>1. /\ call[c].op = "finish" /\ call[c].req = cur[c] /\ cur[c] \in Requests
          /\ ~Admits("finish", cur[c])
      BY <1>6, <2>1, <2>2, NoneAssumption
      DEF CheckRefuses, Dangling, SInv, Roles, TInv, TypeOK
    <3> QED BY <3>1 DEF Admits, HttpOnly, Committing, Sends, TInv, TypeOK
  <2> QED BY <1>c, <2>1, <2>2
<1>7. ASSUME NEW c \in Callers, NEW made \in Holders \cup {None},
             Acting(c, RequestOps \cup {"finish"}), Continue(c, made), cur' = cur
      PROVE  Finished'
  <2>1. pc[c] = "act"
    BY <1>7 DEF Acting, At
  <2>2. ASSUME call[c].by = "server" PROVE state[cur[c]] = "committed"
    <3>1. call[c].op = "finish" /\ call[c].req = cur[c]
      BY <2>1, <2>2 DEF SInv, Roles
    <3>2. Acting(c, Committing)
      BY <1>7, <3>1 DEF Acting, Committing, Sends
    <3> QED BY <3>1, <3>2, ActingOn
  <2> QED BY <1>7, <1>c, <2>1, <2>2
<1>8. ASSUME NEW c \in Callers,
             ActGet(c) \/ ActSetMetadata(c) \/ ActSend(c) \/ ActStream(c) \/ ActTemplateFails(c) \/ ActWriteFails(c)
      PROVE  Finished'
  <2>1. Acting(c, RequestOps \cup {"finish"}) /\ Continue(c, None) /\ cur' = cur
    BY <1>8 DEF ActGet, ActSetMetadata, ActSend, ActStream, ActTemplateFails, ActWriteFails, Acting,
       RequestOps, Getters, Committing, Sends, Streams, Detaches
  <2> QED BY <1>7, <2>1
<1>9. ASSUME NEW c \in Callers, NEW h \in Holders, ActDetach(c, h) PROVE Finished'
  <2>1. Acting(c, RequestOps \cup {"finish"}) /\ Continue(c, h) /\ cur' = cur
    BY <1>9 DEF ActDetach, Acting, RequestOps, Committing, Detaches
  <2> QED BY <1>7, <2>1
<1>10. ASSUME UNCHANGED <<cur, pc>> PROVE Finished'
  BY <1>a, <1>10
<1>11. ASSUME NEW c \in Callers, UseAfterFree(c) \/ NullDereference(c) PROVE Finished'
  BY <1>10, <1>11 DEF UseAfterFree, NullDereference
<1>12. ASSUME NEW r \in Requests, NEW outcome \in {"sent", "aborted"}, SenderEnds(r, outcome)
       PROVE  Finished'
  BY <1>10, <1>12 DEF SenderEnds
<1>13. CASE UNCHANGED vars
  BY <1>10, <1>13 DEF vars
<1> QED BY <1>2, <1>3, <1>4, <1>5, <1>6, <1>8, <1>9, <1>11, <1>12, <1>13, <1>w
    DEF Next, ServerStep, InsideCall, ScriptCalls

(* Writers: one deferred response, one heap object, one place it is kept.  *)
LEMMA WritersStep ==
    ASSUME TInv, TInv', SInv, [Next]_vars
    PROVE  Writers'
<1> USE DEF Callers, registries, threads, requests, history
<1>1. ASSUME NEW t \in Pool, NEW r \in Requests, Arrive(t, r) PROVE Writers'
  BY <1>1, ThreadsAssumption, NoneAssumption DEF Arrive, At, TInv, TypeOK, SInv, Frames,
     Roles, Claims, Writers, HasHolder
<1>2. ASSUME NEW t \in Pool, Enter(t) \/ EnterThrows(t) PROVE Writers'
  BY <1>2, ThreadsAssumption, NoneAssumption DEF Enter, EnterThrows, Put, At, TInv, TypeOK, SInv, Frames,
     Roles, Claims, Writers, HasHolder
<1>3. ASSUME NEW t \in Pool, ScriptReturns(t) PROVE Writers'
  BY <1>3, ThreadsAssumption, NoneAssumption DEF ScriptReturns, At, TInv, TypeOK, SInv,
     Frames, Roles, Claims, Writers, HasHolder
<1>4. ASSUME NEW t \in Pool, ScriptFails(t) PROVE Writers'
  BY <1>4, ThreadsAssumption, NoneAssumption DEF ScriptFails, At, TInv, TypeOK, SInv,
     Frames, Roles, Claims, Writers, HasHolder
<1>5. ASSUME NEW t \in Pool, ErrorRemove(t) PROVE Writers'
  <2>1. pc[t] = "err_remove" /\ UNCHANGED <<hreg, native, holds>>
    BY <1>5 DEF ErrorRemove, At
  <2>2. /\ pc'[t] \in {"check", "leave"} /\ call[t].made = None /\ call'[t].made = None
        /\ \A d \in Callers \ {t} : pc'[d] = pc[d] /\ call'[d] = call[d]
    <3>1. call[t].made = None
      BY <2>1 DEF SInv, Roles
    <3>2. CASE Found(rreg, t)
      BY <1>5, <3>1, <3>2 DEF ErrorRemove, TInv, TypeOK
    <3>3. CASE ~Found(rreg, t)
      BY <1>5, <3>1, <3>3 DEF ErrorRemove, TInv, TypeOK
    <3> QED BY <3>2, <3>3
  <2>3. /\ \A d \in Callers, h \in Holders : HasHolder(d, h)' <=> HasHolder(d, h)
        /\ \A d \in Callers : pc'[d] \in {"hact", "hput"} =>
              pc[d] = pc'[d] /\ call[d] = call'[d]
    BY <2>1, <2>2, NoneAssumption DEF HasHolder
  <2> QED BY <2>1, <2>3 DEF SInv, Writers, HolderAdmits
<1>6. ASSUME NEW t \in Pool, Leave(t) PROVE Writers'
  BY <1>6, ThreadsAssumption, NoneAssumption DEF Leave, Remove, At, TInv, TypeOK, SInv,
     Frames, Roles, Claims, Writers, HasHolder
<1>7. ASSUME NEW t \in Pool, Destroy(t) PROVE Writers'
  BY <1>7, ThreadsAssumption, NoneAssumption DEF Destroy, NoCall, At, TInv, TypeOK, SInv,
     Frames, Roles, Claims, Writers, HasHolder
<1>8. ASSUME NEW c \in Callers, NEW t \in Pool, NEW o \in RequestOps,
             BeginCall(c, t, o)
      PROVE  Writers'
  BY <1>8, ThreadsAssumption, NoneAssumption DEF BeginCall, Remove, Found, At, TInv, TypeOK,
     SInv, Frames, Roles, Claims, Writers, HasHolder
<1>9. ASSUME NEW c \in Callers, NEW h \in Holders, NEW o \in HolderOps,
             BeginHolderCall(c, h, o)
      PROVE  Writers'
  BY <1>9, ThreadsAssumption, NoneAssumption DEF BeginHolderCall, Remove, Found, At, TInv,
     TypeOK, SInv, Frames, Roles, Claims, Writers, HasHolder
<1>10. ASSUME NEW c \in Callers, CheckPasses(c) PROVE Writers'
  BY <1>10, ThreadsAssumption, NoneAssumption DEF CheckPasses, At, TInv, TypeOK, SInv,
     Frames, Roles, Claims, Writers, HasHolder
<1>11. ASSUME NEW c \in Callers, CheckRefuses(c) PROVE Writers'
  <2>1. pc[c] \in {"check", "act"} /\ Continue(c, None)
    BY <1>11 DEF CheckRefuses, At, Acting
  <2> QED BY <1>11, <2>1, ContinueHolders, ThreadsAssumption, NoneAssumption DEF
             CheckRefuses, Acting, At, SInv, TInv, TypeOK, Frames, Roles, Claims, Writers,
             Getters, Committing, Sends, Streams, NeedsNative
<1>12. ASSUME NEW c \in Callers, ActGet(c) PROVE Writers'
  <2>1. pc[c] \in {"check", "act"} /\ Continue(c, None)
    BY <1>12 DEF ActGet, At, Acting
  <2> QED BY <1>12, <2>1, ContinueHolders, ThreadsAssumption, NoneAssumption DEF ActGet,
             Acting, At, SInv, TInv, TypeOK, Frames, Roles, Claims, Writers, Getters,
             Committing, Sends, Streams, NeedsNative
<1>13. ASSUME NEW c \in Callers, ActSetMetadata(c) PROVE Writers'
  <2>1. pc[c] \in {"check", "act"} /\ Continue(c, None)
    BY <1>13 DEF ActSetMetadata, At, Acting
  <2> QED BY <1>13, <2>1, ContinueHolders, ThreadsAssumption, NoneAssumption DEF
             ActSetMetadata, Acting, At, SInv, TInv, TypeOK, Frames, Roles, Claims, Writers,
             Getters, Committing, Sends, Streams, NeedsNative
<1>14. ASSUME NEW c \in Callers, ActSend(c) PROVE Writers'
  <2>1. pc[c] \in {"check", "act"} /\ Continue(c, None)
    BY <1>14 DEF ActSend, At, Acting
  <2> QED BY <1>14, <2>1, ContinueHolders, ThreadsAssumption, NoneAssumption DEF ActSend,
             Acting, At, SInv, TInv, TypeOK, Frames, Roles, Claims, Writers, Getters,
             Committing, Sends, Streams, NeedsNative
<1>15. ASSUME NEW c \in Callers, ActStream(c) PROVE Writers'
  <2>1. pc[c] \in {"check", "act"} /\ Continue(c, None)
    BY <1>15 DEF ActStream, At, Acting
  <2> QED BY <1>15, <2>1, ContinueHolders, ThreadsAssumption, NoneAssumption DEF ActStream,
             Acting, At, SInv, TInv, TypeOK, Frames, Roles, Claims, Writers, Getters,
             Committing, Sends, Streams, NeedsNative
<1>16. ASSUME NEW c \in Callers, ActTemplateFails(c) \/ ActWriteFails(c) PROVE Writers'
  <2>1. pc[c] \in {"check", "act"} /\ Continue(c, None)
    BY <1>16 DEF ActTemplateFails, ActWriteFails, At, Acting
  <2> QED BY <1>16, <2>1, ContinueHolders, ThreadsAssumption, NoneAssumption DEF
             ActTemplateFails, ActWriteFails, Acting, At, SInv, TInv, TypeOK, Frames, Roles, Claims,
             Writers, Getters, Committing, Sends, Streams, NeedsNative
<1>17. ASSUME NEW c \in Callers, NEW h \in Holders,
             ActDetach(c, h)
      PROVE  Writers'
  <2>1. /\ pc[c] = "act" /\ Continue(c, h) /\ holds[h] = None
        /\ call[c].op \in Detaches /\ native[call[c].req] = "impl"
        /\ call[c].req \in Requests /\ call[c] \in Calls /\ call[c].made = None
    BY <1>17 DEF ActDetach, Acting, At, TInv, TypeOK, SInv, Roles, Dangling, NeedsNative,
       Detaches, Getters
  <2>2. pc' = [pc EXCEPT ![c] = "putback"] /\ call' = [call EXCEPT ![c].made = h]
    BY <2>1 DEF Continue, SInv, Roles, Detaches
  <2>3. \A d \in Callers, i \in Holders :
           HasHolder(d, i)' <=> HasHolder(d, i) \/ (d = c /\ i = h)
    BY <2>1, <2>2, NoneAssumption DEF HasHolder, TInv, TypeOK, Calls
  <2>4. \A d \in Callers : pc'[d] \in {"hact", "hput"} =>
           pc[d] = pc'[d] /\ call[d] = call'[d]
    BY <2>2 DEF TInv, TypeOK
  <2>5. /\ holds' = [holds EXCEPT ![h] = call[c].req]
        /\ native' = [native EXCEPT ![call[c].req] = "holder"]
        /\ UNCHANGED hreg
    BY <1>17, <2>1 DEF ActDetach
  <2>6. \A i \in Holders : holds[i] # call[c].req
    BY <2>1, NoneAssumption DEF SInv, Writers
  <2>7. \A d \in Callers : pc'[d] \in {"hact", "hput"} =>
           call[d].ptr \in Holders \ {h}
    BY <2>1, <2>4 DEF SInv, Roles, Writers, HasHolder
  <2>8. /\ \A i \in Holders : holds'[i] # None => native'[holds'[i]] = "holder"
        /\ \A i, j \in Holders : holds'[i] # None /\ holds'[i] = holds'[j] => i = j
        /\ \A i \in hreg' : holds'[i] # None
    BY <2>1, <2>5, <2>6, NoneAssumption DEF SInv, Writers, TInv, TypeOK
  <2>9. /\ \A d \in Callers, i \in Holders : HasHolder(d, i)' =>
              holds'[i] # None /\ i \notin hreg'
        /\ \A d, e \in Callers, i \in Holders :
              HasHolder(d, i)' /\ HasHolder(e, i)' => d = e
    BY <2>1, <2>3, <2>5, NoneAssumption DEF SInv, Writers, TInv, TypeOK
  <2>10. \A d \in Callers : pc'[d] \in {"hact", "hput"} =>
           /\ call'[d].req = holds'[call'[d].ptr]
           /\ HolderAdmits(call'[d].op, call'[d].req)
    BY <2>4, <2>5, <2>7 DEF SInv, Writers, TInv, TypeOK
  <2> QED BY <2>8, <2>9, <2>10 DEF Writers, HolderAdmits
<1>18. ASSUME NEW c \in Callers, PutBack(c) PROVE Writers'
  <2>1. UNCHANGED <<hreg, holds, native>>
    BY <1>18 DEF PutBack
  <2>2. \A d \in Callers : pc'[d] \in {"hact", "hput"} =>
           pc[d] = pc'[d] /\ call[d] = call'[d]
    BY <1>18 DEF PutBack, TInv, TypeOK
  <2>3. /\ \A d \in Callers : call'[d] = call[d] \/ call'[d] = NoCall
        /\ NoCall.made = None
    BY <1>18 DEF PutBack, NoCall, TInv, TypeOK
  <2>4. \A d \in Callers, h \in Holders : HasHolder(d, h)' => HasHolder(d, h)
    BY <2>2, <2>3, NoneAssumption DEF HasHolder
  <2>5. \A d \in Callers : pc'[d] \in {"hact", "hput"} =>
           /\ call'[d].req = holds'[call'[d].ptr]
           /\ HolderAdmits(call'[d].op, call'[d].req)
    BY <2>1, <2>2 DEF SInv, Writers
  <2> QED BY <1>18, <2>1, <2>4, <2>5 DEF PutBack, SInv, Writers, HolderAdmits
<1>19. ASSUME NEW c \in Callers, Register(c) PROVE Writers'
  BY <1>19, ThreadsAssumption, NoneAssumption DEF Register, Put, NoCall, At, TInv, TypeOK,
     SInv, Frames, Roles, Claims, Writers, HasHolder
<1>20. ASSUME NEW c \in Callers, NullDereference(c) PROVE Writers'
  BY <1>20, ThreadsAssumption, NoneAssumption DEF NullDereference, At, TInv, TypeOK, SInv,
     Frames, Roles, Claims, Writers, HasHolder
<1>21. ASSUME NEW c \in Callers, HolderSetMetadata(c) PROVE Writers'
  BY <1>21, ThreadsAssumption, NoneAssumption DEF HolderSetMetadata, At, TInv, TypeOK, SInv,
     Frames, Roles, Claims, Writers, HasHolder
<1>22. ASSUME NEW c \in Callers, HolderPutBack(c) PROVE Writers'
  BY <1>22, ThreadsAssumption, NoneAssumption DEF HolderPutBack, Put, NoCall, At, TInv,
     TypeOK, SInv, Frames, Roles, Claims, Writers, HasHolder
<1>23. ASSUME NEW c \in Callers, HolderSend(c) PROVE Writers'
  BY <1>23, ThreadsAssumption, NoneAssumption DEF HolderSend, NoCall, At, TInv, TypeOK,
     SInv, Frames, Roles, Claims, Writers, HasHolder
<1>24. ASSUME NEW c \in Callers, CloseFails(c) PROVE Writers'
  BY <1>24, ThreadsAssumption, NoneAssumption DEF CloseFails, NoCall, At, TInv, TypeOK,
     SInv, Frames, Roles, Claims, Writers, HasHolder
<1>25. ASSUME NEW r \in Requests, NEW outcome \in {"sent", "aborted"},
             SenderEnds(r, outcome)
      PROVE  Writers'
  BY <1>25, ThreadsAssumption, NoneAssumption DEF SenderEnds, At, TInv, TypeOK, SInv,
     Frames, Roles, Claims, Writers, HasHolder
<1>26. ASSUME NEW c \in Callers, UseAfterFree(c) PROVE Writers'
  BY <1>26 DEF UseAfterFree, TInv, TypeOK, SInv, Frames, Roles, Writers, Hands,
     HasHolder
<1>27. CASE UNCHANGED vars
  BY <1>27 DEF vars, TInv, TypeOK, SInv, Frames, Roles, Claims, Writers, HasHolder
<1> QED BY <1>1, <1>2, <1>3, <1>4, <1>5, <1>6, <1>7, <1>8, <1>9, <1>10, <1>11,
  <1>12, <1>13, <1>14, <1>15, <1>16, <1>17, <1>18, <1>19, <1>20, <1>21, <1>22,
  <1>23, <1>24, <1>25, <1>26, <1>27 DEF Next, ServerStep, InsideCall, ScriptCalls

(* What an action does to the calls that have a writer or a WebSocket in   *)
(* their hands: nothing, for every action but those that begin or end such *)
(* a call, and detach, which makes one.                                    *)
SameHolders == \A d \in Callers, i \in Holders : HasHolder(d, i)' <=> HasHolder(d, i)

LEMMA HandsKept ==
    ASSUME SInv, SameHolders, UNCHANGED <<native, cur, holds, hreg, unclosed>>
    PROVE  Hands'
BY DEF SInv, Hands, Reached, SameHolders

(* A native object leaves its request, or the sender, for good.            *)
LEMMA HandsReleased ==
    ASSUME TInv, SInv, SameHolders, NEW r, NEW owner \in {"sent", "sender", "aborted"},
           native' = [native EXCEPT ![r] = owner], UNCHANGED <<cur, holds, hreg, unclosed>>
    PROVE  Hands'
<1>1. \A q \in Requests : native'[q] \in {"impl", "holder"} => native'[q] = native[q]
  BY DEF TInv, TypeOK
<1> QED BY <1>1 DEF SInv, Hands, Reached, SameHolders

(* Hands: wherever a native object is, somebody can get at it.             *)
LEMMA HandsStep ==
    ASSUME TInv, TInv', SInv, [Next]_vars
    PROVE  Hands'
<1> USE DEF registries, threads, requests, history
<1>p. Pool \subseteq Callers
  BY DEF Callers
<1>q. ASSUME NEW c \in Callers, pc[c] \in {"check", "act"}, Continue(c, None)
      PROVE  SameHolders
  BY <1>q, ContinueHolders DEF SameHolders
<1>a. ASSUME NEW c \in Callers, NEW p, p \notin {"hact", "hput"},
             pc[c] \notin {"hact", "hput"}, pc' = [pc EXCEPT ![c] = p],
             \/ UNCHANGED call
             \/ /\ call[c].made = None
                /\ \E k \in Calls : k.made = None /\ call' = [call EXCEPT ![c] = k]
      PROVE  SameHolders
  <2>1. /\ \A d \in Callers \ {c} : pc'[d] = pc[d] /\ call'[d] = call[d]
        /\ pc'[c] \notin {"hact", "hput"}
        /\ call'[c].made = call[c].made
    BY <1>a DEF TInv, TypeOK
  <2> QED BY <1>a, <2>1, NoneAssumption DEF SameHolders, HasHolder
<1>1. ASSUME NEW t \in Pool, NEW r \in Requests, Arrive(t, r) PROVE Hands'
  <2>1. SameHolders
    BY <1>1, <1>p, <1>a DEF Arrive, At, SInv, Roles
  <2>2. /\ cur[t] = None /\ cur' = [cur EXCEPT ![t] = r]
        /\ native' = [native EXCEPT ![r] = "impl"]
        /\ UNCHANGED <<holds, hreg, unclosed>>
    BY <1>1 DEF Arrive, At, SInv, Frames
  <2>3. \A q \in Requests : native'[q] = "impl" => \E u \in Pool : cur'[u] = q
    BY <2>2, NoneAssumption DEF SInv, Hands, TInv, TypeOK
  <2>4. \A q \in Requests : native'[q] = "holder" => native[q] = "holder"
    BY <2>2 DEF TInv, TypeOK
  <2> QED BY <2>1, <2>2, <2>3, <2>4 DEF SInv, Hands, Reached, SameHolders
<1>2. ASSUME NEW t \in Pool, Enter(t) \/ EnterThrows(t) \/ ScriptReturns(t) \/ ScriptFails(t) PROVE Hands'
  <2>1. /\ pc[t] \in {"enter", "script"} /\ t \in Callers /\ UNCHANGED call
        /\ \E p \in {"script", "unwind", "leave", "err_remove"} : pc' = [pc EXCEPT ![t] = p]
        /\ UNCHANGED <<native, cur, holds, hreg, unclosed>>
    BY <1>2, <1>p DEF Enter, EnterThrows, ScriptReturns, ScriptFails, At
  <2>2. SameHolders
    BY <2>1, <1>a
  <2> QED BY <2>1, <2>2, HandsKept
<1>3. ASSUME NEW t \in Pool, ErrorRemove(t) \/ Leave(t) PROVE Hands'
  <2>1. pc[t] \in {"err_remove", "leave"} /\ call[t].made = None
    BY <1>3, <1>p DEF ErrorRemove, Leave, At, SInv, Roles
  <2>2. /\ \A d \in Callers \ {t} : pc'[d] = pc[d] /\ call'[d] = call[d]
        /\ call'[t].made = None /\ pc'[t] \notin {"hact", "hput"}
    BY <1>3, <1>p, <2>1 DEF ErrorRemove, Leave, TInv, TypeOK
  <2>3. SameHolders
    BY <2>1, <2>2, NoneAssumption DEF SameHolders, HasHolder
  <2> QED BY <1>3, <2>3, HandsKept DEF ErrorRemove, Leave
<1>4. ASSUME NEW t \in Pool, Destroy(t) PROVE Hands'
  <2>1. pc[t] \in {"destroy", "unwind"} /\ call[t].made = None /\ cur[t] \in Requests
    BY <1>4, <1>p DEF Destroy, At, SInv, Roles, TInv, Pointers
  <2>2. SameHolders
    BY <1>4, <1>p, <2>1, <1>a, NoCallType DEF Destroy, NoCall
  <2>3. /\ cur' = [cur EXCEPT ![t] = None] /\ native'[cur[t]] # "impl"
        /\ \A q \in Requests : native'[q] \in {"impl", "holder"} => native'[q] = native[q]
        /\ UNCHANGED <<holds, hreg, unclosed>>
    BY <1>4, <2>1 DEF Destroy, TInv, TypeOK
  <2>4. \A q \in Requests : native'[q] = "impl" => \E u \in Pool : cur'[u] = q
    <3> SUFFICES ASSUME NEW q \in Requests, native'[q] = "impl"
                 PROVE  \E u \in Pool : cur'[u] = q
      OBVIOUS
    <3>1. q # cur[t] /\ native[q] = "impl"
      BY <2>3
    <3>2. PICK u \in Pool : cur[u] = q
      BY <3>1 DEF SInv, Hands
    <3> QED BY <2>3, <3>1, <3>2 DEF TInv, TypeOK
  <2> QED BY <2>2, <2>3, <2>4 DEF SInv, Hands, Reached, SameHolders
<1>5. ASSUME NEW c \in Callers, NEW t \in Pool, NEW o \in RequestOps, BeginCall(c, t, o)
      PROVE  Hands'
  <2>1. pc[c] = "script" /\ call[c].made = None
    BY <1>5 DEF BeginCall, At, SInv, Roles
  <2>2. /\ \A d \in Callers \ {c} : pc'[d] = pc[d] /\ call'[d] = call[d]
        /\ call'[c].made = None /\ pc'[c] = "check"
    BY <1>5 DEF BeginCall, TInv, TypeOK
  <2>3. SameHolders
    BY <2>1, <2>2, NoneAssumption DEF SameHolders, HasHolder
  <2> QED BY <1>5, <2>3, HandsKept DEF BeginCall
<1>6. ASSUME NEW c \in Callers, CheckPasses(c) PROVE Hands'
  <2>1. SameHolders
    BY <1>6, <1>a DEF CheckPasses, At, SInv, Roles
  <2> QED BY <1>6, <2>1, HandsKept DEF CheckPasses
<1>7. ASSUME NEW c \in Callers,
             CheckRefuses(c) \/ ActGet(c) \/ ActSetMetadata(c) \/ ActTemplateFails(c) \/ ActWriteFails(c)
      PROVE  Hands'
  <2>1. /\ pc[c] \in {"check", "act"} /\ Continue(c, None)
        /\ UNCHANGED <<native, cur, holds, hreg, unclosed>>
    BY <1>7 DEF CheckRefuses, ActGet, ActSetMetadata, ActTemplateFails, ActWriteFails, Acting, At
  <2> QED BY <2>1, <1>q, HandsKept
<1>8. ASSUME NEW c \in Callers, ActSend(c) \/ ActStream(c) PROVE Hands'
  <2>1. /\ pc[c] \in {"check", "act"} /\ Continue(c, None)
        /\ \E owner \in {"sent", "sender", "aborted"} :
              native' = [native EXCEPT ![call[c].req] = owner]
        /\ UNCHANGED <<cur, holds, hreg, unclosed>>
    BY <1>8 DEF ActSend, ActStream, Acting, At
  <2> QED BY <2>1, <1>q, HandsReleased
<1>9. ASSUME NEW c \in Callers, NEW h \in Holders, ActDetach(c, h) PROVE Hands'
  <2>1. /\ pc[c] = "act" /\ Continue(c, h) /\ holds[h] = None
        /\ call[c].op \in Detaches /\ native[call[c].req] = "impl"
        /\ call[c].req \in Requests /\ call[c] \in Calls /\ call[c].made = None
    BY <1>9 DEF ActDetach, Acting, At, TInv, TypeOK, SInv, Roles, Dangling, NeedsNative,
       Detaches, Getters
  <2>2. pc' = [pc EXCEPT ![c] = "putback"] /\ call' = [call EXCEPT ![c].made = h]
    BY <2>1 DEF Continue, SInv, Roles, Detaches
  <2>3. \A d \in Callers, i \in Holders :
           HasHolder(d, i)' <=> HasHolder(d, i) \/ (d = c /\ i = h)
    BY <2>1, <2>2, NoneAssumption DEF HasHolder, TInv, TypeOK, Calls
  <2>4. /\ holds' = [holds EXCEPT ![h] = call[c].req]
        /\ native' = [native EXCEPT ![call[c].req] = "holder"]
        /\ UNCHANGED <<cur, hreg, unclosed>>
    BY <1>9, <2>1 DEF ActDetach
  <2>5. \A q \in Requests : native'[q] = "impl" => \E u \in Pool : cur'[u] = q
    BY <2>4 DEF SInv, Hands, TInv, TypeOK
  <2>6. \A q \in Requests : native'[q] = "holder" => \E i \in Holders : holds'[i] = q
    <3> SUFFICES ASSUME NEW q \in Requests, native'[q] = "holder"
                 PROVE  \E i \in Holders : holds'[i] = q
      OBVIOUS
    <3>1. CASE q = call[c].req
      BY <2>4, <3>1 DEF TInv, TypeOK
    <3>2. CASE q # call[c].req
      <4>1. PICK i \in Holders : holds[i] = q
        BY <2>4, <3>2 DEF SInv, Hands, TInv, TypeOK
      <4>2. i # h
        BY <2>1, <4>1, NoneAssumption
      <4> QED BY <2>4, <4>1, <4>2 DEF TInv, TypeOK
    <3> QED BY <3>1, <3>2
  <2>7. \A i \in Holders : holds'[i] # None => Reached(i)' \/ holds'[i] \in unclosed'
    BY <2>1, <2>3, <2>4 DEF SInv, Hands, Reached, TInv, TypeOK
  <2> QED BY <2>5, <2>6, <2>7 DEF Hands
<1>10. ASSUME NEW c \in Callers, NEW h \in Holders, NEW o \in HolderOps, BeginHolderCall(c, h, o)
       PROVE  Hands'
  <2>1. /\ pc[c] = "script" /\ call[c].made = None /\ hreg' = hreg \ {h}
        /\ UNCHANGED <<native, cur, holds, unclosed>>
    BY <1>10 DEF BeginHolderCall, Remove, At, SInv, Roles
  <2>2. /\ \A d \in Callers \ {c} : pc'[d] = pc[d] /\ call'[d] = call[d]
        /\ call'[c].ptr = h /\ pc'[c] = "hact"
    BY <1>10 DEF BeginHolderCall, TInv, TypeOK
  <2>3. \A i \in Holders : Reached(i) /\ holds[i] # None => Reached(i)'
    BY <2>1, <2>2, NoneAssumption DEF Reached, HasHolder
  <2> QED BY <2>1, <2>3 DEF SInv, Hands
<1>11. ASSUME NEW c \in Callers, PutBack(c) PROVE Hands'
  <2>1. pc[c] = "putback" /\ UNCHANGED <<native, cur, holds, hreg, unclosed>>
    BY <1>11 DEF PutBack, At
  <2>2. SameHolders
    BY <1>11, <2>1, <1>a, NoCallType DEF PutBack, NoCall
  <2> QED BY <2>1, <2>2, HandsKept
<1>12. ASSUME NEW c \in Callers, Register(c) \/ HolderPutBack(c) PROVE Hands'
  <2> DEFINE h == IF pc[c] = "register" THEN call[c].made ELSE call[c].ptr
  <2>1. /\ pc[c] \in {"register", "hput"} /\ hreg' = hreg \cup {h}
        /\ UNCHANGED <<native, cur, holds, unclosed>>
    BY <1>12 DEF Register, HolderPutBack, Put, At
  <2>2. \A d \in Callers \ {c} : pc'[d] = pc[d] /\ call'[d] = call[d]
    BY <1>12 DEF Register, HolderPutBack, TInv, TypeOK
  <2>3. \A i \in Holders : HasHolder(c, i) => i = h
    BY <2>1, NoneAssumption DEF HasHolder, SInv, Roles
  <2>4. \A i \in Holders : Reached(i) => Reached(i)'
    BY <2>1, <2>2, <2>3 DEF Reached, HasHolder
  <2> QED BY <2>1, <2>4 DEF SInv, Hands
<1>13. ASSUME NEW c \in Callers, HolderSetMetadata(c) PROVE Hands'
  <2>1. /\ pc[c] = "hact" /\ pc' = [pc EXCEPT ![c] = "hput"]
        /\ UNCHANGED <<native, cur, holds, hreg, unclosed, call>>
    BY <1>13 DEF HolderSetMetadata, At
  <2>2. SameHolders
    BY <2>1 DEF SameHolders, HasHolder, TInv, TypeOK
  <2> QED BY <2>1, <2>2, HandsKept
<1>14. ASSUME NEW c \in Callers, HolderSend(c) \/ CloseFails(c) PROVE Hands'
  <2> DEFINE h == call[c].ptr
             r == call[c].req
  <2>1. /\ pc[c] = "hact" /\ h \in Holders /\ call[c].made = None
        /\ UNCHANGED <<cur, hreg>>
    BY <1>14 DEF HolderSend, CloseFails, At, SInv, Roles
  <2>2. holds[h] = r /\ r \in Requests
    <3>1. HasHolder(c, h)
      BY <2>1 DEF HasHolder
    <3> QED BY <2>1, <3>1 DEF SInv, Writers, TInv, TypeOK
  <2>3. \A d \in Callers \ {c} : pc'[d] = pc[d] /\ call'[d] = call[d]
    BY <1>14 DEF HolderSend, CloseFails, TInv, TypeOK
  <2>4. \A i \in Holders \ {h} : Reached(i) => Reached(i)'
    BY <2>1, <2>3, NoneAssumption DEF Reached, HasHolder
  <2> HIDE DEF h, r
  <2>5. CASE HolderSend(c)
    <3>1. /\ holds' = [holds EXCEPT ![h] = None] /\ UNCHANGED unclosed
          /\ \E outcome \in {"sent", "aborted"} : native' = [native EXCEPT ![r] = outcome]
      BY <2>5 DEF HolderSend, h, r
    <3>2. \A q \in Requests : native'[q] \in {"impl", "holder"} =>
             q # r /\ native'[q] = native[q]
      BY <2>2, <3>1 DEF TInv, TypeOK
    <3>3. \A q \in Requests : native'[q] = "holder" => \E i \in Holders : holds'[i] = q
      <4> SUFFICES ASSUME NEW q \in Requests, native'[q] = "holder"
                   PROVE  \E i \in Holders : holds'[i] = q
        OBVIOUS
      <4>1. PICK i \in Holders : holds[i] = q
        BY <3>2 DEF SInv, Hands
      <4>2. i # h
        BY <2>2, <3>2, <4>1
      <4> QED BY <3>1, <4>1, <4>2 DEF TInv, TypeOK
    <3>4. \A q \in Requests : native'[q] = "impl" => \E t \in Pool : cur'[t] = q
      BY <2>1, <3>2 DEF SInv, Hands
    <3>5. \A i \in Holders : holds'[i] # None => i # h /\ holds'[i] = holds[i]
      BY <2>1, <3>1 DEF TInv, TypeOK
    <3> QED BY <2>4, <3>1, <3>3, <3>4, <3>5 DEF SInv, Hands
  <2>6. CASE CloseFails(c)
    <3>1. UNCHANGED <<native, holds>> /\ unclosed' = unclosed \cup {r}
      BY <2>6 DEF CloseFails, r
    <3> QED BY <2>1, <2>2, <2>4, <3>1 DEF SInv, Hands
  <2> QED BY <1>14, <2>5, <2>6
<1>15. ASSUME NEW r \in Requests, NEW outcome \in {"sent", "aborted"}, SenderEnds(r, outcome)
       PROVE  Hands'
  <2>1. SameHolders
    BY <1>15 DEF SenderEnds, SameHolders, HasHolder
  <2> QED BY <1>15, <2>1, HandsReleased DEF SenderEnds
<1>16. ASSUME UNCHANGED <<pc, call, native, cur, holds, hreg, unclosed>> PROVE Hands'
  <2>1. SameHolders
    BY <1>16 DEF SameHolders, HasHolder
  <2> QED BY <1>16, <2>1, HandsKept
<1>17. ASSUME NEW c \in Callers, UseAfterFree(c) \/ NullDereference(c) PROVE Hands'
  BY <1>16, <1>17 DEF UseAfterFree, NullDereference
<1>18. CASE UNCHANGED vars
  BY <1>16, <1>18 DEF vars
<1> QED BY <1>1, <1>2, <1>3, <1>4, <1>5, <1>6, <1>7, <1>8, <1>9, <1>10, <1>11, <1>12, <1>13,
           <1>14, <1>15, <1>17, <1>18
    DEF Next, ServerStep, InsideCall, ScriptCalls

(* The operation on a writer works on a request that was deferred.         *)
LEMMA HeldRequest ==
    ASSUME TInv, SInv, NEW c \in Callers, pc[c] = "hact"
    PROVE  /\ call[c].req \in Requests
           /\ native[call[c].req] = "holder"
           /\ Kind[call[c].req] # "wsclose"
           /\ HolderAdmits(call[c].op, call[c].req)
<1>1. /\ call[c].ptr \in Holders
      /\ call[c].req = holds[call[c].ptr]
      /\ HolderAdmits(call[c].op, call[c].req)
  BY DEF SInv, Roles, Writers
<1>2. HasHolder(c, call[c].ptr)
  BY DEF HasHolder
<1>3. holds[call[c].ptr] # None
  BY <1>1, <1>2 DEF SInv, Writers
<1>4. call[c].req \in Requests /\ native[call[c].req] = "holder"
  BY <1>1, <1>3 DEF TInv, TypeOK, SInv, Writers
<1> QED BY <1>1, <1>4, KindAssumption DEF SInv, Protocol

(* A committing operation that goes through the native object.             *)
LEMMA CommittedRequest ==
    ASSUME TInv, SInv, NEW c \in Callers, Acting(c, Committing)
    PROVE  /\ call[c].req \in Requests /\ Kind[call[c].req] # "wsclose"
           /\ native[call[c].req] = "impl" /\ state[call[c].req] = "committed"
<1>1. /\ pc[c] = "act" /\ ~Dangling(c) /\ call[c].op \in Committing
      /\ call[c].req \in Requests
  BY DEF Acting, At, Dangling, TInv, TypeOK, Calls
<1>2. call[c].req # None
  BY <1>1, NoneAssumption
<1> QED BY <1>1, <1>2 DEF SInv, Protocol, Claims, Claiming

LEMMA ProtocolKept ==
    ASSUME Protocol, UNCHANGED <<native, state>>,
           \A d \in Callers : pc'[d] = "act" => pc[d] = "act" /\ call'[d] = call[d]
    PROVE  Protocol'
BY DEF Protocol

(* Protocol when a native object of another protocol than a close          *)
(* notification's changes hands.                                           *)
LEMMA ProtocolMoved ==
    ASSUME TInv, SInv, NEW r \in Requests, NEW n, Kind[r] # "wsclose",
           native' = [native EXCEPT ![r] = n], UNCHANGED state,
           \A d \in Callers : pc'[d] = "act" => pc[d] = "act" /\ call'[d] = call[d]
    PROVE  Protocol'
BY DEF TInv, TypeOK, SInv, Protocol

LEMMA ProtocolStep ==
    ASSUME TInv, SInv, [Next]_vars
    PROVE  Protocol'
<1> USE DEF registries, threads, requests, history
<1>p. Protocol /\ Pool \subseteq Callers
  BY DEF SInv, Callers
<1>a. ASSUME NEW c \in Callers, NEW made \in Holders \cup {None}, Continue(c, made)
      PROVE  \A d \in Callers : pc'[d] = "act" => pc[d] = "act" /\ call'[d] = call[d]
  BY <1>a, ContinueOthers
<1>1. ASSUME NEW t \in Pool, NEW r \in Requests, Arrive(t, r) PROVE Protocol'
  <2>1. \A d \in Callers : pc'[d] = "act" => pc[d] = "act" /\ call'[d] = call[d]
    BY <1>1, <1>p DEF Arrive, TInv, TypeOK
  <2>2. /\ native' = [native EXCEPT ![r] = "impl"]
        /\ state' = [state EXCEPT ![r] =
                        IF Kind[r] = "wsclose" THEN "committed" ELSE "created"]
    BY <1>1 DEF Arrive
  <2> QED BY <1>p, <2>1, <2>2 DEF TInv, TypeOK, Protocol
<1>2. ASSUME NEW t \in Pool,
             Enter(t) \/ EnterThrows(t) \/ ScriptReturns(t) \/ ScriptFails(t) \/ ErrorRemove(t) \/ Leave(t)
      PROVE  Protocol'
  <2>1. /\ UNCHANGED <<native, state>>
        /\ \A d \in Callers : pc'[d] = "act" => pc[d] = "act" /\ call'[d] = call[d]
    BY <1>2, <1>p DEF Enter, EnterThrows, ScriptReturns, ScriptFails, ErrorRemove, Leave, At, TInv, TypeOK
  <2> QED BY <2>1, <1>p, ProtocolKept
<1>3. ASSUME NEW t \in Pool, Destroy(t) PROVE Protocol'
  <2>1. \A d \in Callers : pc'[d] = "act" => pc[d] = "act" /\ call'[d] = call[d]
    BY <1>3, <1>p DEF Destroy, At, TInv, TypeOK
  <2>2. cur[t] \in Requests
    BY <1>3 DEF Destroy, At, TInv, Pointers
  <2> QED BY <1>3, <1>p, <2>1, <2>2 DEF Destroy, TInv, TypeOK, Protocol
<1>4. ASSUME NEW c \in Callers, CheckPasses(c) PROVE Protocol'
  <2> DEFINE r == call[c].req
  <2>1. /\ pc[c] = "check" /\ Admits(call[c].op, r) /\ UNCHANGED <<native, call>>
        /\ r \in Requests /\ r # None
    BY <1>4, NoneAssumption DEF CheckPasses, At, Dangling, TInv, TypeOK, Calls
  <2>2. state' = [state EXCEPT ![r] = StateAfter(call[c].op, @)]
    BY <1>4 DEF CheckPasses
  <2>3. \A q \in Requests : state[q] = "committed" => state'[q] = "committed"
    BY <2>2 DEF StateAfter, TInv, TypeOK
  <2>4. /\ call[c].op \in Committing => Kind[r] # "wsclose"
        /\ call[c].op = "set_response_metadata" => Kind[r] = "http"
    <3>1. native[r] \notin {"pion", "dropped"}
      <4>1. call[c].ptr \in Pool /\ cur[call[c].ptr] = r
        BY <1>4, <2>1 DEF CheckPasses, Dangling, TInv, Pointers
      <4> QED BY <2>1, <4>1 DEF SInv, Frames
    <3>2. state[r] = "created" => native[r] = "impl"
      BY <2>1, <3>1 DEF SInv, Claims, Unmoved
    <3>3. state[r] = "created" => Kind[r] # "wsclose"
      BY <1>p, <2>1, <3>2 DEF Protocol
    <3> QED BY <2>1, <3>3 DEF Admits, HttpOnly
  <2>5. \A d \in Callers : pc'[d] = "act" => d = c \/ pc[d] = "act"
    BY <1>4 DEF CheckPasses, TInv, TypeOK
  <2> QED BY <1>p, <2>1, <2>3, <2>4, <2>5 DEF Protocol
<1>5. ASSUME NEW c \in Callers,
             CheckRefuses(c) \/ ActGet(c) \/ ActSetMetadata(c) \/ ActTemplateFails(c) \/ ActWriteFails(c)
      PROVE  Protocol'
  <2>1. Continue(c, None) /\ UNCHANGED <<native, state>>
    BY <1>5 DEF CheckRefuses, ActGet, ActSetMetadata, ActTemplateFails, ActWriteFails
  <2> QED BY <1>p, <2>1, <1>a, ProtocolKept
<1>6. ASSUME NEW c \in Callers, ActSend(c) \/ ActStream(c) PROVE Protocol'
  <2>1. /\ Acting(c, Committing) /\ Continue(c, None) /\ UNCHANGED state
        /\ \E n \in {"sent", "sender", "aborted"} :
              native' = [native EXCEPT ![call[c].req] = n]
    BY <1>6 DEF ActSend, ActStream, Acting, Committing
  <2>2. call[c].req \in Requests /\ Kind[call[c].req] # "wsclose"
    BY <2>1, CommittedRequest
  <2>3. \A d \in Callers : pc'[d] = "act" => pc[d] = "act" /\ call'[d] = call[d]
    BY <2>1, <1>a
  <2> QED BY <2>1, <2>2, <2>3, ProtocolMoved
<1>7. ASSUME NEW c \in Callers, NEW h \in Holders, ActDetach(c, h) PROVE Protocol'
  <2>1. /\ Acting(c, Committing) /\ Continue(c, h) /\ UNCHANGED state
        /\ native' = [native EXCEPT ![call[c].req] = "holder"]
    BY <1>7 DEF ActDetach, Acting, Committing
  <2> QED BY <2>1, <1>a, CommittedRequest, ProtocolMoved
<1>8. ASSUME NEW c \in Callers, HolderSend(c) PROVE Protocol'
  <2>1. /\ pc[c] = "hact" /\ UNCHANGED state
        /\ \E n \in {"sent", "aborted"} : native' = [native EXCEPT ![call[c].req] = n]
        /\ \A d \in Callers : pc'[d] = "act" => pc[d] = "act" /\ call'[d] = call[d]
    BY <1>8 DEF HolderSend, At, TInv, TypeOK
  <2>2. call[c].req \in Requests /\ Kind[call[c].req] # "wsclose"
    BY <2>1, HeldRequest
  <2> QED BY <2>1, <2>2, ProtocolMoved
<1>9. ASSUME NEW c \in Callers, \/ PutBack(c) \/ Register(c) \/ UseAfterFree(c)
                                \/ NullDereference(c) \/ HolderSetMetadata(c)
                                \/ HolderPutBack(c) \/ CloseFails(c)
      PROVE  Protocol'
  <2>1. /\ UNCHANGED <<native, state>>
        /\ \A d \in Callers : pc'[d] = "act" => pc[d] = "act" /\ call'[d] = call[d]
    BY <1>9 DEF PutBack, Register, UseAfterFree, NullDereference, HolderSetMetadata,
       HolderPutBack, CloseFails, At, TInv, TypeOK
  <2> QED BY <1>p, <2>1, ProtocolKept
<1>10. ASSUME NEW c \in Callers, ScriptCalls(c) PROVE Protocol'
  <2>1. /\ UNCHANGED <<native, state>>
        /\ \A d \in Callers : pc'[d] = "act" => pc[d] = "act" /\ call'[d] = call[d]
    BY <1>10 DEF ScriptCalls, BeginCall, BeginHolderCall, At, TInv, TypeOK
  <2> QED BY <1>p, <2>1, ProtocolKept
<1>11. ASSUME NEW r \in Requests, NEW outcome \in {"sent", "aborted"},
              SenderEnds(r, outcome)
       PROVE  Protocol'
  BY <1>11, <1>p, ProtocolMoved DEF SenderEnds, Protocol
<1>12. CASE UNCHANGED vars
  BY <1>12, <1>p, ProtocolKept DEF vars
<1> QED BY <1>1, <1>2, <1>3, <1>4, <1>5, <1>6, <1>7, <1>8, <1>9, <1>10, <1>11,
  <1>12 DEF Next, ServerStep, InsideCall

(* What holds whoever uses a request handle.                               *)
LEMMA SharedStep == TInv /\ TInv' /\ SInv /\ [Next]_vars => SInv'
<1> SUFFICES ASSUME TInv, TInv', SInv, [Next]_vars PROVE SInv'
  OBVIOUS
<1>1. TypeOK'
  BY DEF TInv
<1> QED BY <1>1, FramesStep, RolesStep, ClaimsStep, FinishedStep, WritersStep, HandsStep, ProtocolStep
    DEF SInv

LEMMA SharedInit == Init => TInv /\ SInv
<1> SUFFICES ASSUME Init PROVE TInv /\ SInv
  OBVIOUS
<1>1. TInv
  BY NoCallType DEF Init, TInv, TypeOK, Pointers, Empty, Callers
<1>2. Frames /\ Roles /\ Finished
  BY ThreadsAssumption, NoneAssumption DEF Init, Frames, Roles, Finished, NoCall, Callers
<1>3. Claims
  BY DEF Init, Claims, Claiming, Unmoved, NoCall, Callers
<1>4. Writers /\ Hands /\ Protocol
  BY NoneAssumption DEF Init, Writers, Hands, Protocol, HasHolder, NoCall, Callers, Empty
<1> QED BY <1>1, <1>2, <1>3, <1>4 DEF SInv, TInv

LEMMA SharedReachable == Spec => [](TInv /\ SInv)
<1>1. TInv /\ SInv /\ [Next]_vars => TInv' /\ SInv'
  BY SharedStep, TypeStep
<1> QED BY <1>1, SharedInit, PTL DEF Spec

(* Every variable keeps to the values the code gives it, in every run,     *)
(* whether or not scripts share request handles.                           *)
THEOREM TypeCorrect == Spec => []TypeOK
<1>1. TInv => TypeOK
  BY DEF TInv
<1> QED BY <1>1, SharedReachable, PTL

(* The winner of the compare-and-swap finds the native object, whoever     *)
(* uses the request handle and however calls on one request interleave.    *)
THEOREM CommitPathIsSafe == Spec => []CommitPathSafe
<1>1. SInv => CommitPathSafe
  BY DEF SInv, Claims, Claiming, CommitPathSafe
<1> QED BY <1>1, SharedReachable, PTL

(* No request that arrived is forgotten, whoever uses its handle: there is *)
(* a frame to answer it, or a writer or WebSocket somebody can get at,     *)
(* unless a close of it threw.                                             *)
THEOREM NobodyIsForgotten == Spec => []NobodyForgotten
<1>1. TInv /\ SInv => NobodyForgotten
  BY NoneAssumption DEF TInv, TypeOK, SInv, Hands, NobodyForgotten
<1> QED BY <1>1, SharedReachable, PTL

-----------------------------------------------------------------------------
(* With handles kept to their callback scripts: IInv.                      *)

LEMMA ContinueConfined ==
    ASSUME TInv, IInv, NEW c \in Callers, NEW made \in Holders \cup {None},
           pc[c] \in {"check", "act"}, Continue(c, made), UNCHANGED cur,
           made # None => call[c].by = "script"
    PROVE  Confined'
<1> USE DEF Callers
<1>1. /\ call[c] \in Calls /\ c \in Pool
      /\ call[c].ptr = c /\ call[c].req = cur[c] /\ call[c].made = None
  BY DEF TInv, TypeOK, IInv, SInv, Roles, Confined, InRequestCall
<1>2. CASE /\ call[c].by = "error" /\ call[c].op = "set_response_metadata"
           /\ pc' = [pc EXCEPT ![c] = "check"]
           /\ call' = [call EXCEPT ![c].op = "send_response"]
  BY <1>1, <1>2, ThreadsAssumption, NoneAssumption
  DEF TInv, TypeOK, IInv, SInv, Roles, Confined, InRequestCall, Calls
<1>3. CASE /\ call[c].by = "server"
           /\ pc' = [pc EXCEPT ![c] = "destroy"]
           /\ UNCHANGED call
  BY <1>1, <1>3, ThreadsAssumption, NoneAssumption
  DEF TInv, TypeOK, IInv, SInv, Roles, Confined, InRequestCall
<1>4. CASE /\ call[c].by = "script" \/ (call[c].by = "error" /\ call[c].op = "send_response")
           /\ pc' = [pc EXCEPT ![c] = "putback"]
           /\ call' = [call EXCEPT ![c].made = made]
  BY <1>1, <1>4, ThreadsAssumption, NoneAssumption
  DEF TInv, TypeOK, IInv, SInv, Roles, Confined, InRequestCall, Calls
<1> QED BY <1>2, <1>3, <1>4 DEF Continue

(* Confined: with handles kept to their callback scripts, only the frame's *)
(* own thread is ever inside a call on a request.                          *)
LEMMA ConfinedStep ==
    ASSUME ~SharedRequests, TInv, TInv', IInv, [Next]_vars
    PROVE  Confined'
<1> USE DEF Callers, registries, threads, requests, history
<1>1. ASSUME NEW t \in Pool, NEW r \in Requests, Arrive(t, r) PROVE Confined'
  BY <1>1, ThreadsAssumption, NoneAssumption DEF Arrive, At, TInv, TypeOK, IInv, SInv,
     Frames, Roles, Confined, InRequestCall
<1>2. ASSUME NEW t \in Pool, Enter(t) \/ EnterThrows(t) PROVE Confined'
  BY <1>2, ThreadsAssumption, NoneAssumption DEF Enter, EnterThrows, Put, At, TInv, TypeOK, IInv, SInv,
     Frames, Roles, Confined, InRequestCall
<1>3. ASSUME NEW t \in Pool, ScriptReturns(t) PROVE Confined'
  BY <1>3, ThreadsAssumption, NoneAssumption DEF ScriptReturns, At, TInv, TypeOK, IInv,
     SInv, Frames, Roles, Confined, InRequestCall
<1>4. ASSUME NEW t \in Pool, ScriptFails(t) PROVE Confined'
  BY <1>4, ThreadsAssumption, NoneAssumption DEF ScriptFails, At, TInv, TypeOK, IInv, SInv,
     Frames, Roles, Confined, InRequestCall
<1>5. ASSUME NEW t \in Pool, ErrorRemove(t) PROVE Confined'
  BY <1>5, ThreadsAssumption, NoneAssumption DEF ErrorRemove, Remove, Found, At, TInv,
     TypeOK, IInv, SInv, Frames, Roles, Confined, InRequestCall
<1>6. ASSUME NEW t \in Pool, Leave(t) PROVE Confined'
  BY <1>6, ThreadsAssumption, NoneAssumption DEF Leave, Remove, At, TInv, TypeOK, IInv,
     SInv, Frames, Roles, Confined, InRequestCall
<1>7. ASSUME NEW t \in Pool, Destroy(t) PROVE Confined'
  BY <1>7, ThreadsAssumption, NoneAssumption DEF Destroy, NoCall, At, TInv, TypeOK, IInv,
     SInv, Frames, Roles, Confined, InRequestCall
<1>8. ASSUME NEW c \in Callers, NEW t \in Pool, NEW o \in RequestOps,
             BeginCall(c, t, o)
      PROVE  Confined'
  BY <1>8, ThreadsAssumption, NoneAssumption DEF BeginCall, Remove, Found, At, TInv, TypeOK,
     IInv, SInv, Frames, Roles, Confined, InRequestCall
<1>9. ASSUME NEW c \in Callers, NEW h \in Holders, NEW o \in HolderOps,
             BeginHolderCall(c, h, o)
      PROVE  Confined'
  BY <1>9, ThreadsAssumption, NoneAssumption DEF BeginHolderCall, Remove, Found, At, TInv,
     TypeOK, IInv, SInv, Frames, Roles, Confined, InRequestCall
<1>10. ASSUME NEW c \in Callers, CheckPasses(c) PROVE Confined'
  BY <1>10, ThreadsAssumption, NoneAssumption DEF CheckPasses, At, TInv, TypeOK, IInv, SInv,
     Frames, Roles, Confined, InRequestCall
<1>11. ASSUME NEW c \in Callers, CheckRefuses(c) PROVE Confined'
  <2>1. pc[c] \in {"check", "act"} /\ Continue(c, None) /\ UNCHANGED cur
    BY <1>11 DEF CheckRefuses, At, Acting
  <2> QED BY <2>1, ContinueConfined
<1>12. ASSUME NEW c \in Callers, ActGet(c) PROVE Confined'
  <2>1. pc[c] \in {"check", "act"} /\ Continue(c, None) /\ UNCHANGED cur
    BY <1>12 DEF ActGet, At, Acting
  <2> QED BY <2>1, ContinueConfined
<1>13. ASSUME NEW c \in Callers, ActSetMetadata(c) PROVE Confined'
  <2>1. pc[c] \in {"check", "act"} /\ Continue(c, None) /\ UNCHANGED cur
    BY <1>13 DEF ActSetMetadata, At, Acting
  <2> QED BY <2>1, ContinueConfined
<1>14. ASSUME NEW c \in Callers, ActSend(c) PROVE Confined'
  <2>1. pc[c] \in {"check", "act"} /\ Continue(c, None) /\ UNCHANGED cur
    BY <1>14 DEF ActSend, At, Acting
  <2> QED BY <2>1, ContinueConfined
<1>15. ASSUME NEW c \in Callers, ActStream(c) PROVE Confined'
  <2>1. pc[c] \in {"check", "act"} /\ Continue(c, None) /\ UNCHANGED cur
    BY <1>15 DEF ActStream, At, Acting
  <2> QED BY <2>1, ContinueConfined
<1>16. ASSUME NEW c \in Callers, ActTemplateFails(c) \/ ActWriteFails(c) PROVE Confined'
  <2>1. pc[c] \in {"check", "act"} /\ Continue(c, None) /\ UNCHANGED cur
    BY <1>16 DEF ActTemplateFails, ActWriteFails, At, Acting
  <2> QED BY <2>1, ContinueConfined
<1>17. ASSUME NEW c \in Callers, NEW h \in Holders,
             ActDetach(c, h)
      PROVE  Confined'
  <2>1. pc[c] \in {"check", "act"} /\ Continue(c, h) /\ UNCHANGED cur
    BY <1>17 DEF ActDetach, At, Acting
  <2>2. call[c].by = "script"
    BY <1>17 DEF ActDetach, Acting, At, IInv, SInv, Roles, Confined, Detaches
  <2> QED BY <2>1, <2>2, ContinueConfined
<1>18. ASSUME NEW c \in Callers, PutBack(c) PROVE Confined'
  BY <1>18, ThreadsAssumption, NoneAssumption DEF PutBack, Put, NoCall, At, TInv, TypeOK,
     IInv, SInv, Frames, Roles, Confined, InRequestCall
<1>19. ASSUME NEW c \in Callers, Register(c) PROVE Confined'
  BY <1>19, ThreadsAssumption, NoneAssumption DEF Register, Put, NoCall, At, TInv, TypeOK,
     IInv, SInv, Frames, Roles, Confined, InRequestCall
<1>20. ASSUME NEW c \in Callers, NullDereference(c) PROVE Confined'
  BY <1>20, ThreadsAssumption, NoneAssumption DEF NullDereference, At, TInv, TypeOK, IInv,
     SInv, Frames, Roles, Confined, InRequestCall
<1>21. ASSUME NEW c \in Callers, HolderSetMetadata(c) PROVE Confined'
  BY <1>21, ThreadsAssumption, NoneAssumption DEF HolderSetMetadata, At, TInv, TypeOK, IInv,
     SInv, Frames, Roles, Confined, InRequestCall
<1>22. ASSUME NEW c \in Callers, HolderPutBack(c) PROVE Confined'
  BY <1>22, ThreadsAssumption, NoneAssumption DEF HolderPutBack, Put, NoCall, At, TInv,
     TypeOK, IInv, SInv, Frames, Roles, Confined, InRequestCall
<1>23. ASSUME NEW c \in Callers, HolderSend(c) PROVE Confined'
  BY <1>23, ThreadsAssumption, NoneAssumption DEF HolderSend, NoCall, At, TInv, TypeOK,
     IInv, SInv, Frames, Roles, Confined, InRequestCall
<1>24. ASSUME NEW c \in Callers, CloseFails(c) PROVE Confined'
  BY <1>24, ThreadsAssumption, NoneAssumption DEF CloseFails, NoCall, At, TInv, TypeOK,
     IInv, SInv, Frames, Roles, Confined, InRequestCall
<1>25. ASSUME NEW r \in Requests, NEW outcome \in {"sent", "aborted"},
             SenderEnds(r, outcome)
      PROVE  Confined'
  BY <1>25, ThreadsAssumption, NoneAssumption DEF SenderEnds, At, TInv, TypeOK, IInv, SInv,
     Frames, Roles, Confined, InRequestCall
<1>26. ASSUME NEW c \in Callers, UseAfterFree(c) PROVE FALSE
  BY <1>26 DEF UseAfterFree, At, Dangling, TInv, TypeOK, IInv, SInv, Frames, Roles,
     Confined, InRequestCall
<1>27. CASE UNCHANGED vars
  BY <1>27 DEF vars, TInv, TypeOK, IInv, SInv, Frames, Roles, Confined, InRequestCall
<1> QED BY <1>1, <1>2, <1>3, <1>4, <1>5, <1>6, <1>7, <1>8, <1>9, <1>10, <1>11,
  <1>12, <1>13, <1>14, <1>15, <1>16, <1>17, <1>18, <1>19, <1>20, <1>21, <1>22,
  <1>23, <1>24, <1>25, <1>26, <1>27 DEF Next, ServerStep, InsideCall, ScriptCalls

(* Handles: the handle leaves the registry for every call and before the   *)
(* frame dies.                                                             *)
LEMMA HandlesStep ==
    ASSUME ~SharedRequests, TInv, TInv', IInv, [Next]_vars
    PROVE  Handles'
<1> USE DEF Callers, registries, threads, requests, history
<1>1. ASSUME NEW t \in Pool, NEW r \in Requests, Arrive(t, r) PROVE Handles'
  BY <1>1, ThreadsAssumption, NoneAssumption DEF Arrive, At, TInv, TypeOK, IInv, SInv,
     Frames, Roles, Confined, InRequestCall, Handles
<1>2. ASSUME NEW t \in Pool, Enter(t) \/ EnterThrows(t) PROVE Handles'
  BY <1>2, ThreadsAssumption, NoneAssumption DEF Enter, EnterThrows, Put, At, TInv, TypeOK, IInv, SInv,
     Frames, Roles, Confined, InRequestCall, Handles
<1>3. ASSUME NEW t \in Pool, ScriptReturns(t) PROVE Handles'
  BY <1>3, ThreadsAssumption, NoneAssumption DEF ScriptReturns, At, TInv, TypeOK, IInv,
     SInv, Frames, Roles, Confined, InRequestCall, Handles
<1>4. ASSUME NEW t \in Pool, ScriptFails(t) PROVE Handles'
  BY <1>4, ThreadsAssumption, NoneAssumption DEF ScriptFails, At, TInv, TypeOK, IInv, SInv,
     Frames, Roles, Confined, InRequestCall, Handles
<1>5. ASSUME NEW t \in Pool, ErrorRemove(t) PROVE Handles'
  BY <1>5, ThreadsAssumption, NoneAssumption DEF ErrorRemove, Remove, Found, At, TInv,
     TypeOK, IInv, SInv, Frames, Roles, Confined, InRequestCall, Handles
<1>6. ASSUME NEW t \in Pool, Leave(t) PROVE Handles'
  BY <1>6, ThreadsAssumption, NoneAssumption DEF Leave, Remove, At, TInv, TypeOK, IInv,
     SInv, Frames, Roles, Confined, InRequestCall, Handles
<1>7. ASSUME NEW t \in Pool, Destroy(t) PROVE Handles'
  BY <1>7, ThreadsAssumption, NoneAssumption DEF Destroy, NoCall, At, TInv, TypeOK, IInv,
     SInv, Frames, Roles, Confined, InRequestCall, Handles
<1>8. ASSUME NEW c \in Callers, NEW t \in Pool, NEW o \in RequestOps,
             BeginCall(c, t, o)
      PROVE  Handles'
  BY <1>8, ThreadsAssumption, NoneAssumption DEF BeginCall, Remove, Found, At, TInv, TypeOK,
     IInv, SInv, Frames, Roles, Confined, InRequestCall, Handles
<1>9. ASSUME NEW c \in Callers, NEW h \in Holders, NEW o \in HolderOps,
             BeginHolderCall(c, h, o)
      PROVE  Handles'
  BY <1>9, ThreadsAssumption, NoneAssumption DEF BeginHolderCall, Remove, Found, At, TInv,
     TypeOK, IInv, SInv, Frames, Roles, Confined, InRequestCall, Handles
<1>10. ASSUME NEW c \in Callers, CheckPasses(c) PROVE Handles'
  BY <1>10, ThreadsAssumption, NoneAssumption DEF CheckPasses, At, TInv, TypeOK, IInv, SInv,
     Frames, Roles, Confined, InRequestCall, Handles
<1>11. ASSUME NEW c \in Callers, CheckRefuses(c) PROVE Handles'
  BY <1>11, ThreadsAssumption, NoneAssumption DEF CheckRefuses, Continue, At, TInv, TypeOK,
     IInv, SInv, Frames, Roles, Confined, InRequestCall, Handles
<1>12. ASSUME NEW c \in Callers, ActGet(c) PROVE Handles'
  BY <1>12, ThreadsAssumption, NoneAssumption DEF ActGet, Acting, Continue, At, TInv,
     TypeOK, IInv, SInv, Frames, Roles, Confined, InRequestCall, Handles
<1>13. ASSUME NEW c \in Callers, ActSetMetadata(c) PROVE Handles'
  BY <1>13, ThreadsAssumption, NoneAssumption DEF ActSetMetadata, Acting, Continue, At,
     TInv, TypeOK, IInv, SInv, Frames, Roles, Confined, InRequestCall, Handles
<1>14. ASSUME NEW c \in Callers, ActSend(c) PROVE Handles'
  BY <1>14, ThreadsAssumption, NoneAssumption DEF ActSend, Acting, Continue, At, TInv,
     TypeOK, IInv, SInv, Frames, Roles, Confined, InRequestCall, Handles
<1>15. ASSUME NEW c \in Callers, ActStream(c) PROVE Handles'
  BY <1>15, ThreadsAssumption, NoneAssumption DEF ActStream, Acting, Continue, At, TInv,
     TypeOK, IInv, SInv, Frames, Roles, Confined, InRequestCall, Handles
<1>16. ASSUME NEW c \in Callers, ActTemplateFails(c) \/ ActWriteFails(c) PROVE Handles'
  BY <1>16, ThreadsAssumption, NoneAssumption DEF ActTemplateFails, ActWriteFails, Acting, Continue, At,
     TInv, TypeOK, IInv, SInv, Frames, Roles, Confined, InRequestCall, Handles
<1>17. ASSUME NEW c \in Callers, NEW h \in Holders,
             ActDetach(c, h)
      PROVE  Handles'
  BY <1>17, ThreadsAssumption, NoneAssumption DEF ActDetach, Acting, Continue, At, TInv,
     TypeOK, IInv, SInv, Frames, Roles, Confined, InRequestCall, Handles
<1>18. ASSUME NEW c \in Callers, PutBack(c) PROVE Handles'
  BY <1>18, ThreadsAssumption, NoneAssumption DEF PutBack, Put, NoCall, At, TInv, TypeOK,
     IInv, SInv, Frames, Roles, Confined, InRequestCall, Handles
<1>19. ASSUME NEW c \in Callers, Register(c) PROVE Handles'
  BY <1>19, ThreadsAssumption, NoneAssumption DEF Register, Put, NoCall, At, TInv, TypeOK,
     IInv, SInv, Frames, Roles, Confined, InRequestCall, Handles
<1>20. ASSUME NEW c \in Callers, NullDereference(c) PROVE Handles'
  BY <1>20, ThreadsAssumption, NoneAssumption DEF NullDereference, At, TInv, TypeOK, IInv,
     SInv, Frames, Roles, Confined, InRequestCall, Handles
<1>21. ASSUME NEW c \in Callers, HolderSetMetadata(c) PROVE Handles'
  BY <1>21, ThreadsAssumption, NoneAssumption DEF HolderSetMetadata, At, TInv, TypeOK, IInv,
     SInv, Frames, Roles, Confined, InRequestCall, Handles
<1>22. ASSUME NEW c \in Callers, HolderPutBack(c) PROVE Handles'
  BY <1>22, ThreadsAssumption, NoneAssumption DEF HolderPutBack, Put, NoCall, At, TInv,
     TypeOK, IInv, SInv, Frames, Roles, Confined, InRequestCall, Handles
<1>23. ASSUME NEW c \in Callers, HolderSend(c) PROVE Handles'
  BY <1>23, ThreadsAssumption, NoneAssumption DEF HolderSend, NoCall, At, TInv, TypeOK,
     IInv, SInv, Frames, Roles, Confined, InRequestCall, Handles
<1>24. ASSUME NEW c \in Callers, CloseFails(c) PROVE Handles'
  BY <1>24, ThreadsAssumption, NoneAssumption DEF CloseFails, NoCall, At, TInv, TypeOK,
     IInv, SInv, Frames, Roles, Confined, InRequestCall, Handles
<1>25. ASSUME NEW r \in Requests, NEW outcome \in {"sent", "aborted"},
             SenderEnds(r, outcome)
      PROVE  Handles'
  BY <1>25, ThreadsAssumption, NoneAssumption DEF SenderEnds, At, TInv, TypeOK, IInv, SInv,
     Frames, Roles, Confined, InRequestCall, Handles
<1>26. ASSUME NEW c \in Callers, UseAfterFree(c) PROVE FALSE
  BY <1>26 DEF UseAfterFree, At, Dangling, TInv, TypeOK, IInv, SInv, Frames, Roles,
     Confined, InRequestCall
<1>27. CASE UNCHANGED vars
  BY <1>27 DEF vars, TInv, TypeOK, IInv, SInv, Frames, Roles, Confined, InRequestCall, Handles
<1> QED BY <1>1, <1>2, <1>3, <1>4, <1>5, <1>6, <1>7, <1>8, <1>9, <1>10, <1>11,
  <1>12, <1>13, <1>14, <1>15, <1>16, <1>17, <1>18, <1>19, <1>20, <1>21, <1>22,
  <1>23, <1>24, <1>25, <1>26, <1>27 DEF Next, ServerStep, InsideCall, ScriptCalls

(* Owners: the compare-and-swap and the move of the native object.         *)
LEMMA OwnersStep ==
    ASSUME ~SharedRequests, TInv, TInv', IInv, [Next]_vars
    PROVE  Owners'
<1> USE DEF Callers, registries, threads, requests, history
<1>1. ASSUME NEW t \in Pool, NEW r \in Requests, Arrive(t, r) PROVE Owners'
  BY <1>1, ThreadsAssumption, NoneAssumption DEF Arrive, At, TInv, TypeOK, IInv, SInv,
     Frames, Roles, Confined, InRequestCall, Claims, Finished, Owners
<1>2. ASSUME NEW t \in Pool, Enter(t) \/ EnterThrows(t) PROVE Owners'
  BY <1>2, ThreadsAssumption, NoneAssumption DEF Enter, EnterThrows, Put, At, TInv, TypeOK, IInv, SInv,
     Frames, Roles, Confined, InRequestCall, Claims, Finished, Owners
<1>3. ASSUME NEW t \in Pool, ScriptReturns(t) PROVE Owners'
  BY <1>3, ThreadsAssumption, NoneAssumption DEF ScriptReturns, At, TInv, TypeOK, IInv,
     SInv, Frames, Roles, Confined, InRequestCall, Claims, Finished, Owners
<1>4. ASSUME NEW t \in Pool, ScriptFails(t) PROVE Owners'
  BY <1>4, ThreadsAssumption, NoneAssumption DEF ScriptFails, At, TInv, TypeOK, IInv, SInv,
     Frames, Roles, Confined, InRequestCall, Claims, Finished, Owners
<1>5. ASSUME NEW t \in Pool, ErrorRemove(t) PROVE Owners'
  BY <1>5, ThreadsAssumption, NoneAssumption DEF ErrorRemove, Remove, Found, At, TInv,
     TypeOK, IInv, SInv, Frames, Roles, Confined, InRequestCall, Claims, Finished, Owners
<1>6. ASSUME NEW t \in Pool, Leave(t) PROVE Owners'
  BY <1>6, ThreadsAssumption, NoneAssumption DEF Leave, Remove, At, TInv, TypeOK, IInv,
     SInv, Frames, Roles, Confined, InRequestCall, Claims, Finished, Owners
<1>7. ASSUME NEW t \in Pool, Destroy(t) PROVE Owners'
  BY <1>7, ThreadsAssumption, NoneAssumption DEF Destroy, NoCall, At, TInv, TypeOK, IInv,
     SInv, Frames, Roles, Confined, InRequestCall, Claims, Finished, Owners
<1>8. ASSUME NEW c \in Callers, NEW t \in Pool, NEW o \in RequestOps,
             BeginCall(c, t, o)
      PROVE  Owners'
  BY <1>8, ThreadsAssumption, NoneAssumption DEF BeginCall, Remove, Found, At, TInv, TypeOK,
     IInv, SInv, Frames, Roles, Confined, InRequestCall, Claims, Finished, Owners
<1>9. ASSUME NEW c \in Callers, NEW h \in Holders, NEW o \in HolderOps,
             BeginHolderCall(c, h, o)
      PROVE  Owners'
  BY <1>9, ThreadsAssumption, NoneAssumption DEF BeginHolderCall, Remove, Found, At, TInv,
     TypeOK, IInv, SInv, Frames, Roles, Confined, InRequestCall, Claims, Finished, Owners
<1>10. ASSUME NEW c \in Callers, CheckPasses(c) PROVE Owners'
  <2> DEFINE r == cur[c]
             o == call[c].op
  <2>1. /\ c \in Pool /\ r \in Requests /\ native[r] \notin {"pion", "dropped"}
        /\ \A t \in Pool \ {c} : cur[t] # r
    <3>1. c \in Pool /\ r \in Requests
      BY <1>10 DEF CheckPasses, At, IInv, Confined, InRequestCall, TInv, Pointers
    <3> QED BY <3>1, NoneAssumption DEF IInv, SInv, Frames
  <2>2. /\ Admits(o, r) /\ state' = [state EXCEPT ![r] = StateAfter(o, @)]
        /\ pc' = [pc EXCEPT ![c] = "act"]
        /\ UNCHANGED <<cur, call, native, untold, unsent>>
    BY <1>10 DEF CheckPasses, At, IInv, Confined, InRequestCall
  <2>3. state[r] = "created" => native[r] = "impl" /\ r \notin untold \cup unsent
    BY <2>1 DEF IInv, SInv, Claims, Unmoved, Owners
  <2>4. o \in Committing \cup {"set_response_metadata"} => state[r] = "created"
    BY <2>2 DEF Admits
  <2>5. /\ \A q \in Requests : q # r => state'[q] = state[q]
        /\ state'[r] = IF o \in Committing THEN "committed" ELSE state[r]
        /\ \A d \in Callers : d # c => pc'[d] = pc[d]
        /\ pc'[c] = "act"
    BY <2>1, <2>2 DEF StateAfter, TInv, TypeOK
  <2>6. "set_response_metadata" \notin Committing
    BY DEF Committing, Sends, Streams, Detaches
  <2>7. \A d \in Callers : pc[d] = "act" => d \in Pool /\ cur[d] \in Requests
    BY DEF IInv, Confined, InRequestCall, TInv, Pointers
  <2> HIDE DEF r, o
  <2>8. ASSUME NEW d \in Callers, pc'[d] = "act"
        PROVE  /\ call'[d].op \in Committing =>
                     /\ state'[cur'[d]] = "committed" /\ native'[cur'[d]] = "impl"
                     /\ cur'[d] \notin untold' \cup unsent'
               /\ call'[d].op = "set_response_metadata" => state'[cur'[d]] = "created"
    <3>1. CASE d = c
      BY <2>2, <2>3, <2>4, <2>5, <2>6, <3>1 DEF r, o
    <3>2. CASE d # c
      <4>1. pc[d] = "act" /\ cur[d] # r /\ cur[d] \in Requests
        BY <2>1, <2>5, <2>7, <2>8, <3>2
      <4> QED BY <2>2, <2>5, <4>1 DEF IInv, Owners
    <3> QED BY <3>1, <3>2
  <2>9. \A q \in untold' \cup unsent' : state'[q] = "committed" /\ native'[q] # "pion"
    <3>1. \A q \in untold \cup unsent : q \in Requests
      BY DEF TInv, TypeOK
    <3> QED BY <2>2, <2>3, <2>5, <3>1 DEF IInv, Owners
  <2>10. ASSUME NEW q \in Requests, native'[q] = "impl", state'[q] = "committed",
                Kind[q] # "wsclose", q \notin untold' \cup unsent'
         PROVE  \E t \in Pool : cur'[t] = q /\ pc'[t] = "act" /\ call'[t].op \in Committing
    <3>1. CASE q = r /\ o \in Committing
      BY <2>1, <2>2, <2>5, <3>1 DEF r, o
    <3>2. CASE ~(q = r /\ o \in Committing)
      <4>1. state[q] = "committed"
        BY <2>5, <2>10, <3>2
      <4>2. PICK t \in Pool : cur[t] = q /\ pc[t] = "act" /\ call[t].op \in Committing
        BY <2>2, <2>10, <4>1 DEF IInv, Owners
      <4>3. pc'[t] = "act"
        BY <2>5, <4>2
      <4> QED BY <2>2, <4>2, <4>3
    <3> QED BY <3>1, <3>2
  <2> QED BY <2>8, <2>9, <2>10 DEF Owners
<1>11. ASSUME NEW c \in Callers, CheckRefuses(c) PROVE Owners'
  <2>1. /\ pc[c] = "check" /\ Continue(c, None) /\ UNCHANGED <<cur, requests, untold, unsent>>
        /\ c \in Pool /\ cur[c] \in Requests /\ call[c].req = cur[c]
    BY <1>11 DEF CheckRefuses, At, TInv, TypeOK, Pointers, IInv, SInv, Roles, Confined,
       InRequestCall
  <2>2. /\ pc'[c] \in {"check", "destroy", "putback"}
        /\ \A d \in Callers \ {c} : pc'[d] = pc[d] /\ call'[d] = call[d]
    BY <2>1, ContinueOthers
  <2>3. pc'[c] = "destroy" => state[cur[c]] = "committed"
    <3>1. SUFFICES ASSUME pc'[c] = "destroy" PROVE state[cur[c]] = "committed"
      OBVIOUS
    <3>2. call[c].by = "server"
      BY <2>1, <3>1, ContinueOthers
    <3>3. call[c].op = "finish" /\ ~Admits("finish", cur[c])
      BY <1>11, <2>1, <3>2 DEF CheckRefuses, IInv, SInv, Roles, Confined
    <3> QED BY <2>1, <3>3 DEF Admits, HttpOnly, Committing, Sends, TInv, TypeOK
  <2> QED BY <2>1, <2>2, <2>3, ThreadsAssumption DEF IInv, SInv, Claims, Finished, Owners,
             TInv, TypeOK
<1>12. ASSUME NEW c \in Callers, ActGet(c) PROVE Owners'
  BY <1>12, ThreadsAssumption, NoneAssumption DEF ActGet, Acting, Continue, At, TInv,
     TypeOK, IInv, SInv, Frames, Roles, Confined, InRequestCall, Claims, Finished, Owners,
     RequestOps, Getters, Committing, Sends, Streams, Detaches, Writers, Dangling,
     StateAfter, Admits, NeedsNative
<1>13. ASSUME NEW c \in Callers, ActSetMetadata(c) PROVE Owners'
  <2>1. /\ pc[c] = "act" /\ Continue(c, None) /\ UNCHANGED <<cur, state, native, untold, unsent>>
        /\ call[c].op = "set_response_metadata"
    BY <1>13 DEF ActSetMetadata, Acting, At
  <2>2. /\ pc'[c] \in {"check", "destroy", "putback"}
        /\ \A d \in Callers \ {c} : pc'[d] = pc[d] /\ call'[d] = call[d]
    BY <2>1, ContinueOthers
  <2>3. \A d \in Callers : pc'[d] = "act" => d # c /\ pc[d] = "act" /\ call'[d] = call[d]
    BY <2>2
  <2>4. call[c].op \notin Committing
    BY <2>1 DEF Committing, Sends, Streams, Detaches
  <2> QED BY <2>1, <2>2, <2>3, <2>4 DEF IInv, SInv, Owners
<1>14. ASSUME NEW c \in Callers, ActSend(c) PROVE Owners'
  BY <1>14, ThreadsAssumption, NoneAssumption DEF ActSend, Acting, Continue, At, TInv,
     TypeOK, IInv, SInv, Frames, Roles, Confined, InRequestCall, Claims, Finished, Owners,
     RequestOps, Getters, Committing, Sends, Streams, Detaches, Writers, Dangling,
     StateAfter, Admits, NeedsNative
<1>15. ASSUME NEW c \in Callers, ActStream(c) PROVE Owners'
  BY <1>15, ThreadsAssumption, NoneAssumption DEF ActStream, Acting, Continue, At, TInv,
     TypeOK, IInv, SInv, Frames, Roles, Confined, InRequestCall, Claims, Finished, Owners,
     RequestOps, Getters, Committing, Sends, Streams, Detaches, Writers, Dangling,
     StateAfter, Admits, NeedsNative
<1>16. ASSUME NEW c \in Callers, ActTemplateFails(c) \/ ActWriteFails(c) PROVE Owners'
  <2>1. pc[c] = "act" /\ Continue(c, None) /\ UNCHANGED <<cur, state, native>>
    BY <1>16 DEF ActTemplateFails, ActWriteFails, Acting, At
  <2>2. /\ c \in Pool /\ call[c].req = cur[c] /\ cur[c] \in Requests
        /\ call[c].op \in Committing
    BY <1>16, <2>1 DEF ActTemplateFails, ActWriteFails, Acting, Committing, Sends, Streams,
       IInv, Confined, InRequestCall, TInv, Pointers
  <2>3. untold' \cup unsent' = untold \cup unsent \cup {cur[c]}
    BY <1>16, <2>2 DEF ActTemplateFails, ActWriteFails
  <2>4. state[cur[c]] = "committed" /\ native[cur[c]] = "impl"
    BY <2>1, <2>2 DEF IInv, Owners
  <2>5. /\ \A d \in Callers \ {c} : pc'[d] = pc[d] /\ call'[d] = call[d]
        /\ pc'[c] # "act"
    BY <2>1, ContinueOthers
  <2>6. \A d \in Callers \ {c} : pc[d] = "act" => d \in Pool /\ cur[d] # cur[c]
    BY <2>2, NoneAssumption DEF IInv, SInv, Frames, Confined, InRequestCall
  <2>7. \A d \in Callers : pc'[d] = "act" => d # c /\ pc[d] = "act" /\ call'[d] = call[d]
    BY <2>5
  <2>8. \A q \in Requests : q \notin untold' \cup unsent' => q # cur[c] /\ q \notin untold \cup unsent
    BY <2>3
  <2> QED BY <2>1, <2>3, <2>4, <2>5, <2>6, <2>7, <2>8 DEF IInv, Owners
<1>17. ASSUME NEW c \in Callers, NEW h \in Holders,
             ActDetach(c, h)
      PROVE  Owners'
  BY <1>17, ThreadsAssumption, NoneAssumption DEF ActDetach, Acting, Continue, At, TInv,
     TypeOK, IInv, SInv, Frames, Roles, Confined, InRequestCall, Claims, Finished, Owners,
     RequestOps, Getters, Committing, Sends, Streams, Detaches, Writers, Dangling,
     StateAfter, Admits, NeedsNative
<1>18. ASSUME NEW c \in Callers, PutBack(c) PROVE Owners'
  BY <1>18, ThreadsAssumption, NoneAssumption DEF PutBack, Put, NoCall, At, TInv, TypeOK,
     IInv, SInv, Frames, Roles, Confined, InRequestCall, Claims, Finished, Owners
<1>19. ASSUME NEW c \in Callers, Register(c) PROVE Owners'
  BY <1>19, ThreadsAssumption, NoneAssumption DEF Register, Put, NoCall, At, TInv, TypeOK,
     IInv, SInv, Frames, Roles, Confined, InRequestCall, Claims, Finished, Owners
<1>20. ASSUME NEW c \in Callers, NullDereference(c) PROVE Owners'
  BY <1>20, ThreadsAssumption, NoneAssumption DEF NullDereference, At, TInv, TypeOK, IInv,
     SInv, Frames, Roles, Confined, InRequestCall, Claims, Finished, Owners
<1>21. ASSUME NEW c \in Callers, HolderSetMetadata(c) PROVE Owners'
  BY <1>21, ThreadsAssumption, NoneAssumption DEF HolderSetMetadata, At, TInv, TypeOK, IInv,
     SInv, Frames, Roles, Confined, InRequestCall, Claims, Finished, Owners
<1>22. ASSUME NEW c \in Callers, HolderPutBack(c) PROVE Owners'
  BY <1>22, ThreadsAssumption, NoneAssumption DEF HolderPutBack, Put, NoCall, At, TInv,
     TypeOK, IInv, SInv, Frames, Roles, Confined, InRequestCall, Claims, Finished, Owners
<1>23. ASSUME NEW c \in Callers, HolderSend(c) PROVE Owners'
  BY <1>23, ThreadsAssumption, NoneAssumption DEF HolderSend, NoCall, At, TInv, TypeOK,
     IInv, SInv, Frames, Roles, Confined, InRequestCall, Claims, Finished, Owners,
     RequestOps, Getters, Committing, Sends, Streams, Detaches, Writers, Dangling,
     StateAfter, Admits, NeedsNative
<1>24. ASSUME NEW c \in Callers, CloseFails(c) PROVE Owners'
  BY <1>24, ThreadsAssumption, NoneAssumption DEF CloseFails, NoCall, At, TInv, TypeOK,
     IInv, SInv, Frames, Roles, Confined, InRequestCall, Claims, Finished, Owners
<1>25. ASSUME NEW r \in Requests, NEW outcome \in {"sent", "aborted"},
             SenderEnds(r, outcome)
      PROVE  Owners'
  BY <1>25, ThreadsAssumption, NoneAssumption DEF SenderEnds, At, TInv, TypeOK, IInv, SInv,
     Frames, Roles, Confined, InRequestCall, Claims, Finished, Owners
<1>26. ASSUME NEW c \in Callers, UseAfterFree(c) PROVE FALSE
  BY <1>26 DEF UseAfterFree, At, Dangling, TInv, TypeOK, IInv, SInv, Frames, Roles,
     Confined, InRequestCall
<1>27. CASE UNCHANGED vars
  BY <1>27 DEF vars, TInv, TypeOK, IInv, SInv, Frames, Roles, Confined, InRequestCall,
     Claims, Finished, Owners
<1> QED BY <1>1, <1>2, <1>3, <1>4, <1>5, <1>6, <1>7, <1>8, <1>9, <1>10, <1>11,
  <1>12, <1>13, <1>14, <1>15, <1>16, <1>17, <1>18, <1>19, <1>20, <1>21, <1>22,
  <1>23, <1>24, <1>25, <1>26, <1>27 DEF Next, ServerStep, InsideCall, ScriptCalls

(* A native object dies with its request only after an exception.          *)
LEMMA UnansweredStep ==
    ASSUME ~SharedRequests, TInv, TInv', IInv, [Next]_vars
    PROVE  UnansweredOnlyByThrow'
<1> USE DEF Callers, registries, threads, requests, history
<1>1. ASSUME NEW t \in Pool, NEW r \in Requests,
             Arrive(t, r)
      PROVE  UnansweredOnlyByThrow'
  BY <1>1, ThreadsAssumption, NoneAssumption DEF Arrive, At, TInv, TypeOK, IInv, SInv,
     Frames, Roles, Confined, InRequestCall, Claims, Finished, Owners,
     UnansweredOnlyByThrow
<1>2. ASSUME NEW t \in Pool, Enter(t) \/ EnterThrows(t) PROVE UnansweredOnlyByThrow'
  BY <1>2, ThreadsAssumption, NoneAssumption DEF Enter, EnterThrows, Put, At, TInv, TypeOK, IInv, SInv,
     Frames, Roles, Confined, InRequestCall, Claims, Finished, Owners,
     UnansweredOnlyByThrow
<1>3. ASSUME NEW t \in Pool, ScriptReturns(t) PROVE UnansweredOnlyByThrow'
  BY <1>3, ThreadsAssumption, NoneAssumption DEF ScriptReturns, At, TInv, TypeOK, IInv,
     SInv, Frames, Roles, Confined, InRequestCall, Claims, Finished, Owners,
     UnansweredOnlyByThrow
<1>4. ASSUME NEW t \in Pool, ScriptFails(t) PROVE UnansweredOnlyByThrow'
  BY <1>4, ThreadsAssumption, NoneAssumption DEF ScriptFails, At, TInv, TypeOK, IInv, SInv,
     Frames, Roles, Confined, InRequestCall, Claims, Finished, Owners,
     UnansweredOnlyByThrow
<1>5. ASSUME NEW t \in Pool, ErrorRemove(t) PROVE UnansweredOnlyByThrow'
  BY <1>5, ThreadsAssumption, NoneAssumption DEF ErrorRemove, Remove, Found, At, TInv,
     TypeOK, IInv, SInv, Frames, Roles, Confined, InRequestCall, Claims, Finished, Owners,
     UnansweredOnlyByThrow
<1>6. ASSUME NEW t \in Pool, Leave(t) PROVE UnansweredOnlyByThrow'
  BY <1>6, ThreadsAssumption, NoneAssumption DEF Leave, Remove, At, TInv, TypeOK, IInv,
     SInv, Frames, Roles, Confined, InRequestCall, Claims, Finished, Owners,
     UnansweredOnlyByThrow
<1>7. ASSUME NEW t \in Pool, Destroy(t) PROVE UnansweredOnlyByThrow'
  BY <1>7, ThreadsAssumption, NoneAssumption DEF Destroy, NoCall, At, TInv, TypeOK, IInv,
     SInv, Frames, Roles, Confined, InRequestCall, Claims, Finished, Owners,
     UnansweredOnlyByThrow
<1>8. ASSUME NEW c \in Callers, NEW t \in Pool, NEW o \in RequestOps,
             BeginCall(c, t, o)
      PROVE  UnansweredOnlyByThrow'
  BY <1>8, ThreadsAssumption, NoneAssumption DEF BeginCall, Remove, Found, At, TInv, TypeOK,
     IInv, SInv, Frames, Roles, Confined, InRequestCall, Claims, Finished, Owners,
     UnansweredOnlyByThrow
<1>9. ASSUME NEW c \in Callers, NEW h \in Holders, NEW o \in HolderOps,
             BeginHolderCall(c, h, o)
      PROVE  UnansweredOnlyByThrow'
  BY <1>9, ThreadsAssumption, NoneAssumption DEF BeginHolderCall, Remove, Found, At, TInv,
     TypeOK, IInv, SInv, Frames, Roles, Confined, InRequestCall, Claims, Finished, Owners,
     UnansweredOnlyByThrow
<1>10. ASSUME NEW c \in Callers, CheckPasses(c) PROVE UnansweredOnlyByThrow'
  BY <1>10, ThreadsAssumption, NoneAssumption DEF CheckPasses, At, TInv, TypeOK, IInv, SInv,
     Frames, Roles, Confined, InRequestCall, Claims, Finished, Owners,
     UnansweredOnlyByThrow
<1>11. ASSUME NEW c \in Callers,
             CheckRefuses(c)
      PROVE  UnansweredOnlyByThrow'
  BY <1>11, ThreadsAssumption, NoneAssumption DEF CheckRefuses, Continue, At, TInv, TypeOK,
     IInv, SInv, Frames, Roles, Confined, InRequestCall, Claims, Finished, Owners,
     UnansweredOnlyByThrow
<1>12. ASSUME NEW c \in Callers, ActGet(c) PROVE UnansweredOnlyByThrow'
  BY <1>12, ThreadsAssumption, NoneAssumption DEF ActGet, Acting, Continue, At, TInv,
     TypeOK, IInv, SInv, Frames, Roles, Confined, InRequestCall, Claims, Finished, Owners,
     UnansweredOnlyByThrow
<1>13. ASSUME NEW c \in Callers,
             ActSetMetadata(c)
      PROVE  UnansweredOnlyByThrow'
  BY <1>13, ThreadsAssumption, NoneAssumption DEF ActSetMetadata, Acting, Continue, At,
     TInv, TypeOK, IInv, SInv, Frames, Roles, Confined, InRequestCall, Claims, Finished,
     Owners, UnansweredOnlyByThrow
<1>14. ASSUME NEW c \in Callers, ActSend(c) PROVE UnansweredOnlyByThrow'
  BY <1>14, ThreadsAssumption, NoneAssumption DEF ActSend, Acting, Continue, At, TInv,
     TypeOK, IInv, SInv, Frames, Roles, Confined, InRequestCall, Claims, Finished, Owners,
     UnansweredOnlyByThrow
<1>15. ASSUME NEW c \in Callers, ActStream(c) PROVE UnansweredOnlyByThrow'
  BY <1>15, ThreadsAssumption, NoneAssumption DEF ActStream, Acting, Continue, At, TInv,
     TypeOK, IInv, SInv, Frames, Roles, Confined, InRequestCall, Claims, Finished, Owners,
     UnansweredOnlyByThrow
<1>16. ASSUME NEW c \in Callers,
             ActTemplateFails(c) \/ ActWriteFails(c)
      PROVE  UnansweredOnlyByThrow'
  BY <1>16, ThreadsAssumption, NoneAssumption DEF ActTemplateFails, ActWriteFails, Acting, Continue, At,
     TInv, TypeOK, IInv, SInv, Frames, Roles, Confined, InRequestCall, Claims, Finished,
     Owners, UnansweredOnlyByThrow
<1>17. ASSUME NEW c \in Callers, NEW h \in Holders,
             ActDetach(c, h)
      PROVE  UnansweredOnlyByThrow'
  BY <1>17, ThreadsAssumption, NoneAssumption DEF ActDetach, Acting, Continue, At, TInv,
     TypeOK, IInv, SInv, Frames, Roles, Confined, InRequestCall, Claims, Finished, Owners,
     UnansweredOnlyByThrow
<1>18. ASSUME NEW c \in Callers, PutBack(c) PROVE UnansweredOnlyByThrow'
  BY <1>18, ThreadsAssumption, NoneAssumption DEF PutBack, Put, NoCall, At, TInv, TypeOK,
     IInv, SInv, Frames, Roles, Confined, InRequestCall, Claims, Finished, Owners,
     UnansweredOnlyByThrow
<1>19. ASSUME NEW c \in Callers, Register(c) PROVE UnansweredOnlyByThrow'
  BY <1>19, ThreadsAssumption, NoneAssumption DEF Register, Put, NoCall, At, TInv, TypeOK,
     IInv, SInv, Frames, Roles, Confined, InRequestCall, Claims, Finished, Owners,
     UnansweredOnlyByThrow
<1>20. ASSUME NEW c \in Callers,
             NullDereference(c)
      PROVE  UnansweredOnlyByThrow'
  BY <1>20, ThreadsAssumption, NoneAssumption DEF NullDereference, At, TInv, TypeOK, IInv,
     SInv, Frames, Roles, Confined, InRequestCall, Claims, Finished, Owners,
     UnansweredOnlyByThrow
<1>21. ASSUME NEW c \in Callers,
             HolderSetMetadata(c)
      PROVE  UnansweredOnlyByThrow'
  BY <1>21, ThreadsAssumption, NoneAssumption DEF HolderSetMetadata, At, TInv, TypeOK, IInv,
     SInv, Frames, Roles, Confined, InRequestCall, Claims, Finished, Owners,
     UnansweredOnlyByThrow
<1>22. ASSUME NEW c \in Callers,
             HolderPutBack(c)
      PROVE  UnansweredOnlyByThrow'
  BY <1>22, ThreadsAssumption, NoneAssumption DEF HolderPutBack, Put, NoCall, At, TInv,
     TypeOK, IInv, SInv, Frames, Roles, Confined, InRequestCall, Claims, Finished, Owners,
     UnansweredOnlyByThrow
<1>23. ASSUME NEW c \in Callers, HolderSend(c) PROVE UnansweredOnlyByThrow'
  BY <1>23, ThreadsAssumption, NoneAssumption DEF HolderSend, NoCall, At, TInv, TypeOK,
     IInv, SInv, Frames, Roles, Confined, InRequestCall, Claims, Finished, Owners,
     UnansweredOnlyByThrow
<1>24. ASSUME NEW c \in Callers, CloseFails(c) PROVE UnansweredOnlyByThrow'
  BY <1>24, ThreadsAssumption, NoneAssumption DEF CloseFails, NoCall, At, TInv, TypeOK,
     IInv, SInv, Frames, Roles, Confined, InRequestCall, Claims, Finished, Owners,
     UnansweredOnlyByThrow
<1>25. ASSUME NEW r \in Requests, NEW outcome \in {"sent", "aborted"},
             SenderEnds(r, outcome)
      PROVE  UnansweredOnlyByThrow'
  BY <1>25, ThreadsAssumption, NoneAssumption DEF SenderEnds, At, TInv, TypeOK, IInv, SInv,
     Frames, Roles, Confined, InRequestCall, Claims, Finished, Owners,
     UnansweredOnlyByThrow
<1>26. ASSUME NEW c \in Callers, UseAfterFree(c) PROVE FALSE
  BY <1>26 DEF UseAfterFree, At, Dangling, TInv, TypeOK, IInv, SInv, Frames, Roles,
     Confined, InRequestCall
<1>27. CASE UNCHANGED vars
  BY <1>27 DEF vars, TInv, TypeOK, IInv, SInv, Frames, Roles, Confined, InRequestCall,
     Claims, Finished, Owners, UnansweredOnlyByThrow
<1> QED BY <1>1, <1>2, <1>3, <1>4, <1>5, <1>6, <1>7, <1>8, <1>9, <1>10, <1>11,
  <1>12, <1>13, <1>14, <1>15, <1>16, <1>17, <1>18, <1>19, <1>20, <1>21, <1>22,
  <1>23, <1>24, <1>25, <1>26, <1>27 DEF Next, ServerStep, InsideCall, ScriptCalls

(* Reports: the error answer for a failed script goes forward step by      *)
(* step.                                                                   *)
LEMMA ReportsStep ==
    ASSUME ~SharedRequests, TInv, TInv', IInv, [Next]_vars
    PROVE  Reports'
<1> USE DEF Callers, registries, threads, requests, history
<1>1. ASSUME NEW t \in Pool, NEW r \in Requests, Arrive(t, r) PROVE Reports'
  BY <1>1, ThreadsAssumption, NoneAssumption DEF Arrive, At, TInv, TypeOK, IInv, SInv,
     Frames, Roles, Confined, InRequestCall, Claims, Finished, Owners, Reports, Reported,
     Reporting
<1>2. ASSUME NEW t \in Pool, Enter(t) \/ EnterThrows(t) PROVE Reports'
  BY <1>2, ThreadsAssumption, NoneAssumption DEF Enter, EnterThrows, Put, At, TInv, TypeOK, IInv, SInv,
     Frames, Roles, Confined, InRequestCall, Claims, Finished, Owners, Reports, Reported,
     Reporting
<1>3. ASSUME NEW t \in Pool, ScriptReturns(t) PROVE Reports'
  BY <1>3, ThreadsAssumption, NoneAssumption DEF ScriptReturns, At, TInv, TypeOK, IInv,
     SInv, Frames, Roles, Confined, InRequestCall, Claims, Finished, Owners, Reports,
     Reported, Reporting
<1>4. ASSUME NEW t \in Pool, ScriptFails(t) PROVE Reports'
  BY <1>4, ThreadsAssumption, NoneAssumption DEF ScriptFails, At, TInv, TypeOK, IInv, SInv,
     Frames, Roles, Confined, InRequestCall, Claims, Finished, Owners, Reports, Reported,
     Reporting
<1>5. ASSUME NEW t \in Pool, ErrorRemove(t) PROVE Reports'
  BY <1>5, ThreadsAssumption, NoneAssumption DEF ErrorRemove, Remove, Found, At, TInv,
     TypeOK, IInv, SInv, Frames, Roles, Confined, InRequestCall, Claims, Finished, Owners,
     Reports, Reported, Reporting, RequestOps, Getters, Committing, Sends, Streams,
     Detaches, Writers, StateAfter, Admits, Handles, Dangling, NeedsNative
<1>6. ASSUME NEW t \in Pool, Leave(t) PROVE Reports'
  BY <1>6, ThreadsAssumption, NoneAssumption DEF Leave, Remove, At, TInv, TypeOK, IInv,
     SInv, Frames, Roles, Confined, InRequestCall, Claims, Finished, Owners, Reports,
     Reported, Reporting
<1>7. ASSUME NEW t \in Pool, Destroy(t) PROVE Reports'
  BY <1>7, ThreadsAssumption, NoneAssumption DEF Destroy, NoCall, At, TInv, TypeOK, IInv,
     SInv, Frames, Roles, Confined, InRequestCall, Claims, Finished, Owners, Reports,
     Reported, Reporting
<1>8. ASSUME NEW c \in Callers, NEW t \in Pool, NEW o \in RequestOps,
             BeginCall(c, t, o)
      PROVE  Reports'
  BY <1>8, ThreadsAssumption, NoneAssumption DEF BeginCall, Remove, Found, At, TInv, TypeOK,
     IInv, SInv, Frames, Roles, Confined, InRequestCall, Claims, Finished, Owners, Reports,
     Reported, Reporting
<1>9. ASSUME NEW c \in Callers, NEW h \in Holders, NEW o \in HolderOps,
             BeginHolderCall(c, h, o)
      PROVE  Reports'
  BY <1>9, ThreadsAssumption, NoneAssumption DEF BeginHolderCall, Remove, Found, At, TInv,
     TypeOK, IInv, SInv, Frames, Roles, Confined, InRequestCall, Claims, Finished, Owners,
     Reports, Reported, Reporting
<1>10. ASSUME NEW c \in Callers, CheckPasses(c) PROVE Reports'
  BY <1>10, ThreadsAssumption, NoneAssumption DEF CheckPasses, At, TInv, TypeOK, IInv, SInv,
     Frames, Roles, Confined, InRequestCall, Claims, Finished, Owners, Reports, Reported,
     Reporting, RequestOps, Getters, Committing, Sends, Streams, Detaches, Writers,
     StateAfter, Admits, Handles, Dangling, NeedsNative
<1>11. ASSUME NEW c \in Callers, CheckRefuses(c) PROVE Reports'
  <2>0. /\ pc[c] = "check" /\ Continue(c, None)
        /\ UNCHANGED <<cur, requests, failed, unsent>>
        /\ c \in Pool /\ cur[c] \in Requests /\ call[c].req = cur[c]
        /\ call[c] \in Calls
        /\ call[c].by = "error" => ~Admits(call[c].op, cur[c])
    BY <1>11 DEF CheckRefuses, At, TInv, TypeOK, Pointers, IInv, SInv, Roles, Confined,
       InRequestCall
  <2>1. \A d \in Callers \ {c} : pc'[d] = pc[d] /\ call'[d] = call[d]
    BY <2>0, ContinueOthers
  <2>2. SUFFICES ASSUME NEW r \in failed
                 PROVE  Reported(r)' \/ \E t \in Pool : cur'[t] = r /\ Reporting(t)'
    BY <2>0 DEF Reports
  <2>3. CASE Reported(r)
    BY <2>0, <2>3 DEF Reported
  <2>4. CASE \E t \in Pool \ {c} : cur[t] = r /\ Reporting(t)
    <3>1. PICK t \in Pool \ {c} : cur[t] = r /\ Reporting(t)
      BY <2>4
    <3> QED BY <2>0, <2>1, <3>1 DEF Reporting
  <2>5. CASE cur[c] = r /\ Reporting(c)
    <3>1. /\ call[c].by = "error" /\ state[cur[c]] = "created"
          /\ call[c].op \in {"set_response_metadata", "send_response"}
      BY <2>0, <2>5 DEF Reporting
    <3>2. call[c].op = "set_response_metadata" /\ Kind[cur[c]] # "http"
      BY <2>0, <3>1 DEF Admits, HttpOnly
    <3>3. /\ pc' = [pc EXCEPT ![c] = "check"]
          /\ call' = [call EXCEPT ![c].op = "send_response"]
      BY <2>0, <3>1, <3>2 DEF Continue
    <3> QED BY <2>0, <2>5, <3>1, <3>2, <3>3 DEF Reporting, TInv, TypeOK, Calls
  <2> QED BY <2>2, <2>3, <2>4, <2>5 DEF IInv, SInv, Reports
<1>12. ASSUME NEW c \in Callers, ActGet(c) PROVE Reports'
  BY <1>12, ThreadsAssumption, NoneAssumption DEF ActGet, Acting, Continue, At, TInv,
     TypeOK, IInv, SInv, Frames, Roles, Confined, InRequestCall, Claims, Finished, Owners,
     Reports, Reported, Reporting, RequestOps, Getters, Committing, Sends, Streams,
     Detaches, Writers, StateAfter, Admits, Handles, Dangling, NeedsNative
<1>13. ASSUME NEW c \in Callers, ActSetMetadata(c) PROVE Reports'
  <2>0. /\ pc[c] = "act" /\ Continue(c, None) /\ call[c].op = "set_response_metadata"
        /\ c \in Pool /\ cur[c] \in Requests /\ call[c].req = cur[c]
        /\ call[c] \in Calls /\ state[cur[c]] = "created"
        /\ UNCHANGED <<cur, state, native, failed, unsent>>
        /\ status' = [status EXCEPT ![cur[c]] =
                          IF call[c].by = "error" THEN "500" ELSE "script"]
    <3>1. /\ pc[c] = "act" /\ Continue(c, None) /\ call[c].op = "set_response_metadata"
          /\ UNCHANGED <<cur, state, native, failed, unsent>>
          /\ status' = [status EXCEPT ![call[c].req] =
                            IF call[c].by = "error" THEN "500" ELSE "script"]
      BY <1>13 DEF ActSetMetadata, Acting, At
    <3>2. c \in Pool /\ call[c].req = cur[c] /\ state[cur[c]] = "created"
      BY <3>1 DEF IInv, Confined, InRequestCall, Owners
    <3>3. cur[c] \in Requests /\ call[c] \in Calls
      BY <3>1, <3>2 DEF TInv, TypeOK, Pointers
    <3> QED BY <3>1, <3>2, <3>3
  <2>1. \A d \in Callers \ {c} : pc'[d] = pc[d] /\ call'[d] = call[d]
    BY <2>0, ContinueOthers
  <2>2. call[c].by = "error" => /\ pc' = [pc EXCEPT ![c] = "check"]
                                /\ call' = [call EXCEPT ![c].op = "send_response"]
    BY <2>0 DEF Continue
  <2>3. \A t \in Pool \ {c} : cur[t] # cur[c]
    BY <2>0, NoneAssumption DEF IInv, SInv, Frames
  <2>4. SUFFICES ASSUME NEW r \in failed
                 PROVE  Reported(r)' \/ \E t \in Pool : cur'[t] = r /\ Reporting(t)'
    BY <2>0 DEF Reports
  <2>5. CASE Reported(r)
    <3>1. native[cur[c]] \in {"pion", "impl", "dropped"} /\ cur[c] \notin unsent
      BY <2>0 DEF IInv, SInv, Claims, Unmoved, Owners
    <3>2. r # cur[c]
      BY <2>5, <3>1 DEF Reported
    <3> QED BY <2>0, <2>5, <3>2 DEF Reported, TInv, TypeOK
  <2>6. CASE \E t \in Pool \ {c} : cur[t] = r /\ Reporting(t)
    <3>1. PICK t \in Pool \ {c} : cur[t] = r /\ Reporting(t)
      BY <2>6
    <3> QED BY <2>0, <2>1, <2>3, <3>1 DEF Reporting, TInv, TypeOK
  <2>7. CASE cur[c] = r /\ Reporting(c)
    <3>1. call[c].by = "error"
      BY <2>0, <2>7 DEF Reporting
    <3> QED BY <2>0, <2>2, <2>7, <3>1 DEF Reporting, TInv, TypeOK, Calls
  <2> QED BY <2>4, <2>5, <2>6, <2>7 DEF IInv, SInv, Reports
<1>14. ASSUME NEW c \in Callers, ActSend(c) PROVE Reports'
  BY <1>14, ThreadsAssumption, NoneAssumption DEF ActSend, Acting, Continue, At, TInv,
     TypeOK, IInv, SInv, Frames, Roles, Confined, InRequestCall, Claims, Finished, Owners,
     Reports, Reported, Reporting, RequestOps, Getters, Committing, Sends, Streams,
     Detaches, Writers, StateAfter, Admits, Handles, Dangling, NeedsNative
<1>15. ASSUME NEW c \in Callers, ActStream(c) PROVE Reports'
  BY <1>15, ThreadsAssumption, NoneAssumption DEF ActStream, Acting, Continue, At, TInv,
     TypeOK, IInv, SInv, Frames, Roles, Confined, InRequestCall, Claims, Finished, Owners,
     Reports, Reported, Reporting, RequestOps, Getters, Committing, Sends, Streams,
     Detaches, Writers, StateAfter, Admits, Handles, Dangling, NeedsNative
<1>16. ASSUME NEW c \in Callers, ActTemplateFails(c) \/ ActWriteFails(c) PROVE Reports'
  <2>0. /\ pc[c] = "act" /\ Continue(c, None) /\ call[c].op # "set_response_metadata"
        /\ c \in Pool /\ cur[c] \in Requests /\ call[c].req = cur[c]
        /\ UNCHANGED <<cur, requests, failed>>
        /\ call[c].op = "send_response" =>
              native[cur[c]] = "impl" /\ unsent' = unsent \cup {cur[c]}
        /\ unsent \subseteq unsent'
    BY <1>16 DEF ActTemplateFails, ActWriteFails, Acting, At, IInv, Confined, InRequestCall,
       TInv, Pointers, NeedsNative, Getters
  <2>1. \A d \in Callers \ {c} : pc'[d] = pc[d] /\ call'[d] = call[d]
    BY <2>0, ContinueOthers
  <2>2. SUFFICES ASSUME NEW r \in failed
                 PROVE  Reported(r)' \/ \E t \in Pool : cur'[t] = r /\ Reporting(t)'
    BY <2>0 DEF Reports
  <2>3. CASE Reported(r)
    BY <2>0, <2>3 DEF Reported
  <2>4. CASE \E t \in Pool \ {c} : cur[t] = r /\ Reporting(t)
    <3>1. PICK t \in Pool \ {c} : cur[t] = r /\ Reporting(t)
      BY <2>4
    <3> QED BY <2>0, <2>1, <3>1 DEF Reporting
  <2>5. CASE cur[c] = r /\ Reporting(c)
    BY <2>0, <2>5 DEF Reporting, Reported
  <2> QED BY <2>2, <2>3, <2>4, <2>5 DEF IInv, SInv, Reports
<1>17. ASSUME NEW c \in Callers, NEW h \in Holders,
             ActDetach(c, h)
      PROVE  Reports'
  BY <1>17, ThreadsAssumption, NoneAssumption DEF ActDetach, Acting, Continue, At, TInv,
     TypeOK, IInv, SInv, Frames, Roles, Confined, InRequestCall, Claims, Finished, Owners,
     Reports, Reported, Reporting, RequestOps, Getters, Committing, Sends, Streams,
     Detaches, Writers, StateAfter, Admits, Handles, Dangling, NeedsNative
<1>18. ASSUME NEW c \in Callers, PutBack(c) PROVE Reports'
  BY <1>18, ThreadsAssumption, NoneAssumption DEF PutBack, Put, NoCall, At, TInv, TypeOK,
     IInv, SInv, Frames, Roles, Confined, InRequestCall, Claims, Finished, Owners, Reports,
     Reported, Reporting
<1>19. ASSUME NEW c \in Callers, Register(c) PROVE Reports'
  BY <1>19, ThreadsAssumption, NoneAssumption DEF Register, Put, NoCall, At, TInv, TypeOK,
     IInv, SInv, Frames, Roles, Confined, InRequestCall, Claims, Finished, Owners, Reports,
     Reported, Reporting
<1>20. ASSUME NEW c \in Callers, NullDereference(c) PROVE Reports'
  BY <1>20, ThreadsAssumption, NoneAssumption DEF NullDereference, At, TInv, TypeOK, IInv,
     SInv, Frames, Roles, Confined, InRequestCall, Claims, Finished, Owners, Reports,
     Reported, Reporting
<1>21. ASSUME NEW c \in Callers, HolderSetMetadata(c) PROVE Reports'
  <2> DEFINE q == call[c].req
  <2>1. /\ pc[c] = "hact" /\ pc' = [pc EXCEPT ![c] = "hput"]
        /\ \E s : status' = [status EXCEPT ![q] = s]
        /\ UNCHANGED <<cur, call, state, native, failed, unsent>>
    BY <1>21 DEF HolderSetMetadata, At
  <2>2. q \in Requests /\ native[q] = "holder"
    <3>1. call[c].ptr \in Holders /\ HasHolder(c, call[c].ptr) /\ q = holds[call[c].ptr]
      BY <2>1 DEF IInv, SInv, Roles, Writers, HasHolder
    <3> QED BY <3>1 DEF IInv, SInv, Writers, TInv, TypeOK
  <2>3. /\ \A r \in Requests : r # q => status'[r] = status[r]
        /\ \A d \in Callers : d # c => pc'[d] = pc[d]
    BY <2>1 DEF TInv, TypeOK
  <2> SUFFICES ASSUME NEW r \in failed
               PROVE  Reported(r)' \/ \E t \in Pool : cur'[t] = r /\ Reporting(t)'
    BY <2>1 DEF Reports
  <2> HIDE DEF q
  <2>4. r \in Requests
    BY DEF TInv, TypeOK
  <2>5. CASE Reported(r)
    <3>1. r # q
      BY <2>2, <2>5 DEF Reported
    <3> QED BY <2>1, <2>3, <2>4, <2>5, <3>1 DEF Reported
  <2>6. CASE \E t \in Pool : cur[t] = r /\ Reporting(t)
    <3>1. PICK t \in Pool : cur[t] = r /\ Reporting(t)
      BY <2>6
    <3>2. t # c
      BY <2>1, <3>1 DEF Reporting
    <3>3. cur[t] # q
      BY <2>2, <3>1 DEF IInv, SInv, Claims, Unmoved, Reporting, Owners, Committing, Sends
    <3> QED BY <2>1, <2>3, <2>4, <3>1, <3>2, <3>3 DEF Reporting
  <2> QED BY <2>5, <2>6 DEF IInv, SInv, Reports
<1>22. ASSUME NEW c \in Callers, HolderPutBack(c) PROVE Reports'
  BY <1>22, ThreadsAssumption, NoneAssumption DEF HolderPutBack, Put, NoCall, At, TInv,
     TypeOK, IInv, SInv, Frames, Roles, Confined, InRequestCall, Claims, Finished, Owners,
     Reports, Reported, Reporting
<1>23. ASSUME NEW c \in Callers, HolderSend(c) PROVE Reports'
  BY <1>23, ThreadsAssumption, NoneAssumption DEF HolderSend, NoCall, At, TInv, TypeOK,
     IInv, SInv, Frames, Roles, Confined, InRequestCall, Claims, Finished, Owners, Reports,
     Reported, Reporting, RequestOps, Getters, Committing, Sends, Streams, Detaches,
     Writers, StateAfter, Admits, Handles, Dangling, NeedsNative
<1>24. ASSUME NEW c \in Callers, CloseFails(c) PROVE Reports'
  BY <1>24, ThreadsAssumption, NoneAssumption DEF CloseFails, NoCall, At, TInv, TypeOK,
     IInv, SInv, Frames, Roles, Confined, InRequestCall, Claims, Finished, Owners, Reports,
     Reported, Reporting
<1>25. ASSUME NEW r \in Requests, NEW outcome \in {"sent", "aborted"},
             SenderEnds(r, outcome)
      PROVE  Reports'
  BY <1>25, ThreadsAssumption, NoneAssumption DEF SenderEnds, At, TInv, TypeOK, IInv, SInv,
     Frames, Roles, Confined, InRequestCall, Claims, Finished, Owners, Reports, Reported,
     Reporting
<1>26. ASSUME NEW c \in Callers, UseAfterFree(c) PROVE FALSE
  BY <1>26 DEF UseAfterFree, At, Dangling, TInv, TypeOK, IInv, SInv, Frames, Roles,
     Confined, InRequestCall
<1>27. CASE UNCHANGED vars
  BY <1>27 DEF vars, TInv, TypeOK, IInv, SInv, Frames, Roles, Confined, InRequestCall,
     Claims, Finished, Owners, Reports, Reported, Reporting
<1> QED BY <1>1, <1>2, <1>3, <1>4, <1>5, <1>6, <1>7, <1>8, <1>9, <1>10, <1>11,
  <1>12, <1>13, <1>14, <1>15, <1>16, <1>17, <1>18, <1>19, <1>20, <1>21, <1>22,
  <1>23, <1>24, <1>25, <1>26, <1>27 DEF Next, ServerStep, InsideCall, ScriptCalls

(* No step of a call reaches a dead frame.                                 *)
LEMMA NoFaultStep ==
    ASSUME ~SharedRequests, TInv, IInv, [Next]_vars
    PROVE  fault' # "use_after_free"
<1>1. ASSUME NEW c \in Callers, UseAfterFree(c) PROVE FALSE
  BY <1>1 DEF UseAfterFree, At, Dangling, TInv, TypeOK, IInv, SInv, Frames, Roles, Confined,
     InRequestCall, Callers
<1>2. fault' # fault => fault' = "null_dereference"
  BY <1>1 DEF Next, ServerStep, InsideCall, ScriptCalls, vars, Arrive, Enter, EnterThrows, ScriptReturns,
     ScriptFails, ErrorRemove, Leave, Destroy, BeginCall, BeginHolderCall, CheckPasses,
     CheckRefuses, ActGet, ActSetMetadata, ActSend, ActStream, ActTemplateFails, ActWriteFails, ActDetach,
     PutBack, Register, NullDereference, HolderSetMetadata, HolderPutBack, HolderSend,
     CloseFails, SenderEnds
<1> QED BY <1>2 DEF IInv, SInv

LEMMA InvariantStep ==
    ASSUME ~SharedRequests, TInv, TInv', IInv, [Next]_vars PROVE IInv'
<1>1. TypeOK'
  BY DEF TInv
<1> QED
  BY <1>1, SharedStep, NoFaultStep, ConfinedStep, HandlesStep, OwnersStep, ReportsStep,
     UnansweredStep DEF IInv

LEMMA Reachable == ASSUME ~SharedRequests PROVE Spec => [](TInv /\ IInv)
<1>1. Init => TInv /\ IInv
  <2> SUFFICES ASSUME Init PROVE TInv /\ IInv
    OBVIOUS
  <2>1. TInv /\ SInv /\ fault # "use_after_free"
    BY SharedInit DEF Init
  <2>2. Confined /\ Handles /\ Owners
    BY ThreadsAssumption, NoneAssumption
    DEF Init, Confined, Handles, Owners, InRequestCall, NoCall, Callers, Empty
  <2>3. Reports /\ UnansweredOnlyByThrow
    BY DEF Init, Reports, UnansweredOnlyByThrow
  <2> QED BY <2>1, <2>2, <2>3 DEF IInv
<1>2. TInv /\ IInv /\ [Next]_vars => TInv' /\ IInv'
  BY InvariantStep, TypeStep DEF IInv
<1> QED BY <1>1, <1>2, PTL DEF Spec

(* The inductive invariant of its regime holds in every reachable state,   *)
(* whether request handles stay with their callback scripts or not.        *)
THEOREM InvariantHolds == Spec => []InductiveInvariant
<1>1. CASE SharedRequests
  <2>1. SInv => InductiveInvariant
    BY <1>1 DEF InductiveInvariant
  <2> QED BY <2>1, SharedReachable, PTL
<1>2. CASE ~SharedRequests
  <2>1. IInv => InductiveInvariant
    BY DEF InductiveInvariant, IInv
  <2>2. Spec => [](TInv /\ IInv)
    BY <1>2, Reachable
  <2> QED BY <2>1, <2>2, PTL
<1> QED BY <1>1, <1>2

(* A handle in the registry leads to a live frame unless the last path     *)
(* callback of its thread threw, and no call ever works on the memory of   *)
(* a dead one.                                                             *)
THEOREM HandlesAreLive ==
    ASSUME ~SharedRequests PROVE Spec => []HandlesLive
<1>1. TInv /\ IInv => HandlesLive
  BY DEF TInv, TypeOK, IInv, SInv, Frames, Roles, Confined, Handles, HandlesLive, Dangling,
     InRequestCall, Callers, Pointers
<1>2. Spec => [](TInv /\ IInv)
  BY Reachable
<1> QED BY <1>1, <1>2, PTL

(* Taking a handle out of its registry gives the call the object alone.    *)
THEOREM CheckoutIsExclusive ==
    ASSUME ~SharedRequests PROVE Spec => []ExclusiveCheckout
<1>1. IInv => ExclusiveCheckout
  <2> SUFFICES ASSUME IInv, NEW c \in Callers, InCall(c)
               PROVE  /\ call[c].ptr \notin rreg \cup hreg
                      /\ \A d \in Callers \ {c} :
                            InCall(d) => call[d].ptr # call[c].ptr
    BY DEF ExclusiveCheckout
  <2>1. \A d \in Callers : pc[d] \in {"check", "act"} =>
           d \in Pool /\ call[d].ptr = d /\ d \notin rreg
    BY DEF IInv, SInv, Roles, Confined, InRequestCall, Handles
  <2>2. \A d \in Callers : pc[d] \in {"hact", "hput"} =>
           call[d].ptr \in Holders /\ HasHolder(d, call[d].ptr)
    BY DEF IInv, SInv, Roles, Confined, HasHolder
  <2>3. CASE pc[c] \in {"check", "act"}
    BY <2>1, <2>2, <2>3, AddressAssumption DEF InCall, IInv, SInv, TypeOK
  <2>4. CASE pc[c] \in {"hact", "hput"}
    BY <2>1, <2>2, <2>4, AddressAssumption DEF InCall, IInv, SInv, TypeOK, Writers
  <2> QED BY <2>3, <2>4 DEF InCall
<1>2. Spec => [](TInv /\ IInv)
  BY Reachable
<1> QED BY <1>1, <1>2, PTL

(* finish() answers every request a script left open: a request that could *)
(* be answered dies unanswered only after a template that did not load, a  *)
(* native write that threw, or a path callback without a script.           *)
THEOREM UnansweredNeedsThrow ==
    ASSUME ~SharedRequests PROVE Spec => []UnansweredOnlyByThrow
<1>1. IInv => UnansweredOnlyByThrow
  BY DEF IInv, SInv
<1>2. Spec => [](TInv /\ IInv)
  BY Reachable
<1> QED BY <1>1, <1>2, PTL

(* A script that failed before it answered is reported to the client.      *)
THEOREM ErrorsAreReported ==
    ASSUME ~SharedRequests PROVE Spec => []ErrorReported
<1>1. IInv => ErrorReported
  BY DEF IInv, SInv, Reports, Reported, ErrorReported
<1>2. Spec => [](TInv /\ IInv)
  BY Reachable
<1> QED BY <1>1, <1>2, PTL

-----------------------------------------------------------------------------
(* What the client of a request sees are steps of ResponseContract.        *)

(* The contract's phase as a function of who owns the native object and of *)
(* the atomic.                                                             *)
PhaseOf(owner, s) ==
    CASE owner = "pion" -> "new"
      [] owner = "impl" /\ s = "created" -> "open"
      [] owner = "impl" /\ s = "committed" -> "answering"
      [] owner = "sender" -> "answering"
      [] owner = "holder" -> "deferred"
      [] owner = "sent" -> "answered"
      [] owner \in {"aborted", "dropped"} -> "lost"

Phases == [r \in Requests |-> Phase(r)]

LEMMA PhaseIs == \A r \in Requests : Phases[r] = PhaseOf(native[r], state[r])
BY DEF Phases, Phase, PhaseOf

(* A step that changes owner and atomic of one request moves its phase.    *)
LEMMA PhaseMoves ==
    ASSUME TInv, NEW r \in Requests, NEW owner, NEW s,
           native' = [native EXCEPT ![r] = owner], state' = [state EXCEPT ![r] = s]
    PROVE  Phases' = [Phases EXCEPT ![r] = PhaseOf(owner, s)]
<1>1. \A q \in Requests : native'[q] = (IF q = r THEN owner ELSE native[q]) /\
                           state'[q] = (IF q = r THEN s ELSE state[q])
  BY DEF TInv, TypeOK
<1>2. Phases' = [q \in Requests |-> PhaseOf(native'[q], state'[q])]
  BY DEF Phases, Phase, PhaseOf
<1>3. Phases = [q \in Requests |-> PhaseOf(native[q], state[q])]
  BY DEF Phases, Phase, PhaseOf
<1> QED BY <1>1, <1>2, <1>3

(* Moves of the contract that leave the status line as it is.              *)
Allowed(r, from, to) ==
    \/ from = to
    \/ from = "new" /\ to = IF Kind[r] = "wsclose" THEN "answering" ELSE "open"
    \/ from = "open" /\ to = "answering"
    \/ Kind[r] # "wsclose" /\ from = "answering" /\ to \in {"deferred", "answered"}
    \/ Kind[r] # "wsclose" /\ from = "deferred" /\ to = "answered"
    \/ from \in {"answering", "deferred"} /\ to = "lost"
    \/ r \in Scriptless /\ from = "open" /\ to = "lost"

(* The phase of one request moves on as the contract allows.               *)
Moved ==
    \E r \in Requests, to \in Outcome!Phases :
        Allowed(r, Phases[r], to) /\ Phases' = [Phases EXCEPT ![r] = to]

LEMMA MoveIsAllowed ==
    ASSUME TInv, NEW r \in Requests, NEW owner, NEW s \in {"created", "committed"},
           owner \in {"pion", "impl", "sender", "holder", "sent", "aborted", "dropped"},
           native' = [native EXCEPT ![r] = owner], state' = [state EXCEPT ![r] = s],
           Allowed(r, PhaseOf(native[r], state[r]), PhaseOf(owner, s))
    PROVE  Moved
<1>1. PhaseOf(owner, s) \in Outcome!Phases
  BY DEF PhaseOf, Outcome!Phases
<1>2. Allowed(r, Phases[r], PhaseOf(owner, s))
  BY PhaseIs
<1>3. Phases' = [Phases EXCEPT ![r] = PhaseOf(owner, s)]
  BY PhaseMoves
<1> QED BY <1>1, <1>2, <1>3 DEF Moved

(* Whoever uses a request handle, a step moves the phase of one request as *)
(* the contract allows, or none at all.                                    *)
LEMMA PhaseStep ==
    ASSUME TInv, SInv, [Next]_vars
    PROVE  Moved \/ UNCHANGED Phases
<1> USE DEF registries, threads, requests, history
<1>0. ASSUME UNCHANGED <<native, state>> PROVE UNCHANGED Phases
  BY <1>0 DEF Phases, Phase
<1>1. ASSUME NEW t \in Pool, NEW r \in Requests, Arrive(t, r) PROVE Moved
  <2> DEFINE s == IF Kind[r] = "wsclose" THEN "committed" ELSE "created"
  <2>1. /\ native' = [native EXCEPT ![r] = "impl"] /\ state' = [state EXCEPT ![r] = s]
        /\ native[r] = "pion" /\ s \in {"created", "committed"}
    BY <1>1 DEF Arrive
  <2>2. Allowed(r, PhaseOf(native[r], state[r]), PhaseOf("impl", s))
    BY <2>1 DEF PhaseOf, Allowed
  <2> HIDE DEF s
  <2> QED BY <2>1, <2>2, MoveIsAllowed
<1>2. ASSUME NEW t \in Pool, Destroy(t) PROVE Moved
  <2>1. /\ cur[t] \in Requests /\ state[cur[t]] \in {"created", "committed"}
        /\ state[cur[t]] = "created" => cur[t] \in Scriptless /\ native[cur[t]] = "impl"
    <3>1. pc[t] \in {"destroy", "unwind"} /\ cur[t] \in Requests
      BY <1>2 DEF Destroy, At, TInv, Pointers
    <3>2. /\ state[cur[t]] \in {"created", "committed"}
          /\ state[cur[t]] = "created" => cur[t] \in Scriptless
      BY <3>1 DEF SInv, Finished, TInv, TypeOK
    <3>3. native[cur[t]] \notin {"pion", "dropped"}
      BY <3>1, NoneAssumption DEF SInv, Frames
    <3> QED BY <3>1, <3>2, <3>3 DEF SInv, Claims, Unmoved
  <2> DEFINE r == cur[t]
             owner == IF native[r] = "impl" THEN "dropped" ELSE native[r]
  <2>2. /\ native' = [native EXCEPT ![r] = owner]
        /\ state' = [state EXCEPT ![r] = state[r]]
        /\ owner \in {"pion", "impl", "sender", "holder", "sent", "aborted", "dropped"}
    BY <1>2, <2>1 DEF Destroy, TInv, TypeOK
  <2>3. Allowed(r, PhaseOf(native[r], state[r]), PhaseOf(owner, state[r]))
    BY <2>1 DEF PhaseOf, Allowed
  <2>4. r \in Requests /\ state[r] \in {"created", "committed"}
    BY <2>1
  <2> HIDE DEF r, owner
  <2> QED BY <2>2, <2>3, <2>4, MoveIsAllowed
<1>3. ASSUME NEW c \in Callers, CheckPasses(c) PROVE Moved
  <2> DEFINE r == call[c].req
             s == StateAfter(call[c].op, state[r])
  <2>1. r \in Requests /\ native[r] # "pion" /\ Admits(call[c].op, r)
    <3>1. r \in Requests /\ r # None
      BY <1>3, NoneAssumption DEF CheckPasses, Dangling, TInv, TypeOK, Calls
    <3> QED BY <1>3, <3>1 DEF CheckPasses, SInv, Claims
  <2>2. /\ native' = [native EXCEPT ![r] = native[r]]
        /\ state' = [state EXCEPT ![r] = s] /\ s \in {"created", "committed"}
        /\ s # state[r] => state[r] = "created" /\ s = "committed"
    BY <1>3, <2>1 DEF CheckPasses, TInv, TypeOK, StateAfter, Admits
  <2>3. /\ native[r] \in {"impl", "sender", "holder", "sent", "aborted", "dropped"}
        /\ state[r] = "created" => native[r] = "impl"
    <3>1. call[c].ptr \in Pool /\ cur[call[c].ptr] = r /\ r # None
      BY <1>3 DEF CheckPasses, At, Dangling, TInv, Pointers
    <3>2. native[r] # "dropped"
      BY <3>1 DEF SInv, Frames
    <3> QED BY <2>1, <3>2 DEF TInv, TypeOK, SInv, Claims, Unmoved
  <2>4. Allowed(r, PhaseOf(native[r], state[r]), PhaseOf(native[r], s))
    BY <2>2, <2>3 DEF PhaseOf, Allowed
  <2> HIDE DEF r, s
  <2> QED BY <2>1, <2>2, <2>3, <2>4, MoveIsAllowed
<1>4. ASSUME NEW c \in Callers,
             ActSend(c) \/ ActStream(c) \/ \E h \in Holders : ActDetach(c, h)
      PROVE  Moved
  <2> DEFINE r == call[c].req
  <2>1. /\ Acting(c, Committing)
        /\ state' = state
        /\ \E owner \in {"sent", "sender", "aborted", "holder"} :
              native' = [native EXCEPT ![r] = owner]
    BY <1>4 DEF ActSend, ActStream, ActDetach, Acting, Committing
  <2>2. /\ r \in Requests /\ Kind[r] # "wsclose"
        /\ state[r] = "committed" /\ native[r] = "impl"
    BY <2>1, CommittedRequest
  <2>3. state' = [state EXCEPT ![r] = "committed"]
    BY <2>1, <2>2 DEF TInv, TypeOK
  <2>4. \A owner \in {"sent", "sender", "aborted", "holder"} :
           Allowed(r, PhaseOf(native[r], state[r]), PhaseOf(owner, "committed"))
    BY <2>2 DEF PhaseOf, Allowed
  <2> HIDE DEF r
  <2> QED BY <2>1, <2>2, <2>3, <2>4, MoveIsAllowed
<1>5. ASSUME NEW r \in Requests, NEW outcome \in {"sent", "aborted"},
             native' = [native EXCEPT ![r] = outcome], state' = state,
             native[r] \in {"sender", "holder"}, Kind[r] # "wsclose"
      PROVE  Moved
  <2>1. state' = [state EXCEPT ![r] = state[r]] /\ state[r] \in {"created", "committed"}
    BY <1>5 DEF TInv, TypeOK
  <2>2. Allowed(r, PhaseOf(native[r], state[r]), PhaseOf(outcome, state[r]))
    BY <1>5 DEF PhaseOf, Allowed
  <2> QED BY <1>5, <2>1, <2>2, MoveIsAllowed
<1>6. ASSUME NEW c \in Callers, HolderSend(c) PROVE Moved
  <2>1. /\ pc[c] = "hact" /\ state' = state
        /\ \E outcome \in {"sent", "aborted"} :
              native' = [native EXCEPT ![call[c].req] = outcome]
    BY <1>6 DEF HolderSend, At
  <2> QED BY <2>1, <1>5, HeldRequest
<1>7. ASSUME NEW r \in Requests, NEW outcome \in {"sent", "aborted"}, SenderEnds(r, outcome)
      PROVE  Moved
  BY <1>5, <1>7 DEF SenderEnds, SInv, Protocol
<1>8. ASSUME NEW t \in Pool,
             Enter(t) \/ EnterThrows(t) \/ ScriptReturns(t) \/ ScriptFails(t) \/ ErrorRemove(t) \/ Leave(t)
      PROVE  UNCHANGED Phases
  BY <1>0, <1>8 DEF Enter, EnterThrows, ScriptReturns, ScriptFails, ErrorRemove, Leave
<1>9. ASSUME NEW c \in Callers,
             \/ CheckRefuses(c) \/ ActGet(c) \/ ActSetMetadata(c) \/ ActTemplateFails(c) \/ ActWriteFails(c)
             \/ PutBack(c) \/ Register(c) \/ UseAfterFree(c) \/ NullDereference(c)
             \/ HolderSetMetadata(c) \/ HolderPutBack(c) \/ CloseFails(c) \/ ScriptCalls(c)
      PROVE  UNCHANGED Phases
  BY <1>0, <1>9 DEF CheckRefuses, ActGet, ActSetMetadata, ActTemplateFails, ActWriteFails, PutBack, Register,
     UseAfterFree, NullDereference, HolderSetMetadata, HolderPutBack, CloseFails,
     ScriptCalls, BeginCall, BeginHolderCall
<1>10. CASE UNCHANGED vars
  BY <1>0, <1>10 DEF vars
<1> QED BY <1>1, <1>2, <1>3, <1>4, <1>6, <1>7, <1>8, <1>9, <1>10
  DEF Next, ServerStep, InsideCall

(* No request is answered twice, or answered after it was lost, and none   *)
(* that somebody began to answer is opened again, whoever uses its handle: *)
(* the contract without its status line, in both regimes.                  *)
THEOREM OutcomesKeepContract == Spec => OutcomeContractHolds
<1> DEFINE unedited == [r \in Requests |-> "200"]
<1>1. Init => Outcome!Init
  BY DEF Init, Outcome!Init, Phase
<1>2. TInv /\ SInv /\ [Next]_vars => [Outcome!Next]_<<Phases, unedited>>
  <2> SUFFICES ASSUME Moved, Phases' # Phases PROVE Outcome!Next
    BY PhaseStep
  <2>1. PICK r \in Requests, to \in Outcome!Phases :
           Allowed(r, Phases[r], to) /\ Phases' = [Phases EXCEPT ![r] = to]
    BY DEF Moved
  <2>2. Phases[r] # to /\ Outcome!Move(r, Phases[r], to)
    BY <2>1 DEF Outcome!Move, Phases
  <2> QED BY <2>1, <2>2 DEF Allowed, Outcome!Next, Outcome!Receive, Outcome!Begin,
     Outcome!Defer, Outcome!Answer, Outcome!Lose
<1> QED BY <1>1, <1>2, SharedReachable, PTL
    DEF Spec, OutcomeContractHolds, Outcome!Spec, Phases

(* With handles kept to their callback scripts a status line is edited     *)
(* while its request is open or deferred.                                  *)
LEMMA LineStep ==
    ASSUME ~SharedRequests, TInv, IInv, [Next]_vars
    PROVE  \/ UNCHANGED status
           \/ \E r \in Requests, l \in {"200", "script", "500"} :
                 /\ UNCHANGED Phases /\ status' = [status EXCEPT ![r] = l]
                 /\ Kind[r] = "http" /\ Phases[r] \in {"open", "deferred"}
<1> USE DEF registries, threads, requests, history
<1>0. ASSUME UNCHANGED <<native, state>> PROVE UNCHANGED Phases
  BY <1>0 DEF Phases, Phase
<1>1. ASSUME NEW c \in Callers, ActSetMetadata(c)
      PROVE  \E r \in Requests, l \in {"200", "script", "500"} :
                /\ UNCHANGED Phases /\ status' = [status EXCEPT ![r] = l]
                /\ Kind[r] = "http" /\ Phases[r] \in {"open", "deferred"}
  <2> DEFINE r == call[c].req
  <2>1. pc[c] = "act" /\ call[c].op = "set_response_metadata" /\ ~Dangling(c)
    BY <1>1 DEF ActSetMetadata, Acting, At
  <2>2. r \in Requests /\ r # None /\ r = cur[c]
    BY <2>1, NoneAssumption DEF Dangling, TInv, TypeOK, Calls, IInv, Confined, InRequestCall
  <2>3. Kind[r] = "http" /\ state[r] = "created" /\ native[r] = "impl"
    <3>1. Kind[r] = "http" /\ state[r] = "created"
      BY <2>1, <2>2 DEF IInv, SInv, Protocol, Owners
    <3>2. c \in Pool /\ native[r] \notin {"pion", "dropped"}
      BY <2>1, <2>2 DEF IInv, SInv, Confined, InRequestCall, Frames
    <3> QED BY <2>2, <3>1, <3>2 DEF IInv, SInv, Claims, Unmoved
  <2>4. Phases[r] = "open"
    BY <2>2, <2>3, PhaseIs DEF PhaseOf
  <2>5. /\ UNCHANGED <<native, state>>
        /\ \E l \in {"500", "script"} : status' = [status EXCEPT ![r] = l]
    BY <1>1 DEF ActSetMetadata
  <2> HIDE DEF r
  <2> QED BY <1>0, <2>2, <2>3, <2>4, <2>5
<1>2. ASSUME NEW c \in Callers, HolderSetMetadata(c)
      PROVE  \E r \in Requests, l \in {"200", "script", "500"} :
                /\ UNCHANGED Phases /\ status' = [status EXCEPT ![r] = l]
                /\ Kind[r] = "http" /\ Phases[r] \in {"open", "deferred"}
  <2> DEFINE r == call[c].req
  <2>1. pc[c] = "hact" /\ call[c].op = "set_metadata_with_response_writer"
    BY <1>2 DEF HolderSetMetadata, At
  <2>2. r \in Requests /\ native[r] = "holder" /\ Kind[r] = "http"
    BY <2>1, HeldRequest DEF IInv, HolderAdmits
  <2>3. Phases[r] = "deferred"
    BY <2>2, PhaseIs DEF PhaseOf
  <2>4. /\ UNCHANGED <<native, state>>
        /\ \E l \in {"200", "script", "500"} : status' = [status EXCEPT ![r] = l]
    BY <1>2, <2>2 DEF HolderSetMetadata, TInv, TypeOK
  <2> HIDE DEF r
  <2> QED BY <1>0, <2>2, <2>3, <2>4
<1>3. \/ UNCHANGED status
      \/ \E c \in Callers : ActSetMetadata(c) \/ HolderSetMetadata(c)
  BY DEF Next, ServerStep, InsideCall, ScriptCalls, vars, Arrive, Enter, EnterThrows, ScriptReturns,
     ScriptFails, ErrorRemove, Leave, Destroy, BeginCall, BeginHolderCall, CheckPasses,
     CheckRefuses, ActGet, ActSend, ActStream, ActTemplateFails, ActWriteFails, ActDetach, PutBack,
     Register, UseAfterFree, NullDereference, HolderPutBack, HolderSend, CloseFails,
     SenderEnds
<1> QED BY <1>1, <1>2, <1>3

(* What the client of a request sees are steps of ResponseContract: its    *)
(* status line is edited only while it is open or deferred, and it is      *)
(* answered or lost once, a close notification never answered.             *)
THEOREM LifecycleImplementsContract ==
    ASSUME ~SharedRequests PROVE Spec => ResponseContractHolds
<1>1. Init => Contract!Init
  BY DEF Init, Contract!Init, Phase
<1>2. TInv /\ IInv /\ [Next]_vars => [Contract!Next]_<<Phases, status>>
  <2> SUFFICES ASSUME TInv, IInv, [Next]_vars, <<Phases, status>>' # <<Phases, status>>
               PROVE  Contract!Next
    OBVIOUS
  <2>1. CASE UNCHANGED status
    <3>1. Phases' # Phases /\ Moved
      BY <2>1, PhaseStep DEF IInv
    <3>2. PICK r \in Requests, to \in Outcome!Phases :
             Allowed(r, Phases[r], to) /\ Phases' = [Phases EXCEPT ![r] = to]
      BY <3>1 DEF Moved
    <3>3. Phases[r] # to /\ Contract!Move(r, Phases[r], to)
      BY <2>1, <3>1, <3>2 DEF Contract!Move, Phases
    <3> QED BY <3>2, <3>3 DEF Allowed, Contract!Next, Contract!Receive, Contract!Begin,
       Contract!Defer, Contract!Answer, Contract!Lose
  <2>2. CASE status' # status
    BY <2>2, LineStep DEF Contract!Next, Contract!Edit, Contract!Lines, Phases
  <2> QED BY <2>1, <2>2
<1>3. Spec => [](TInv /\ IInv)
  BY Reachable
<1> QED BY <1>1, <1>2, <1>3, PTL DEF Spec, ResponseContractHolds, Contract!Spec, Phases
=============================================================================
