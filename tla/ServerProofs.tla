----------------------------- MODULE ServerProofs -----------------------------
(***************************************************************************)
(* Proofs about the server registry, for every number of threads, pool     *)
(* threads and addresses of entries: the strengthened invariant IInv is    *)
(* inductive, and the properties of ServerRegistry follow from it.         *)
(***************************************************************************)
EXTENDS ServerRegistry, TLAPS

(* A caller has an operation and its entry in its hands exactly while it   *)
(* is inside one, and the place tells the operation.                       *)
CallShape ==
    \A c \in Callers :
        /\ pc[c] = "script" => op[c] = NoOp
        /\ pc[c] # "script" => op[c].entry \in Entries
        /\ pc[c] \in {"create", "register"} => op[c].name = "server_create"
        /\ pc[c] = "use" => op[c].name \in Uses \cup {"server_stop"}

(* An entry that is being made, or has been stopped and is being deleted,  *)
(* has no native server, and one call makes or deletes it.  This holds     *)
(* whatever get_tcp_port puts back.                                        *)
Outside(c, e) == pc[c] \in {"create", "delete"} /\ op[c].entry = e

Unserved ==
    \A e \in Entries, c, d \in Callers :
        Outside(c, e) => /\ Alive(e) /\ native[e] = "none"
                         /\ Outside(d, e) => c = d

(* What each place promises of the entry, until an entry is put back twice.*)
HandsLive ==
    ~twice => \A c \in Callers :
        pc[c] \in {"register", "use"} =>
            Alive(op[c].entry) /\ native[op[c].entry] # "none"

RegisteredLive ==
    ~twice => \A e \in sreg : Alive(e) /\ native[e] # "none"

(* A native server has its entry.                                          *)
NativeHasScripts ==
    ~twice /\ exit # "stop failed" =>
        \A e \in Entries : native[e] # "none" => Alive(e)

IInv ==
    /\ TypeOK
    /\ CallShape
    /\ Unserved
    /\ ServerUseExclusive
    /\ HandsLive
    /\ RegisteredLive
    /\ NativeHasScripts
    /\ HandlerScriptsLive
    /\ OnlyDoublePutDangles
    /\ NoServerLeak
-----------------------------------------------------------------------------
(* Domains of the functions, all that most steps need of TypeOK.           *)
LEMMA Domains ==
    ASSUME TypeOK
    PROVE  /\ DOMAIN pc = Callers /\ DOMAIN op = Callers
           /\ DOMAIN native = Entries /\ DOMAIN serving = Workers
           /\ Workers \subseteq Callers /\ sreg \subseteq Entries
  BY DEF TypeOK, Callers

(* A thread outside every operation has no entry in its hands.             *)
LEMMA EmptyHands ==
    ASSUME CallShape, NEW c \in Callers, pc[c] = "script"
    PROVE  op[c].entry = None
<1>1. op[c] = NoOp
  BY DEF CallShape
<1>2. NoOp.entry = None
  BY DEF NoOp
<1> QED
  BY <1>1, <1>2

(* The places a caller can be in.                                          *)
LEMMA Places ==
    ASSUME TypeOK, NEW c \in Callers
    PROVE  pc[c] \in {"script", "create", "register", "use", "put again", "delete"}
  BY DEF TypeOK

(* Calls with the same entry in their hands are one call, and the entry is *)
(* not registered; callers are in a place the code has.                    *)
LEMMA Apart ==
    ASSUME TypeOK, CallShape, ServerUseExclusive, ~twice,
           NEW c \in Callers, pc[c] \notin {"script", "put again"}
    PROVE  /\ op[c].entry \in Entries
           /\ ~Found(sreg, op[c].entry)
           /\ \A d \in Callers : d # c /\ pc[d] \notin {"script", "put again"}
                                  => op[d].entry # op[c].entry
<1>1. op[c].entry \in Entries
  BY Places DEF CallShape
<1>2. c \in InHands(op[c].entry)
  BY DEF InHands
<1>3. ASSUME NEW d \in Callers, d # c, pc[d] \notin {"script", "put again"}
      PROVE  op[d].entry # op[c].entry
  <2> SUFFICES ASSUME op[d].entry = op[c].entry PROVE FALSE
    OBVIOUS
  <2>1. d \in InHands(op[c].entry)
    BY <1>3 DEF InHands
  <2> QED
    BY <1>1, <1>2, <1>3, <2>1 DEF ServerUseExclusive
<1> QED
  BY <1>1, <1>2, <1>3 DEF ServerUseExclusive

(* Types are kept: what is put in the registry is an entry.                *)
LEMMA TypeStep ==
    ASSUME TypeOK, CallShape,
           [Next]_vars
    PROVE  TypeOK'
<1> USE DEF At, Go, Done, Alive, TypeOK, CallShape, Callers, Fault
<1>1. ASSUME NEW c \in Callers, CreateStarts(c)
      PROVE  TypeOK'
  BY <1>1 DEF CreateStarts
<1>2. ASSUME NEW c \in Callers, CreateFails(c)
      PROVE  TypeOK'
  BY <1>2 DEF CreateFails
<1>3. ASSUME NEW c \in Callers, CreateRegisters(c)
      PROVE  TypeOK'
  BY <1>3 DEF CreateRegisters, Looks, Put
<1>4. ASSUME NEW c \in Callers, Use(c)
      PROVE  TypeOK'
  BY <1>4 DEF Use, OnLive, Using, Put
<1>5. ASSUME NEW c \in Callers, UseDangling(c)
      PROVE  TypeOK'
  BY <1>5 DEF UseDangling, Using
<1>6. ASSUME NEW c \in Callers, PortFails(c)
      PROVE  TypeOK'
  BY <1>6 DEF PortFails, OnLive, Using, Put
<1>7. ASSUME NEW c \in Callers, PortPutsAgain(c)
      PROVE  TypeOK'
  BY <1>7 DEF PortPutsAgain, Put
<1>8. ASSUME NEW c \in Callers, StopWaits(c)
      PROVE  TypeOK'
  BY <1>8 DEF StopWaits, OnLive, Using
<1>9. ASSUME NEW c \in Callers, StopWorks(c)
      PROVE  TypeOK'
  BY <1>9 DEF StopWorks, OnLive, Using, Idle
<1>10. ASSUME NEW c \in Callers, StopFails(c)
      PROVE  TypeOK'
  BY <1>10 DEF StopFails, OnLive, Using, Put
<1>11. ASSUME NEW c \in Callers, StopDeletes(c)
      PROVE  TypeOK'
  BY <1>11 DEF StopDeletes
<1>12. ASSUME NEW c \in Callers, LooksTooLate(c)
      PROVE  TypeOK'
  BY <1>12 DEF LooksTooLate
<1>13. ASSUME NEW c \in Callers, NEW e \in Entries, Create(c, e)
      PROVE  TypeOK'
  BY <1>13 DEF Create
<1>14. ASSUME NEW c \in Callers, NEW e \in Entries, BeginInvalid(c, e)
      PROVE  TypeOK'
  BY <1>14 DEF BeginInvalid, Looks
<1>15. ASSUME NEW c \in Callers, NEW e \in Entries, BeginDangling(c, e)
      PROVE  TypeOK'
  BY <1>15 DEF BeginDangling, Looks, Found
<1>16. ASSUME NEW c \in Callers, NEW e \in Entries,
      NEW name \in Uses \cup {"server_stop"}, Begin(c, e, name)
      PROVE  TypeOK'
  BY <1>16 DEF Begin, Looks, Found, Remove
<1>17. ASSUME NEW w \in Workers, Served(w)
      PROVE  TypeOK'
  BY <1>17 DEF Served
<1>18. ASSUME NEW w \in Workers, NEW e \in Entries, Serve(w, e)
      PROVE  TypeOK'
  BY <1>18 DEF Serve
<1>19. ASSUME ExitStarts
      PROVE  TypeOK'
  BY <1>19 DEF ExitStarts
<1>20. ASSUME NEW e \in Entries, DeleterWaits(e)
      PROVE  TypeOK'
  BY <1>20 DEF DeleterWaits, Deleting
<1>21. ASSUME NEW e \in Entries, DeleterWorks(e)
      PROVE  TypeOK'
  BY <1>21 DEF DeleterWorks, Deleting, Idle, Remove
<1>22. ASSUME NEW e \in Entries, DeleterStopFails(e)
      PROVE  TypeOK'
  BY <1>22 DEF DeleterStopFails, Deleting, Remove
<1>23. ASSUME NEW e \in Entries, DeleterDangling(e)
      PROVE  TypeOK'
  BY <1>23 DEF DeleterDangling, Deleting
<1>24. CASE UNCHANGED vars
  BY <1>24 DEF vars
<1> QED
  BY <1>1, <1>2, <1>3, <1>4, <1>5, <1>6, <1>7, <1>8, <1>9, <1>10, <1>11,
     <1>12, <1>13, <1>14, <1>15, <1>16, <1>17, <1>18, <1>19, <1>20, <1>21,
     <1>22, <1>23, <1>24
  DEF Next, CreateStep, UseStep, StopStep, DeleterStep

(* The place of a caller tells what it has in its hands.                   *)
LEMMA ShapeStep ==
    ASSUME TypeOK, CallShape,
           [Next]_vars
    PROVE  CallShape'
<1> USE DEF At, Go, Done, Alive, TypeOK, CallShape, NoOp
<1>1. ASSUME NEW c \in Callers, CreateStarts(c)
      PROVE  CallShape'
  BY <1>1 DEF CreateStarts
<1>2. ASSUME NEW c \in Callers, CreateFails(c)
      PROVE  CallShape'
  BY <1>2 DEF CreateFails
<1>3. ASSUME NEW c \in Callers, CreateRegisters(c)
      PROVE  CallShape'
  BY <1>3 DEF CreateRegisters, Looks, Put
<1>4. ASSUME NEW c \in Callers, Use(c)
      PROVE  CallShape'
  BY <1>4 DEF Use, OnLive, Using, Put
<1>5. ASSUME NEW c \in Callers, UseDangling(c)
      PROVE  CallShape'
  BY <1>5 DEF UseDangling, Using
<1>6. ASSUME NEW c \in Callers, PortFails(c)
      PROVE  CallShape'
  BY <1>6 DEF PortFails, OnLive, Using, Put
<1>7. ASSUME NEW c \in Callers, PortPutsAgain(c)
      PROVE  CallShape'
  BY <1>7 DEF PortPutsAgain, Put
<1>8. ASSUME NEW c \in Callers, StopWaits(c)
      PROVE  CallShape'
  BY <1>8 DEF StopWaits, OnLive, Using
<1>9. ASSUME NEW c \in Callers, StopWorks(c)
      PROVE  CallShape'
  BY <1>9 DEF StopWorks, OnLive, Using, Idle
<1>10. ASSUME NEW c \in Callers, StopFails(c)
      PROVE  CallShape'
  BY <1>10 DEF StopFails, OnLive, Using, Put
<1>11. ASSUME NEW c \in Callers, StopDeletes(c)
      PROVE  CallShape'
  BY <1>11 DEF StopDeletes
<1>12. ASSUME NEW c \in Callers, LooksTooLate(c)
      PROVE  CallShape'
  BY <1>12 DEF LooksTooLate
<1>13. ASSUME NEW c \in Callers, NEW e \in Entries, Create(c, e)
      PROVE  CallShape'
  BY <1>13 DEF Create
<1>14. ASSUME NEW c \in Callers, NEW e \in Entries, BeginInvalid(c, e)
      PROVE  CallShape'
  BY <1>14 DEF BeginInvalid, Looks
<1>15. ASSUME NEW c \in Callers, NEW e \in Entries, BeginDangling(c, e)
      PROVE  CallShape'
  BY <1>15 DEF BeginDangling, Looks, Found
<1>16. ASSUME NEW c \in Callers, NEW e \in Entries,
      NEW name \in Uses \cup {"server_stop"}, Begin(c, e, name)
      PROVE  CallShape'
  BY <1>16 DEF Begin, Looks, Found, Remove
<1>17. ASSUME NEW w \in Workers, Served(w)
      PROVE  CallShape'
  BY <1>17 DEF Served
<1>18. ASSUME NEW w \in Workers, NEW e \in Entries, Serve(w, e)
      PROVE  CallShape'
  BY <1>18 DEF Serve
<1>19. ASSUME ExitStarts
      PROVE  CallShape'
  BY <1>19 DEF ExitStarts
<1>20. ASSUME NEW e \in Entries, DeleterWaits(e)
      PROVE  CallShape'
  BY <1>20 DEF DeleterWaits, Deleting
<1>21. ASSUME NEW e \in Entries, DeleterWorks(e)
      PROVE  CallShape'
  BY <1>21 DEF DeleterWorks, Deleting, Idle, Remove
<1>22. ASSUME NEW e \in Entries, DeleterStopFails(e)
      PROVE  CallShape'
  BY <1>22 DEF DeleterStopFails, Deleting, Remove
<1>23. ASSUME NEW e \in Entries, DeleterDangling(e)
      PROVE  CallShape'
  BY <1>23 DEF DeleterDangling, Deleting
<1>24. CASE UNCHANGED vars
  BY <1>24 DEF vars
<1> QED
  BY <1>1, <1>2, <1>3, <1>4, <1>5, <1>6, <1>7, <1>8, <1>9, <1>10, <1>11,
     <1>12, <1>13, <1>14, <1>15, <1>16, <1>17, <1>18, <1>19, <1>20, <1>21,
     <1>22, <1>23, <1>24
  DEF Next, CreateStep, UseStep, StopStep, DeleterStep

(* What is made or deleted has no server, and one caller.                  *)
LEMMA UnservedStep ==
    ASSUME TypeOK, CallShape, Unserved,
           [Next]_vars
    PROVE  Unserved'
<1>d. /\ DOMAIN pc = Callers /\ DOMAIN op = Callers
      /\ DOMAIN native = Entries /\ DOMAIN serving = Workers
      /\ Workers \subseteq Callers /\ sreg \subseteq Entries
  BY Domains
<1> SUFFICES ASSUME NEW e0 \in Entries, NEW x \in Callers, NEW y \in Callers,
                    Outside(x, e0)'
    PROVE  Alive(e0)' /\ native'[e0] = "none" /\ (Outside(y, e0)' => x = y)
  BY DEF Unserved, Alive
<1> USE DEF At, Go, Done, Alive, Unserved, Outside
<1>1. ASSUME NEW c \in Callers, CreateStarts(c)
      PROVE  Alive(e0)' /\ native'[e0] = "none" /\ (Outside(y, e0)' => x = y)
  BY <1>1, <1>d DEF CreateStarts
<1>2. ASSUME NEW c \in Callers, CreateFails(c)
      PROVE  Alive(e0)' /\ native'[e0] = "none" /\ (Outside(y, e0)' => x = y)
  BY <1>2, <1>d DEF CreateFails
<1>3. ASSUME NEW c \in Callers, CreateRegisters(c)
      PROVE  Alive(e0)' /\ native'[e0] = "none" /\ (Outside(y, e0)' => x = y)
  BY <1>3, <1>d DEF CreateRegisters, Looks, Put
<1>4. ASSUME NEW c \in Callers, Use(c)
      PROVE  Alive(e0)' /\ native'[e0] = "none" /\ (Outside(y, e0)' => x = y)
  BY <1>4, <1>d DEF Use, OnLive, Using, Put
<1>5. ASSUME NEW c \in Callers, UseDangling(c)
      PROVE  Alive(e0)' /\ native'[e0] = "none" /\ (Outside(y, e0)' => x = y)
  BY <1>5, <1>d DEF UseDangling, Using
<1>6. ASSUME NEW c \in Callers, PortFails(c)
      PROVE  Alive(e0)' /\ native'[e0] = "none" /\ (Outside(y, e0)' => x = y)
  BY <1>6, <1>d DEF PortFails, OnLive, Using, Put
<1>7. ASSUME NEW c \in Callers, PortPutsAgain(c)
      PROVE  Alive(e0)' /\ native'[e0] = "none" /\ (Outside(y, e0)' => x = y)
  BY <1>7, <1>d DEF PortPutsAgain, Put
<1>8. ASSUME NEW c \in Callers, StopWaits(c)
      PROVE  Alive(e0)' /\ native'[e0] = "none" /\ (Outside(y, e0)' => x = y)
  BY <1>8, <1>d DEF StopWaits, OnLive, Using
<1>9. ASSUME NEW c \in Callers, StopWorks(c)
      PROVE  Alive(e0)' /\ native'[e0] = "none" /\ (Outside(y, e0)' => x = y)
  BY <1>9, <1>d DEF StopWorks, OnLive, Using, Idle
<1>10. ASSUME NEW c \in Callers, StopFails(c)
      PROVE  Alive(e0)' /\ native'[e0] = "none" /\ (Outside(y, e0)' => x = y)
  BY <1>10, <1>d DEF StopFails, OnLive, Using, Put
<1>11. ASSUME NEW c \in Callers, StopDeletes(c)
      PROVE  Alive(e0)' /\ native'[e0] = "none" /\ (Outside(y, e0)' => x = y)
  BY <1>11, <1>d DEF StopDeletes
<1>12. ASSUME NEW c \in Callers, LooksTooLate(c)
      PROVE  Alive(e0)' /\ native'[e0] = "none" /\ (Outside(y, e0)' => x = y)
  BY <1>12, <1>d DEF LooksTooLate
<1>13. ASSUME NEW c \in Callers, NEW e \in Entries, Create(c, e)
      PROVE  Alive(e0)' /\ native'[e0] = "none" /\ (Outside(y, e0)' => x = y)
  BY <1>13, <1>d DEF Create
<1>14. ASSUME NEW c \in Callers, NEW e \in Entries, BeginInvalid(c, e)
      PROVE  Alive(e0)' /\ native'[e0] = "none" /\ (Outside(y, e0)' => x = y)
  BY <1>14, <1>d DEF BeginInvalid, Looks
<1>15. ASSUME NEW c \in Callers, NEW e \in Entries, BeginDangling(c, e)
      PROVE  Alive(e0)' /\ native'[e0] = "none" /\ (Outside(y, e0)' => x = y)
  BY <1>15, <1>d DEF BeginDangling, Looks, Found
<1>16. ASSUME NEW c \in Callers, NEW e \in Entries,
      NEW name \in Uses \cup {"server_stop"}, Begin(c, e, name)
      PROVE  Alive(e0)' /\ native'[e0] = "none" /\ (Outside(y, e0)' => x = y)
  BY <1>16, <1>d DEF Begin, Looks, Found, Remove
<1>17. ASSUME NEW w \in Workers, Served(w)
      PROVE  Alive(e0)' /\ native'[e0] = "none" /\ (Outside(y, e0)' => x = y)
  BY <1>17, <1>d DEF Served
<1>18. ASSUME NEW w \in Workers, NEW e \in Entries, Serve(w, e)
      PROVE  Alive(e0)' /\ native'[e0] = "none" /\ (Outside(y, e0)' => x = y)
  BY <1>18, <1>d DEF Serve
<1>19. ASSUME ExitStarts
      PROVE  Alive(e0)' /\ native'[e0] = "none" /\ (Outside(y, e0)' => x = y)
  BY <1>19, <1>d DEF ExitStarts
<1>20. ASSUME NEW e \in Entries, DeleterWaits(e)
      PROVE  Alive(e0)' /\ native'[e0] = "none" /\ (Outside(y, e0)' => x = y)
  BY <1>20, <1>d DEF DeleterWaits, Deleting
<1>21. ASSUME NEW e \in Entries, DeleterWorks(e)
      PROVE  Alive(e0)' /\ native'[e0] = "none" /\ (Outside(y, e0)' => x = y)
  BY <1>21, <1>d DEF DeleterWorks, Deleting, Idle, Remove
<1>22. ASSUME NEW e \in Entries, DeleterStopFails(e)
      PROVE  Alive(e0)' /\ native'[e0] = "none" /\ (Outside(y, e0)' => x = y)
  BY <1>22, <1>d DEF DeleterStopFails, Deleting, Remove
<1>23. ASSUME NEW e \in Entries, DeleterDangling(e)
      PROVE  Alive(e0)' /\ native'[e0] = "none" /\ (Outside(y, e0)' => x = y)
  BY ZenonT(40), <1>23, <1>d DEF DeleterDangling, Deleting
<1>24. CASE UNCHANGED vars
  BY <1>24 DEF vars
<1> QED
  BY <1>1, <1>2, <1>3, <1>4, <1>5, <1>6, <1>7, <1>8, <1>9, <1>10, <1>11,
     <1>12, <1>13, <1>14, <1>15, <1>16, <1>17, <1>18, <1>19, <1>20, <1>21,
     <1>22, <1>23, <1>24
  DEF Next, CreateStep, UseStep, StopStep, DeleterStep

(* An entry is registered or in the hands of one call.                     *)
LEMMA ExclusiveStep ==
    ASSUME TypeOK, CallShape, Unserved, ServerUseExclusive, HandsLive, RegisteredLive,
           [Next]_vars
    PROVE  ServerUseExclusive'
<1>d. /\ DOMAIN pc = Callers /\ DOMAIN op = Callers
      /\ DOMAIN native = Entries /\ DOMAIN serving = Workers
      /\ Workers \subseteq Callers /\ sreg \subseteq Entries
  BY Domains
<1> SUFFICES ASSUME ~twice', NEW e0 \in Entries, NEW x \in InHands(e0)', NEW y \in InHands(e0)'
    PROVE  x = y /\ ~Found(sreg, e0)'
  BY DEF ServerUseExclusive
<1> USE DEF At, Go, Done, Alive, ServerUseExclusive, InHands, Found
<1>1. ASSUME NEW c \in Callers, CreateStarts(c)
      PROVE  x = y /\ ~Found(sreg, e0)'
  BY <1>1, <1>d DEF CreateStarts
<1>2. ASSUME NEW c \in Callers, CreateFails(c)
      PROVE  x = y /\ ~Found(sreg, e0)'
  <2>1. x # c /\ y # c
    BY <1>2, <1>d, EntryAssumption DEF CreateFails
  <2>2. x \in InHands(e0) /\ y \in InHands(e0) /\ ~twice
    BY <1>2, <1>d, <2>1 DEF CreateFails
  <2>3. x = y /\ ~Found(sreg, e0)
    BY <2>2
  <2>4. op[c].entry # e0
    BY <1>2, <2>1, <2>2 DEF CreateFails
  <2> QED
    BY <1>2, <2>3, <2>4 DEF CreateFails
<1>3. ASSUME NEW c \in Callers, CreateRegisters(c)
      PROVE  x = y /\ ~Found(sreg, e0)'
  <2>1. x # c /\ y # c
    BY <1>3, <1>d, EntryAssumption DEF CreateRegisters, Looks, Put
  <2>2. x \in InHands(e0) /\ y \in InHands(e0) /\ ~twice
    BY <1>3, <1>d, <2>1 DEF CreateRegisters, Looks, Put
  <2>3. x = y /\ ~Found(sreg, e0)
    BY <2>2
  <2>4. op[c].entry # e0
    BY <1>3, <2>1, <2>2 DEF CreateRegisters, Looks, Put
  <2> QED
    BY <1>3, <2>3, <2>4 DEF CreateRegisters, Looks, Put
<1>4. ASSUME NEW c \in Callers, Use(c)
      PROVE  x = y /\ ~Found(sreg, e0)'
  <2>1. x # c /\ y # c
    BY <1>4, <1>d, EntryAssumption DEF Use, OnLive, Using, Put
  <2>2. x \in InHands(e0) /\ y \in InHands(e0) /\ ~twice
    BY <1>4, <1>d, <2>1 DEF Use, OnLive, Using, Put
  <2>3. x = y /\ ~Found(sreg, e0)
    BY <2>2
  <2>4. op[c].entry # e0
    BY <1>4, <2>1, <2>2 DEF Use, OnLive, Using, Put
  <2> QED
    BY <1>4, <2>3, <2>4 DEF Use, OnLive, Using, Put
<1>5. ASSUME NEW c \in Callers, UseDangling(c)
      PROVE  x = y /\ ~Found(sreg, e0)'
  BY ZenonT(40), <1>5, <1>d DEF UseDangling, Using
<1>6. ASSUME NEW c \in Callers, PortFails(c)
      PROVE  x = y /\ ~Found(sreg, e0)'
  BY <1>6, <1>d DEF PortFails, OnLive, Using, Put
<1>7. ASSUME NEW c \in Callers, PortPutsAgain(c)
      PROVE  x = y /\ ~Found(sreg, e0)'
  BY <1>7, <1>d DEF PortPutsAgain, Put
<1>8. ASSUME NEW c \in Callers, StopWaits(c)
      PROVE  x = y /\ ~Found(sreg, e0)'
  BY ZenonT(40), <1>8, <1>d DEF StopWaits, OnLive, Using
<1>9. ASSUME NEW c \in Callers, StopWorks(c)
      PROVE  x = y /\ ~Found(sreg, e0)'
  BY ZenonT(40), <1>9, <1>d DEF StopWorks, OnLive, Using, Idle
<1>10. ASSUME NEW c \in Callers, StopFails(c)
      PROVE  x = y /\ ~Found(sreg, e0)'
  <2>1. x # c /\ y # c
    BY <1>10, <1>d, EntryAssumption DEF StopFails, OnLive, Using, Put
  <2>2. x \in InHands(e0) /\ y \in InHands(e0) /\ ~twice
    BY <1>10, <1>d, <2>1 DEF StopFails, OnLive, Using, Put
  <2>3. x = y /\ ~Found(sreg, e0)
    BY <2>2
  <2>4. op[c].entry # e0
    BY <1>10, <2>1, <2>2 DEF StopFails, OnLive, Using, Put
  <2> QED
    BY <1>10, <2>3, <2>4 DEF StopFails, OnLive, Using, Put
<1>11. ASSUME NEW c \in Callers, StopDeletes(c)
      PROVE  x = y /\ ~Found(sreg, e0)'
  <2>1. x # c /\ y # c
    BY <1>11, <1>d, EntryAssumption DEF StopDeletes
  <2>2. x \in InHands(e0) /\ y \in InHands(e0) /\ ~twice
    BY <1>11, <1>d, <2>1 DEF StopDeletes
  <2>3. x = y /\ ~Found(sreg, e0)
    BY <2>2
  <2>4. op[c].entry # e0
    BY <1>11, <2>1, <2>2 DEF StopDeletes
  <2> QED
    BY <1>11, <2>3, <2>4 DEF StopDeletes
<1>12. ASSUME NEW c \in Callers, LooksTooLate(c)
      PROVE  x = y /\ ~Found(sreg, e0)'
  BY <1>12, <1>d DEF LooksTooLate
<1>13. ASSUME NEW c \in Callers, NEW e \in Entries, Create(c, e)
      PROVE  x = y /\ ~Found(sreg, e0)'
  <2>1. \A z \in Callers : pc[z] \notin {"script", "put again"} => Alive(op[z].entry)
    <3> SUFFICES ASSUME NEW z \in Callers, pc[z] \notin {"script", "put again"}
        PROVE  Alive(op[z].entry)
      OBVIOUS
    <3>1. pc[z] \in {"create", "register", "use", "delete"} /\ op[z].entry \in Entries
      BY Places DEF CallShape
    <3>2. CASE pc[z] \in {"create", "delete"}
      BY <3>1, <3>2 DEF Unserved, Outside
    <3>3. CASE pc[z] \in {"register", "use"}
      BY <1>13, <3>3 DEF Create, HandsLive
    <3> QED
      BY <3>1, <3>2, <3>3
  <2>2. \A z \in Callers : z \notin InHands(e)
    <3> SUFFICES ASSUME NEW z \in Callers, op[z].entry = e, pc[z] # "put again"
        PROVE  FALSE
      BY DEF InHands
    <3>1. CASE pc[z] = "script"
      BY <3>1, EmptyHands, EntryAssumption
    <3>2. CASE pc[z] # "script"
      BY <1>13, <2>1, <3>2 DEF Create
    <3> QED
      BY <3>1, <3>2
  <2>3. ~Found(sreg, e)
    BY <1>13 DEF Create, RegisteredLive
  <2>4. CASE e0 = e
    BY <1>13, <1>d, <2>2, <2>3, <2>4 DEF Create
  <2>5. CASE e0 # e
    <3>1. x \in InHands(e0) /\ y \in InHands(e0) /\ ~twice
      BY <1>13, <1>d, <2>5 DEF Create
    <3> QED
      BY <1>13, <3>1 DEF Create
  <2> QED
    BY <2>4, <2>5
<1>14. ASSUME NEW c \in Callers, NEW e \in Entries, BeginInvalid(c, e)
      PROVE  x = y /\ ~Found(sreg, e0)'
  BY <1>14, <1>d DEF BeginInvalid, Looks
<1>15. ASSUME NEW c \in Callers, NEW e \in Entries, BeginDangling(c, e)
      PROVE  x = y /\ ~Found(sreg, e0)'
  BY <1>15, <1>d DEF BeginDangling, Looks, Found
<1>16. ASSUME NEW c \in Callers, NEW e \in Entries,
      NEW name \in Uses \cup {"server_stop"}, Begin(c, e, name)
      PROVE  x = y /\ ~Found(sreg, e0)'
  <2>1. InHands(e) = {}
    BY <1>16 DEF Begin, Looks, Found, Remove
  <2>2. CASE e0 = e
    BY <1>16, <1>d, <2>1, <2>2 DEF Begin, Looks, Found, Remove
  <2>3. CASE e0 # e
    <3>1. x \in InHands(e0) /\ y \in InHands(e0) /\ ~twice
      BY <1>16, <1>d, <2>3 DEF Begin, Looks, Found, Remove
    <3> QED
      BY <1>16, <3>1 DEF Begin, Looks, Found, Remove
  <2> QED
    BY <2>2, <2>3
<1>17. ASSUME NEW w \in Workers, Served(w)
      PROVE  x = y /\ ~Found(sreg, e0)'
  BY <1>17, <1>d DEF Served
<1>18. ASSUME NEW w \in Workers, NEW e \in Entries, Serve(w, e)
      PROVE  x = y /\ ~Found(sreg, e0)'
  BY <1>18, <1>d DEF Serve
<1>19. ASSUME ExitStarts
      PROVE  x = y /\ ~Found(sreg, e0)'
  BY <1>19, <1>d DEF ExitStarts
<1>20. ASSUME NEW e \in Entries, DeleterWaits(e)
      PROVE  x = y /\ ~Found(sreg, e0)'
  BY <1>20, <1>d DEF DeleterWaits, Deleting
<1>21. ASSUME NEW e \in Entries, DeleterWorks(e)
      PROVE  x = y /\ ~Found(sreg, e0)'
  BY <1>21, <1>d DEF DeleterWorks, Deleting, Idle, Remove
<1>22. ASSUME NEW e \in Entries, DeleterStopFails(e)
      PROVE  x = y /\ ~Found(sreg, e0)'
  BY <1>22, <1>d DEF DeleterStopFails, Deleting, Remove
<1>23. ASSUME NEW e \in Entries, DeleterDangling(e)
      PROVE  x = y /\ ~Found(sreg, e0)'
  BY <1>23, <1>d DEF DeleterDangling, Deleting
<1>24. CASE UNCHANGED vars
  BY <1>24 DEF vars
<1> QED
  BY <1>1, <1>2, <1>3, <1>4, <1>5, <1>6, <1>7, <1>8, <1>9, <1>10, <1>11,
     <1>12, <1>13, <1>14, <1>15, <1>16, <1>17, <1>18, <1>19, <1>20, <1>21,
     <1>22, <1>23, <1>24
  DEF Next, CreateStep, UseStep, StopStep, DeleterStep

(* An entry in use has its scripts and its native server.                  *)
LEMMA HandsStep ==
    ASSUME TypeOK, CallShape, Unserved, ServerUseExclusive,
           HandsLive, RegisteredLive,
           [Next]_vars
    PROVE  HandsLive'
<1>d. /\ DOMAIN pc = Callers /\ DOMAIN op = Callers
      /\ DOMAIN native = Entries /\ DOMAIN serving = Workers
      /\ Workers \subseteq Callers /\ sreg \subseteq Entries
  BY Domains
<1> SUFFICES ASSUME ~twice', NEW x \in Callers, pc'[x] \in {"register", "use"}
    PROVE  (Alive(op[x].entry) /\ native[op[x].entry] # "none")'
  BY DEF HandsLive, Alive
<1> USE DEF At, Go, Done, Alive, HandsLive
<1>1. ASSUME NEW c \in Callers, CreateStarts(c)
      PROVE  (Alive(op[x].entry) /\ native[op[x].entry] # "none")'
  <2>1. Alive(op[c].entry) /\ op[c].entry \in Entries
    BY <1>1 DEF CreateStarts, CallShape, Unserved, Outside
  <2> QED
    BY <1>1, <1>d, <2>1, Apart DEF CreateStarts
<1>2. ASSUME NEW c \in Callers, CreateFails(c)
      PROVE  (Alive(op[x].entry) /\ native[op[x].entry] # "none")'
  <2>1. CASE x = c
    BY <1>2, <1>d, <2>1 DEF CreateFails
  <2>2. CASE x # c
    <3>1. op[x].entry # op[c].entry /\ op'[x] = op[x] /\ pc'[x] = pc[x] /\ ~twice
      BY <1>2, <1>d, <2>2, Apart DEF CreateFails
    <3> QED
      BY <1>2, <1>d, <3>1, Apart DEF CreateFails
  <2> QED
    BY <2>1, <2>2
<1>3. ASSUME NEW c \in Callers, CreateRegisters(c)
      PROVE  (Alive(op[x].entry) /\ native[op[x].entry] # "none")'
  BY <1>3, <1>d DEF CreateRegisters, Looks, Put
<1>4. ASSUME NEW c \in Callers, Use(c)
      PROVE  (Alive(op[x].entry) /\ native[op[x].entry] # "none")'
  BY <1>4, <1>d DEF Use, OnLive, Using, Put
<1>5. ASSUME NEW c \in Callers, UseDangling(c)
      PROVE  (Alive(op[x].entry) /\ native[op[x].entry] # "none")'
  BY <1>5, <1>d DEF UseDangling, Using
<1>6. ASSUME NEW c \in Callers, PortFails(c)
      PROVE  (Alive(op[x].entry) /\ native[op[x].entry] # "none")'
  BY <1>6, <1>d DEF PortFails, OnLive, Using, Put
<1>7. ASSUME NEW c \in Callers, PortPutsAgain(c)
      PROVE  (Alive(op[x].entry) /\ native[op[x].entry] # "none")'
  BY <1>7, <1>d DEF PortPutsAgain, Put
<1>8. ASSUME NEW c \in Callers, StopWaits(c)
      PROVE  (Alive(op[x].entry) /\ native[op[x].entry] # "none")'
  BY <1>8, <1>d DEF StopWaits, OnLive, Using, CallShape
<1>9. ASSUME NEW c \in Callers, StopWorks(c)
      PROVE  (Alive(op[x].entry) /\ native[op[x].entry] # "none")'
  <2>1. CASE x = c
    BY <1>9, <1>d, <2>1 DEF StopWorks, OnLive, Using, Idle
  <2>2. CASE x # c
    <3>1. op[x].entry # op[c].entry /\ op'[x] = op[x] /\ pc'[x] = pc[x] /\ ~twice
      BY <1>9, <1>d, <2>2, Apart DEF StopWorks, OnLive, Using, Idle
    <3> QED
      BY <1>9, <1>d, <3>1, Apart DEF StopWorks, OnLive, Using, Idle
  <2> QED
    BY <2>1, <2>2
<1>10. ASSUME NEW c \in Callers, StopFails(c)
      PROVE  (Alive(op[x].entry) /\ native[op[x].entry] # "none")'
  BY <1>10, <1>d DEF StopFails, OnLive, Using, Put
<1>11. ASSUME NEW c \in Callers, StopDeletes(c)
      PROVE  (Alive(op[x].entry) /\ native[op[x].entry] # "none")'
  <2>1. CASE x = c
    BY <1>11, <1>d, <2>1 DEF StopDeletes
  <2>2. CASE x # c
    <3>1. op[x].entry # op[c].entry /\ op'[x] = op[x] /\ pc'[x] = pc[x] /\ ~twice
      BY <1>11, <1>d, <2>2, Apart DEF StopDeletes
    <3> QED
      BY <1>11, <1>d, <3>1, Apart DEF StopDeletes
  <2> QED
    BY <2>1, <2>2
<1>12. ASSUME NEW c \in Callers, LooksTooLate(c)
      PROVE  (Alive(op[x].entry) /\ native[op[x].entry] # "none")'
  BY <1>12, <1>d DEF LooksTooLate
<1>13. ASSUME NEW c \in Callers, NEW e \in Entries, Create(c, e)
      PROVE  (Alive(op[x].entry) /\ native[op[x].entry] # "none")'
  BY <1>13, <1>d DEF Create
<1>14. ASSUME NEW c \in Callers, NEW e \in Entries, BeginInvalid(c, e)
      PROVE  (Alive(op[x].entry) /\ native[op[x].entry] # "none")'
  BY <1>14, <1>d DEF BeginInvalid, Looks
<1>15. ASSUME NEW c \in Callers, NEW e \in Entries, BeginDangling(c, e)
      PROVE  (Alive(op[x].entry) /\ native[op[x].entry] # "none")'
  BY <1>15, <1>d DEF BeginDangling, Looks, Found
<1>16. ASSUME NEW c \in Callers, NEW e \in Entries,
      NEW name \in Uses \cup {"server_stop"}, Begin(c, e, name)
      PROVE  (Alive(op[x].entry) /\ native[op[x].entry] # "none")'
  <2>1. Alive(e) /\ native[e] # "none"
    BY <1>16 DEF Begin, Looks, Found, Remove, RegisteredLive
  <2> QED
    BY <1>16, <1>d, <2>1 DEF Begin, Looks, Found, Remove
<1>17. ASSUME NEW w \in Workers, Served(w)
      PROVE  (Alive(op[x].entry) /\ native[op[x].entry] # "none")'
  BY <1>17, <1>d DEF Served
<1>18. ASSUME NEW w \in Workers, NEW e \in Entries, Serve(w, e)
      PROVE  (Alive(op[x].entry) /\ native[op[x].entry] # "none")'
  BY <1>18, <1>d DEF Serve
<1>19. ASSUME ExitStarts
      PROVE  (Alive(op[x].entry) /\ native[op[x].entry] # "none")'
  BY <1>19, <1>d DEF ExitStarts
<1>20. ASSUME NEW e \in Entries, DeleterWaits(e)
      PROVE  (Alive(op[x].entry) /\ native[op[x].entry] # "none")'
  BY <1>20, <1>d DEF DeleterWaits, Deleting, CallShape
<1>21. ASSUME NEW e \in Entries, DeleterWorks(e)
      PROVE  (Alive(op[x].entry) /\ native[op[x].entry] # "none")'
  <2>1. ~Found(sreg, op[x].entry)
    BY <1>21, Apart DEF DeleterWorks, Deleting, Idle, Remove
  <2> QED
    BY <1>21, <1>d, <2>1, Apart DEF DeleterWorks, Deleting, Idle, Remove
<1>22. ASSUME NEW e \in Entries, DeleterStopFails(e)
      PROVE  (Alive(op[x].entry) /\ native[op[x].entry] # "none")'
  <2>1. ~Found(sreg, op[x].entry)
    BY <1>22, Apart DEF DeleterStopFails, Deleting, Remove
  <2> QED
    BY <1>22, <1>d, <2>1, Apart DEF DeleterStopFails, Deleting, Remove
<1>23. ASSUME NEW e \in Entries, DeleterDangling(e)
      PROVE  (Alive(op[x].entry) /\ native[op[x].entry] # "none")'
  BY <1>23, <1>d DEF DeleterDangling, Deleting
<1>24. CASE UNCHANGED vars
  BY <1>24 DEF vars
<1> QED
  BY <1>1, <1>2, <1>3, <1>4, <1>5, <1>6, <1>7, <1>8, <1>9, <1>10, <1>11,
     <1>12, <1>13, <1>14, <1>15, <1>16, <1>17, <1>18, <1>19, <1>20, <1>21,
     <1>22, <1>23, <1>24
  DEF Next, CreateStep, UseStep, StopStep, DeleterStep

(* A registered entry has its scripts and its native server.               *)
LEMMA RegisteredStep ==
    ASSUME TypeOK, CallShape, Unserved, ServerUseExclusive,
           HandsLive, RegisteredLive,
           [Next]_vars
    PROVE  RegisteredLive'
<1>d. /\ DOMAIN pc = Callers /\ DOMAIN op = Callers
      /\ DOMAIN native = Entries /\ DOMAIN serving = Workers
      /\ Workers \subseteq Callers /\ sreg \subseteq Entries
  BY Domains
<1> SUFFICES ASSUME ~twice', NEW e0 \in sreg'
    PROVE  (Alive(e0) /\ native[e0] # "none")'
  BY DEF RegisteredLive, Alive
<1> USE DEF At, Go, Done, Alive, RegisteredLive
<1>1. ASSUME NEW c \in Callers, CreateStarts(c)
      PROVE  (Alive(e0) /\ native[e0] # "none")'
  BY <1>1, <1>d DEF CreateStarts
<1>2. ASSUME NEW c \in Callers, CreateFails(c)
      PROVE  (Alive(e0) /\ native[e0] # "none")'
  <2>1. ~Found(sreg, op[c].entry) /\ op[c].entry \in Entries
    BY <1>2, Apart DEF CreateFails
  <2> QED
    BY <1>2, <1>d, <2>1 DEF CreateFails, Found
<1>3. ASSUME NEW c \in Callers, CreateRegisters(c)
      PROVE  (Alive(e0) /\ native[e0] # "none")'
  <2>1. Alive(op[c].entry) /\ native[op[c].entry] # "none"
    BY <1>3 DEF CreateRegisters, Looks, Put, HandsLive
  <2> QED
    BY <1>3, <1>d, <2>1 DEF CreateRegisters, Looks, Put
<1>4. ASSUME NEW c \in Callers, Use(c)
      PROVE  (Alive(e0) /\ native[e0] # "none")'
  BY <1>4, <1>d DEF Use, OnLive, Using, Put
<1>5. ASSUME NEW c \in Callers, UseDangling(c)
      PROVE  (Alive(e0) /\ native[e0] # "none")'
  BY <1>5, <1>d DEF UseDangling, Using
<1>6. ASSUME NEW c \in Callers, PortFails(c)
      PROVE  (Alive(e0) /\ native[e0] # "none")'
  BY <1>6, <1>d DEF PortFails, OnLive, Using, Put
<1>7. ASSUME NEW c \in Callers, PortPutsAgain(c)
      PROVE  (Alive(e0) /\ native[e0] # "none")'
  BY <1>7, <1>d DEF PortPutsAgain, Put
<1>8. ASSUME NEW c \in Callers, StopWaits(c)
      PROVE  (Alive(e0) /\ native[e0] # "none")'
  BY <1>8, <1>d DEF StopWaits, OnLive, Using
<1>9. ASSUME NEW c \in Callers, StopWorks(c)
      PROVE  (Alive(e0) /\ native[e0] # "none")'
  <2>1. ~Found(sreg, op[c].entry) /\ op[c].entry \in Entries
    BY <1>9, Apart DEF StopWorks, OnLive, Using, Idle
  <2> QED
    BY <1>9, <1>d, <2>1 DEF StopWorks, OnLive, Using, Idle, Found
<1>10. ASSUME NEW c \in Callers, StopFails(c)
      PROVE  (Alive(e0) /\ native[e0] # "none")'
  BY <1>10, <1>d DEF StopFails, OnLive, Using, Put
<1>11. ASSUME NEW c \in Callers, StopDeletes(c)
      PROVE  (Alive(e0) /\ native[e0] # "none")'
  <2>1. ~Found(sreg, op[c].entry) /\ op[c].entry \in Entries
    BY <1>11, Apart DEF StopDeletes
  <2> QED
    BY <1>11, <1>d, <2>1 DEF StopDeletes, Found
<1>12. ASSUME NEW c \in Callers, LooksTooLate(c)
      PROVE  (Alive(e0) /\ native[e0] # "none")'
  BY <1>12, <1>d DEF LooksTooLate
<1>13. ASSUME NEW c \in Callers, NEW e \in Entries, Create(c, e)
      PROVE  (Alive(e0) /\ native[e0] # "none")'
  BY <1>13, <1>d DEF Create
<1>14. ASSUME NEW c \in Callers, NEW e \in Entries, BeginInvalid(c, e)
      PROVE  (Alive(e0) /\ native[e0] # "none")'
  BY <1>14, <1>d DEF BeginInvalid, Looks
<1>15. ASSUME NEW c \in Callers, NEW e \in Entries, BeginDangling(c, e)
      PROVE  (Alive(e0) /\ native[e0] # "none")'
  BY <1>15, <1>d DEF BeginDangling, Looks, Found
<1>16. ASSUME NEW c \in Callers, NEW e \in Entries,
      NEW name \in Uses \cup {"server_stop"}, Begin(c, e, name)
      PROVE  (Alive(e0) /\ native[e0] # "none")'
  BY <1>16, <1>d DEF Begin, Looks, Found, Remove
<1>17. ASSUME NEW w \in Workers, Served(w)
      PROVE  (Alive(e0) /\ native[e0] # "none")'
  BY <1>17, <1>d DEF Served
<1>18. ASSUME NEW w \in Workers, NEW e \in Entries, Serve(w, e)
      PROVE  (Alive(e0) /\ native[e0] # "none")'
  BY <1>18, <1>d DEF Serve
<1>19. ASSUME ExitStarts
      PROVE  (Alive(e0) /\ native[e0] # "none")'
  BY <1>19, <1>d DEF ExitStarts
<1>20. ASSUME NEW e \in Entries, DeleterWaits(e)
      PROVE  (Alive(e0) /\ native[e0] # "none")'
  BY <1>20, <1>d DEF DeleterWaits, Deleting
<1>21. ASSUME NEW e \in Entries, DeleterWorks(e)
      PROVE  (Alive(e0) /\ native[e0] # "none")'
  BY <1>21, <1>d DEF DeleterWorks, Deleting, Idle, Remove
<1>22. ASSUME NEW e \in Entries, DeleterStopFails(e)
      PROVE  (Alive(e0) /\ native[e0] # "none")'
  BY <1>22, <1>d DEF DeleterStopFails, Deleting, Remove
<1>23. ASSUME NEW e \in Entries, DeleterDangling(e)
      PROVE  (Alive(e0) /\ native[e0] # "none")'
  BY <1>23, <1>d DEF DeleterDangling, Deleting
<1>24. CASE UNCHANGED vars
  BY <1>24 DEF vars
<1> QED
  BY <1>1, <1>2, <1>3, <1>4, <1>5, <1>6, <1>7, <1>8, <1>9, <1>10, <1>11,
     <1>12, <1>13, <1>14, <1>15, <1>16, <1>17, <1>18, <1>19, <1>20, <1>21,
     <1>22, <1>23, <1>24
  DEF Next, CreateStep, UseStep, StopStep, DeleterStep

(* A native server has its entry, deleted after it only.                   *)
LEMMA NativeStep ==
    ASSUME TypeOK, CallShape, Unserved, ServerUseExclusive,
           HandsLive, RegisteredLive, NativeHasScripts,
           [Next]_vars
    PROVE  NativeHasScripts'
<1>d. /\ DOMAIN pc = Callers /\ DOMAIN op = Callers
      /\ DOMAIN native = Entries /\ DOMAIN serving = Workers
      /\ Workers \subseteq Callers /\ sreg \subseteq Entries
  BY Domains
<1> SUFFICES ASSUME ~twice', exit' # "stop failed", NEW e0 \in Entries,
                    native'[e0] # "none"
    PROVE  Alive(e0)'
  BY DEF NativeHasScripts
<1> USE DEF At, Go, Done, Alive, NativeHasScripts
<1>1. ASSUME NEW c \in Callers, CreateStarts(c)
      PROVE  Alive(e0)'
  <2>1. Alive(op[c].entry)
    BY <1>1 DEF CreateStarts, CallShape, Unserved, Outside
  <2> QED
    BY <1>1, <1>d, <2>1 DEF CreateStarts
<1>2. ASSUME NEW c \in Callers, CreateFails(c)
      PROVE  Alive(e0)'
  <2>1. native[op[c].entry] = "none"
    BY <1>2 DEF CreateFails, CallShape, Unserved, Outside
  <2> QED
    BY <1>2, <1>d, <2>1 DEF CreateFails
<1>3. ASSUME NEW c \in Callers, CreateRegisters(c)
      PROVE  Alive(e0)'
  BY <1>3, <1>d DEF CreateRegisters, Looks, Put
<1>4. ASSUME NEW c \in Callers, Use(c)
      PROVE  Alive(e0)'
  BY <1>4, <1>d DEF Use, OnLive, Using, Put
<1>5. ASSUME NEW c \in Callers, UseDangling(c)
      PROVE  Alive(e0)'
  BY <1>5, <1>d DEF UseDangling, Using
<1>6. ASSUME NEW c \in Callers, PortFails(c)
      PROVE  Alive(e0)'
  BY <1>6, <1>d DEF PortFails, OnLive, Using, Put
<1>7. ASSUME NEW c \in Callers, PortPutsAgain(c)
      PROVE  Alive(e0)'
  BY <1>7, <1>d DEF PortPutsAgain, Put
<1>8. ASSUME NEW c \in Callers, StopWaits(c)
      PROVE  Alive(e0)'
  BY <1>8, <1>d DEF StopWaits, OnLive, Using
<1>9. ASSUME NEW c \in Callers, StopWorks(c)
      PROVE  Alive(e0)'
  BY <1>9, <1>d DEF StopWorks, OnLive, Using, Idle
<1>10. ASSUME NEW c \in Callers, StopFails(c)
      PROVE  Alive(e0)'
  BY <1>10, <1>d DEF StopFails, OnLive, Using, Put
<1>11. ASSUME NEW c \in Callers, StopDeletes(c)
      PROVE  Alive(e0)'
  <2>1. native[op[c].entry] = "none"
    BY <1>11 DEF StopDeletes, CallShape, Unserved, Outside
  <2> QED
    BY <1>11, <1>d, <2>1 DEF StopDeletes
<1>12. ASSUME NEW c \in Callers, LooksTooLate(c)
      PROVE  Alive(e0)'
  BY <1>12, <1>d DEF LooksTooLate
<1>13. ASSUME NEW c \in Callers, NEW e \in Entries, Create(c, e)
      PROVE  Alive(e0)'
  BY <1>13, <1>d DEF Create
<1>14. ASSUME NEW c \in Callers, NEW e \in Entries, BeginInvalid(c, e)
      PROVE  Alive(e0)'
  BY <1>14, <1>d DEF BeginInvalid, Looks
<1>15. ASSUME NEW c \in Callers, NEW e \in Entries, BeginDangling(c, e)
      PROVE  Alive(e0)'
  BY <1>15, <1>d DEF BeginDangling, Looks, Found
<1>16. ASSUME NEW c \in Callers, NEW e \in Entries,
      NEW name \in Uses \cup {"server_stop"}, Begin(c, e, name)
      PROVE  Alive(e0)'
  BY <1>16, <1>d DEF Begin, Looks, Found, Remove
<1>17. ASSUME NEW w \in Workers, Served(w)
      PROVE  Alive(e0)'
  BY <1>17, <1>d DEF Served
<1>18. ASSUME NEW w \in Workers, NEW e \in Entries, Serve(w, e)
      PROVE  Alive(e0)'
  BY <1>18, <1>d DEF Serve
<1>19. ASSUME ExitStarts
      PROVE  Alive(e0)'
  BY <1>19, <1>d DEF ExitStarts
<1>20. ASSUME NEW e \in Entries, DeleterWaits(e)
      PROVE  Alive(e0)'
  BY <1>20, <1>d DEF DeleterWaits, Deleting
<1>21. ASSUME NEW e \in Entries, DeleterWorks(e)
      PROVE  Alive(e0)'
  BY <1>21, <1>d DEF DeleterWorks, Deleting, Idle, Remove
<1>22. ASSUME NEW e \in Entries, DeleterStopFails(e)
      PROVE  Alive(e0)'
  BY <1>22, <1>d DEF DeleterStopFails, Deleting, Remove
<1>23. ASSUME NEW e \in Entries, DeleterDangling(e)
      PROVE  Alive(e0)'
  BY <1>23, <1>d DEF DeleterDangling, Deleting
<1>24. CASE UNCHANGED vars
  BY <1>24 DEF vars
<1> QED
  BY <1>1, <1>2, <1>3, <1>4, <1>5, <1>6, <1>7, <1>8, <1>9, <1>10, <1>11,
     <1>12, <1>13, <1>14, <1>15, <1>16, <1>17, <1>18, <1>19, <1>20, <1>21,
     <1>22, <1>23, <1>24
  DEF Next, CreateStep, UseStep, StopStep, DeleterStep

(* A handler's server and scripts outlive the handler.                     *)
LEMMA HandlerStep ==
    ASSUME TypeOK, CallShape, Unserved, ServerUseExclusive,
           HandsLive, RegisteredLive, NativeHasScripts,
           HandlerScriptsLive,
           [Next]_vars
    PROVE  HandlerScriptsLive'
<1>d. /\ DOMAIN pc = Callers /\ DOMAIN op = Callers
      /\ DOMAIN native = Entries /\ DOMAIN serving = Workers
      /\ Workers \subseteq Callers /\ sreg \subseteq Entries
  BY Domains
<1> SUFFICES ASSUME ~twice', exit' # "stop failed", NEW w0 \in Workers,
                    serving'[w0] # None
    PROVE  (Alive(serving[w0]) /\ native[serving[w0]] # "none")'
  BY DEF HandlerScriptsLive, Alive
<1>s. serving[w0] # None => serving[w0] \in Entries
  BY DEF TypeOK
<1> USE DEF At, Go, Done, Alive, HandlerScriptsLive
<1>1. ASSUME NEW c \in Callers, CreateStarts(c)
      PROVE  (Alive(serving[w0]) /\ native[serving[w0]] # "none")'
  BY <1>1, <1>d, <1>s DEF CreateStarts
<1>2. ASSUME NEW c \in Callers, CreateFails(c)
      PROVE  (Alive(serving[w0]) /\ native[serving[w0]] # "none")'
  <2>1. native[op[c].entry] = "none"
    BY <1>2 DEF CreateFails, CallShape, Unserved, Outside
  <2> QED
    BY <1>2, <1>d, <2>1 DEF CreateFails
<1>3. ASSUME NEW c \in Callers, CreateRegisters(c)
      PROVE  (Alive(serving[w0]) /\ native[serving[w0]] # "none")'
  BY <1>3, <1>d, <1>s DEF CreateRegisters, Looks, Put
<1>4. ASSUME NEW c \in Callers, Use(c)
      PROVE  (Alive(serving[w0]) /\ native[serving[w0]] # "none")'
  BY <1>4, <1>d, <1>s DEF Use, OnLive, Using, Put
<1>5. ASSUME NEW c \in Callers, UseDangling(c)
      PROVE  (Alive(serving[w0]) /\ native[serving[w0]] # "none")'
  BY <1>5, <1>d, <1>s DEF UseDangling, Using
<1>6. ASSUME NEW c \in Callers, PortFails(c)
      PROVE  (Alive(serving[w0]) /\ native[serving[w0]] # "none")'
  BY <1>6, <1>d, <1>s DEF PortFails, OnLive, Using, Put
<1>7. ASSUME NEW c \in Callers, PortPutsAgain(c)
      PROVE  (Alive(serving[w0]) /\ native[serving[w0]] # "none")'
  BY <1>7, <1>d, <1>s DEF PortPutsAgain, Put
<1>8. ASSUME NEW c \in Callers, StopWaits(c)
      PROVE  (Alive(serving[w0]) /\ native[serving[w0]] # "none")'
  BY <1>8, <1>d, <1>s DEF StopWaits, OnLive, Using
<1>9. ASSUME NEW c \in Callers, StopWorks(c)
      PROVE  (Alive(serving[w0]) /\ native[serving[w0]] # "none")'
  BY <1>9, <1>d, <1>s DEF StopWorks, OnLive, Using, Idle
<1>10. ASSUME NEW c \in Callers, StopFails(c)
      PROVE  (Alive(serving[w0]) /\ native[serving[w0]] # "none")'
  BY <1>10, <1>d, <1>s DEF StopFails, OnLive, Using, Put
<1>11. ASSUME NEW c \in Callers, StopDeletes(c)
      PROVE  (Alive(serving[w0]) /\ native[serving[w0]] # "none")'
  <2>1. native[op[c].entry] = "none"
    BY <1>11 DEF StopDeletes, CallShape, Unserved, Outside
  <2> QED
    BY <1>11, <1>d, <2>1 DEF StopDeletes
<1>12. ASSUME NEW c \in Callers, LooksTooLate(c)
      PROVE  (Alive(serving[w0]) /\ native[serving[w0]] # "none")'
  BY <1>12, <1>d, <1>s DEF LooksTooLate
<1>13. ASSUME NEW c \in Callers, NEW e \in Entries, Create(c, e)
      PROVE  (Alive(serving[w0]) /\ native[serving[w0]] # "none")'
  BY <1>13, <1>d, <1>s DEF Create
<1>14. ASSUME NEW c \in Callers, NEW e \in Entries, BeginInvalid(c, e)
      PROVE  (Alive(serving[w0]) /\ native[serving[w0]] # "none")'
  BY <1>14, <1>d, <1>s DEF BeginInvalid, Looks
<1>15. ASSUME NEW c \in Callers, NEW e \in Entries, BeginDangling(c, e)
      PROVE  (Alive(serving[w0]) /\ native[serving[w0]] # "none")'
  BY <1>15, <1>d, <1>s DEF BeginDangling, Looks, Found
<1>16. ASSUME NEW c \in Callers, NEW e \in Entries,
      NEW name \in Uses \cup {"server_stop"}, Begin(c, e, name)
      PROVE  (Alive(serving[w0]) /\ native[serving[w0]] # "none")'
  BY <1>16, <1>d, <1>s DEF Begin, Looks, Found, Remove
<1>17. ASSUME NEW w \in Workers, Served(w)
      PROVE  (Alive(serving[w0]) /\ native[serving[w0]] # "none")'
  BY <1>17, <1>d, <1>s DEF Served
<1>18. ASSUME NEW w \in Workers, NEW e \in Entries, Serve(w, e)
      PROVE  (Alive(serving[w0]) /\ native[serving[w0]] # "none")'
  BY <1>18, <1>d, <1>s DEF Serve, NativeHasScripts
<1>19. ASSUME ExitStarts
      PROVE  (Alive(serving[w0]) /\ native[serving[w0]] # "none")'
  BY <1>19, <1>d, <1>s DEF ExitStarts
<1>20. ASSUME NEW e \in Entries, DeleterWaits(e)
      PROVE  (Alive(serving[w0]) /\ native[serving[w0]] # "none")'
  BY <1>20, <1>d, <1>s DEF DeleterWaits, Deleting
<1>21. ASSUME NEW e \in Entries, DeleterWorks(e)
      PROVE  (Alive(serving[w0]) /\ native[serving[w0]] # "none")'
  BY <1>21, <1>d, <1>s DEF DeleterWorks, Deleting, Idle, Remove
<1>22. ASSUME NEW e \in Entries, DeleterStopFails(e)
      PROVE  (Alive(serving[w0]) /\ native[serving[w0]] # "none")'
  BY <1>22, <1>d, <1>s DEF DeleterStopFails, Deleting, Remove
<1>23. ASSUME NEW e \in Entries, DeleterDangling(e)
      PROVE  (Alive(serving[w0]) /\ native[serving[w0]] # "none")'
  BY <1>23, <1>d, <1>s DEF DeleterDangling, Deleting
<1>24. CASE UNCHANGED vars
  BY <1>24 DEF vars
<1> QED
  BY <1>1, <1>2, <1>3, <1>4, <1>5, <1>6, <1>7, <1>8, <1>9, <1>10, <1>11,
     <1>12, <1>13, <1>14, <1>15, <1>16, <1>17, <1>18, <1>19, <1>20, <1>21,
     <1>22, <1>23, <1>24
  DEF Next, CreateStep, UseStep, StopStep, DeleterStep

(* Nothing dangles before an entry is put back twice.                      *)
LEMMA DanglesStep ==
    ASSUME TypeOK, CallShape, HandsLive, RegisteredLive,
           OnlyDoublePutDangles,
           [Next]_vars
    PROVE  OnlyDoublePutDangles'
<1> USE DEF At, Go, Done, Alive, OnlyDoublePutDangles, Fault, NoFault
<1>1. ASSUME NEW c \in Callers, CreateStarts(c)
      PROVE  OnlyDoublePutDangles'
  BY <1>1 DEF CreateStarts
<1>2. ASSUME NEW c \in Callers, CreateFails(c)
      PROVE  OnlyDoublePutDangles'
  BY <1>2 DEF CreateFails
<1>3. ASSUME NEW c \in Callers, CreateRegisters(c)
      PROVE  OnlyDoublePutDangles'
  BY <1>3 DEF CreateRegisters, Looks, Put
<1>4. ASSUME NEW c \in Callers, Use(c)
      PROVE  OnlyDoublePutDangles'
  BY <1>4 DEF Use, OnLive, Using, Put
<1>5. ASSUME NEW c \in Callers, UseDangling(c)
      PROVE  OnlyDoublePutDangles'
  BY <1>5 DEF UseDangling, Using, HandsLive
<1>6. ASSUME NEW c \in Callers, PortFails(c)
      PROVE  OnlyDoublePutDangles'
  BY <1>6 DEF PortFails, OnLive, Using, Put
<1>7. ASSUME NEW c \in Callers, PortPutsAgain(c)
      PROVE  OnlyDoublePutDangles'
  BY <1>7 DEF PortPutsAgain, Put
<1>8. ASSUME NEW c \in Callers, StopWaits(c)
      PROVE  OnlyDoublePutDangles'
  BY <1>8 DEF StopWaits, OnLive, Using
<1>9. ASSUME NEW c \in Callers, StopWorks(c)
      PROVE  OnlyDoublePutDangles'
  BY <1>9 DEF StopWorks, OnLive, Using, Idle
<1>10. ASSUME NEW c \in Callers, StopFails(c)
      PROVE  OnlyDoublePutDangles'
  BY <1>10 DEF StopFails, OnLive, Using, Put
<1>11. ASSUME NEW c \in Callers, StopDeletes(c)
      PROVE  OnlyDoublePutDangles'
  BY <1>11 DEF StopDeletes
<1>12. ASSUME NEW c \in Callers, LooksTooLate(c)
      PROVE  OnlyDoublePutDangles'
  BY <1>12 DEF LooksTooLate
<1>13. ASSUME NEW c \in Callers, NEW e \in Entries, Create(c, e)
      PROVE  OnlyDoublePutDangles'
  BY <1>13 DEF Create
<1>14. ASSUME NEW c \in Callers, NEW e \in Entries, BeginInvalid(c, e)
      PROVE  OnlyDoublePutDangles'
  BY <1>14 DEF BeginInvalid, Looks
<1>15. ASSUME NEW c \in Callers, NEW e \in Entries, BeginDangling(c, e)
      PROVE  OnlyDoublePutDangles'
  BY <1>15 DEF BeginDangling, Looks, Found, RegisteredLive
<1>16. ASSUME NEW c \in Callers, NEW e \in Entries,
      NEW name \in Uses \cup {"server_stop"}, Begin(c, e, name)
      PROVE  OnlyDoublePutDangles'
  BY <1>16 DEF Begin, Looks, Found, Remove
<1>17. ASSUME NEW w \in Workers, Served(w)
      PROVE  OnlyDoublePutDangles'
  BY <1>17 DEF Served
<1>18. ASSUME NEW w \in Workers, NEW e \in Entries, Serve(w, e)
      PROVE  OnlyDoublePutDangles'
  BY <1>18 DEF Serve
<1>19. ASSUME ExitStarts
      PROVE  OnlyDoublePutDangles'
  BY <1>19 DEF ExitStarts
<1>20. ASSUME NEW e \in Entries, DeleterWaits(e)
      PROVE  OnlyDoublePutDangles'
  BY <1>20 DEF DeleterWaits, Deleting
<1>21. ASSUME NEW e \in Entries, DeleterWorks(e)
      PROVE  OnlyDoublePutDangles'
  BY <1>21 DEF DeleterWorks, Deleting, Idle, Remove
<1>22. ASSUME NEW e \in Entries, DeleterStopFails(e)
      PROVE  OnlyDoublePutDangles'
  BY <1>22 DEF DeleterStopFails, Deleting, Remove
<1>23. ASSUME NEW e \in Entries, DeleterDangling(e)
      PROVE  OnlyDoublePutDangles'
  BY <1>23 DEF DeleterDangling, Deleting, RegisteredLive, Found
<1>24. CASE UNCHANGED vars
  BY <1>24 DEF vars
<1> QED
  BY <1>1, <1>2, <1>3, <1>4, <1>5, <1>6, <1>7, <1>8, <1>9, <1>10, <1>11,
     <1>12, <1>13, <1>14, <1>15, <1>16, <1>17, <1>18, <1>19, <1>20, <1>21,
     <1>22, <1>23, <1>24
  DEF Next, CreateStep, UseStep, StopStep, DeleterStep

(* No step loses the last way to a running server.                         *)
LEMMA LeakStep ==
    ASSUME TypeOK, CallShape, Unserved, NoServerLeak,
           [Next]_vars
    PROVE  NoServerLeak'
<1> DEFINE Holds(z, e) == op[z].entry = e /\ pc[z] # "put again"
<1>d. /\ DOMAIN pc = Callers /\ DOMAIN op = Callers
      /\ DOMAIN native = Entries /\ DOMAIN serving = Workers
      /\ Workers \subseteq Callers /\ sreg \subseteq Entries
  BY Domains
<1> SUFFICES ASSUME fault' = NoFault, exit' # "stop failed", NEW e0 \in Entries,
                    native'[e0] # "none"
    PROVE  (Found(sreg, e0) \/ \E z \in Callers : Holds(z, e0))'
  BY DEF NoServerLeak, NoFault, InHands
<1>l. fault = NoFault /\ exit # "stop failed" /\ native[e0] # "none"
      => Found(sreg, e0) \/ \E z \in Callers : Holds(z, e0)
  BY DEF NoServerLeak, InHands
<1> USE DEF At, Go, Done, Alive, NoFault
<1>1. ASSUME NEW c \in Callers, CreateStarts(c)
      PROVE  (Found(sreg, e0) \/ \E z \in Callers : Holds(z, e0))'
  <2>1. CASE op[c].entry = e0
    BY <1>1, <1>d, <1>l, <2>1 DEF CreateStarts
  <2>2. CASE op[c].entry # e0
    BY <1>1, <1>d, <1>l, <2>2 DEF CreateStarts
  <2> QED
    BY <2>1, <2>2
<1>2. ASSUME NEW c \in Callers, CreateFails(c)
      PROVE  (Found(sreg, e0) \/ \E z \in Callers : Holds(z, e0))'
  <2>1. native[op[c].entry] = "none"
    BY <1>2 DEF CreateFails, CallShape, Unserved, Outside
  <2> QED
    BY <1>2, <1>d, <1>l, <2>1 DEF CreateFails
<1>3. ASSUME NEW c \in Callers, CreateRegisters(c)
      PROVE  (Found(sreg, e0) \/ \E z \in Callers : Holds(z, e0))'
  <2>1. CASE op[c].entry = e0
    BY <1>3, <1>d, <1>l, <2>1 DEF CreateRegisters, Looks, Put, Found
  <2>2. CASE op[c].entry # e0
    BY <1>3, <1>d, <1>l, <2>2 DEF CreateRegisters, Looks, Put, Found
  <2> QED
    BY <2>1, <2>2
<1>4. ASSUME NEW c \in Callers, Use(c)
      PROVE  (Found(sreg, e0) \/ \E z \in Callers : Holds(z, e0))'
  <2>1. CASE op[c].entry = e0
    BY <1>4, <1>d, <1>l, <2>1 DEF Use, OnLive, Using, Put, Found
  <2>2. CASE op[c].entry # e0
    BY <1>4, <1>d, <1>l, <2>2 DEF Use, OnLive, Using, Put, Found
  <2> QED
    BY <2>1, <2>2
<1>5. ASSUME NEW c \in Callers, UseDangling(c)
      PROVE  (Found(sreg, e0) \/ \E z \in Callers : Holds(z, e0))'
  BY <1>5, <1>d, <1>l DEF UseDangling, Using
<1>6. ASSUME NEW c \in Callers, PortFails(c)
      PROVE  (Found(sreg, e0) \/ \E z \in Callers : Holds(z, e0))'
  <2>1. CASE op[c].entry = e0
    BY <1>6, <1>d, <1>l, <2>1 DEF PortFails, OnLive, Using, Put, Found
  <2>2. CASE op[c].entry # e0
    BY <1>6, <1>d, <1>l, <2>2 DEF PortFails, OnLive, Using, Put, Found
  <2> QED
    BY <2>1, <2>2
<1>7. ASSUME NEW c \in Callers, PortPutsAgain(c)
      PROVE  (Found(sreg, e0) \/ \E z \in Callers : Holds(z, e0))'
  <2>1. CASE op[c].entry = e0
    BY <1>7, <1>d, <1>l, <2>1 DEF PortPutsAgain, Put, Found
  <2>2. CASE op[c].entry # e0
    BY <1>7, <1>d, <1>l, <2>2 DEF PortPutsAgain, Put, Found
  <2> QED
    BY <2>1, <2>2
<1>8. ASSUME NEW c \in Callers, StopWaits(c)
      PROVE  (Found(sreg, e0) \/ \E z \in Callers : Holds(z, e0))'
  <2>1. CASE op[c].entry = e0
    BY <1>8, <1>d, <1>l, <2>1 DEF StopWaits, OnLive, Using
  <2>2. CASE op[c].entry # e0
    BY <1>8, <1>d, <1>l, <2>2 DEF StopWaits, OnLive, Using
  <2> QED
    BY <2>1, <2>2
<1>9. ASSUME NEW c \in Callers, StopWorks(c)
      PROVE  (Found(sreg, e0) \/ \E z \in Callers : Holds(z, e0))'
  BY <1>9, <1>d, <1>l DEF StopWorks, OnLive, Using, Idle
<1>10. ASSUME NEW c \in Callers, StopFails(c)
      PROVE  (Found(sreg, e0) \/ \E z \in Callers : Holds(z, e0))'
  <2>1. CASE op[c].entry = e0
    BY <1>10, <1>d, <1>l, <2>1 DEF StopFails, OnLive, Using, Put, Found
  <2>2. CASE op[c].entry # e0
    BY <1>10, <1>d, <1>l, <2>2 DEF StopFails, OnLive, Using, Put, Found
  <2> QED
    BY <2>1, <2>2
<1>11. ASSUME NEW c \in Callers, StopDeletes(c)
      PROVE  (Found(sreg, e0) \/ \E z \in Callers : Holds(z, e0))'
  <2>1. native[op[c].entry] = "none"
    BY <1>11 DEF StopDeletes, CallShape, Unserved, Outside
  <2> QED
    BY <1>11, <1>d, <1>l, <2>1 DEF StopDeletes
<1>12. ASSUME NEW c \in Callers, LooksTooLate(c)
      PROVE  (Found(sreg, e0) \/ \E z \in Callers : Holds(z, e0))'
  BY <1>12, <1>d, <1>l DEF LooksTooLate
<1>13. ASSUME NEW c \in Callers, NEW e \in Entries, Create(c, e)
      PROVE  (Found(sreg, e0) \/ \E z \in Callers : Holds(z, e0))'
  <2>2. op[c].entry # e0
    BY <1>13, EmptyHands, EntryAssumption DEF Create
  <2> QED
    BY <1>13, <1>d, <1>l, <2>2 DEF Create
<1>14. ASSUME NEW c \in Callers, NEW e \in Entries, BeginInvalid(c, e)
      PROVE  (Found(sreg, e0) \/ \E z \in Callers : Holds(z, e0))'
  BY <1>14, <1>d, <1>l DEF BeginInvalid, Looks
<1>15. ASSUME NEW c \in Callers, NEW e \in Entries, BeginDangling(c, e)
      PROVE  (Found(sreg, e0) \/ \E z \in Callers : Holds(z, e0))'
  BY <1>15, <1>d, <1>l DEF BeginDangling, Looks, Found
<1>16. ASSUME NEW c \in Callers, NEW e \in Entries,
      NEW name \in Uses \cup {"server_stop"}, Begin(c, e, name)
      PROVE  (Found(sreg, e0) \/ \E z \in Callers : Holds(z, e0))'
  <2>2. op[c].entry # e0
    BY <1>16, EmptyHands, EntryAssumption DEF Begin, Looks, Found, Remove
  <2> QED
    BY <1>16, <1>d, <1>l, <2>2 DEF Begin, Looks, Found, Remove
<1>17. ASSUME NEW w \in Workers, Served(w)
      PROVE  (Found(sreg, e0) \/ \E z \in Callers : Holds(z, e0))'
  BY <1>17, <1>d, <1>l DEF Served
<1>18. ASSUME NEW w \in Workers, NEW e \in Entries, Serve(w, e)
      PROVE  (Found(sreg, e0) \/ \E z \in Callers : Holds(z, e0))'
  BY <1>18, <1>d, <1>l DEF Serve
<1>19. ASSUME ExitStarts
      PROVE  (Found(sreg, e0) \/ \E z \in Callers : Holds(z, e0))'
  BY <1>19, <1>d, <1>l DEF ExitStarts
<1>20. ASSUME NEW e \in Entries, DeleterWaits(e)
      PROVE  (Found(sreg, e0) \/ \E z \in Callers : Holds(z, e0))'
  BY <1>20, <1>d, <1>l DEF DeleterWaits, Deleting
<1>21. ASSUME NEW e \in Entries, DeleterWorks(e)
      PROVE  (Found(sreg, e0) \/ \E z \in Callers : Holds(z, e0))'
  BY <1>21, <1>d, <1>l DEF DeleterWorks, Deleting, Idle, Remove, Found
<1>22. ASSUME NEW e \in Entries, DeleterStopFails(e)
      PROVE  (Found(sreg, e0) \/ \E z \in Callers : Holds(z, e0))'
  BY <1>22, <1>d, <1>l DEF DeleterStopFails, Deleting, Remove, Found
<1>23. ASSUME NEW e \in Entries, DeleterDangling(e)
      PROVE  (Found(sreg, e0) \/ \E z \in Callers : Holds(z, e0))'
  BY <1>23, <1>d, <1>l DEF DeleterDangling, Deleting
<1>24. CASE UNCHANGED vars
  BY <1>24, <1>l DEF vars
<1> QED
  BY <1>1, <1>2, <1>3, <1>4, <1>5, <1>6, <1>7, <1>8, <1>9, <1>10, <1>11,
     <1>12, <1>13, <1>14, <1>15, <1>16, <1>17, <1>18, <1>19, <1>20, <1>21,
     <1>22, <1>23, <1>24
  DEF Next, CreateStep, UseStep, StopStep, DeleterStep

-----------------------------------------------------------------------------
(* The strengthened invariant holds at first.                              *)
LEMMA IInit == Init => IInv
<1> SUFFICES ASSUME Init PROVE IInv
  OBVIOUS
<1> USE DEF Init, Empty, NoFault, Fault, NoOp
<1>1. TypeOK
  BY DEF TypeOK
<1>2. CallShape /\ Unserved /\ HandsLive /\ RegisteredLive
  BY DEF CallShape, Unserved, Outside, HandsLive, RegisteredLive
<1>3. ServerUseExclusive
  <2>1. \A c \in Callers : op[c].entry = None
    OBVIOUS
  <2> QED
    BY <2>1, EntryAssumption DEF ServerUseExclusive, InHands
<1>4. NativeHasScripts /\ HandlerScriptsLive /\ OnlyDoublePutDangles /\ NoServerLeak
  BY DEF NativeHasScripts, HandlerScriptsLive, OnlyDoublePutDangles, NoServerLeak
<1> QED
  BY <1>1, <1>2, <1>3, <1>4 DEF IInv

(* Every step keeps the strengthened invariant.                            *)
LEMMA IStep == IInv /\ [Next]_vars => IInv'
  BY TypeStep, ShapeStep, UnservedStep, ExclusiveStep, HandsStep, RegisteredStep,
     NativeStep, HandlerStep, DanglesStep, LeakStep
  DEF IInv

(* Every reachable state satisfies it.                                     *)
LEMMA Reachable == Spec => []IInv
  BY IInit, IStep, PTL DEF Spec

(* The registry, the entries in the hands of calls and the faults keep to  *)
(* their types; in particular nothing but entries is ever registered.      *)
THEOREM ServerTypeCorrect == Spec => []TypeOK
<1>1. IInv => TypeOK
  BY DEF IInv
<1> QED
  BY <1>1, Reachable, PTL

(* Each entry is used by one call at a time, whatever calls stop, use and  *)
(* create servers, until a get_tcp_port has failed.                        *)
THEOREM UseIsExclusive == Spec => []ServerUseExclusive
<1>1. IInv => ServerUseExclusive
  BY DEF IInv
<1> QED
  BY <1>1, Reachable, PTL

(* A handler's callback script is alive while the handler runs, while the  *)
(* server is made, stopped by a call, or stopped at exit.                  *)
THEOREM HandlersHaveScripts == Spec => []HandlerScriptsLive
<1>1. IInv => HandlerScriptsLive
  BY DEF IInv
<1> QED
  BY <1>1, Reachable, PTL

(* Only the double put of get_tcp_port makes a call or the deleter read a  *)
(* deleted entry.                                                          *)
THEOREM DanglingNeedsDoublePut == Spec => []OnlyDoublePutDangles
<1>1. IInv => OnlyDoublePutDangles
  BY DEF IInv
<1> QED
  BY <1>1, Reachable, PTL

(* A native server is reachable from the registry or from a call as long   *)
(* as it runs, even after a double put.                                    *)
THEOREM RunningServersReachable == Spec => []NoServerLeak
<1>1. IInv => NoServerLeak
  BY DEF IInv
<1> QED
  BY <1>1, Reachable, PTL
=============================================================================
