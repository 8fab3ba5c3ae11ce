---------------------------- MODULE MustacheProofs ----------------------------
(***************************************************************************)
(* Proofs about the template cache, for every number of threads, templates *)
(* and versions of a file: its type invariant, that a rendered text stays  *)
(* as it is, and that the cache implements the write-once store.           *)
(***************************************************************************)
EXTENDS MustacheCache, TLAPS

(* At first nothing is cached and nobody holds the mutex.                  *)
LEMMA TypeInit == Init => TypeOK
  BY VersionAssumption, NoneAssumption DEF Init, TypeOK, Versions, Texts

(* Every step keeps the types and the mutex with its holder.               *)
LEMMA TypeStep == TypeOK /\ [Next]_vars => TypeOK'
<1> SUFFICES ASSUME TypeOK, [Next]_vars PROVE TypeOK'
  OBVIOUS
<1> USE DEF Go, Versions, Texts
<1>1. ASSUME NEW p \in Paths, FileChanges(p) PROVE TypeOK'
  BY <1>1, VersionAssumption DEF FileChanges, TypeOK
<1>2. ASSUME NEW t \in Threads, Lock(t) PROVE TypeOK'
  BY <1>2, NoneAssumption DEF Lock, TypeOK
<1>3. ASSUME NEW t \in Threads, Hit(t) PROVE TypeOK'
  BY <1>3, NoneAssumption DEF Hit, Reference, Unlock, TypeOK
<1>4. ASSUME NEW t \in Threads, ReadFile(t) PROVE TypeOK'
  BY <1>4, NoneAssumption DEF ReadFile, Miss, TypeOK
<1>5. ASSUME NEW t \in Threads, ReadRest(t) PROVE TypeOK'
  <2> DEFINE rest == IF disk[path[t]] = None THEN part[t] ELSE disk[path[t]]
  <2>1. path[t] \in Paths /\ part[t] \in Versions /\ rest \in Versions
    BY <1>5 DEF ReadRest, TypeOK
  <2>2. cache' \in [Paths -> Texts \cup {None}]
    BY <1>5, <2>1 DEF ReadRest, TypeOK
  <2>3. cache'[path[t]] \in Texts \cup {None}
    BY <2>1, <2>2
  <2> QED
    BY <1>5, <2>1, <2>2, <2>3, NoneAssumption DEF ReadRest, Reference, Unlock, TypeOK
<1>6. ASSUME NEW t \in Threads, ReadFails(t) PROVE TypeOK'
  BY <1>6, NoneAssumption DEF ReadFails, Miss, Unlock, TypeOK
<1>7. ASSUME NEW t \in Threads, Render(t) PROVE TypeOK'
  BY <1>7, NoneAssumption DEF Render, TypeOK
<1>8. ASSUME NEW t \in Threads, NEW p \in Paths, Call(t, p) PROVE TypeOK'
  BY <1>8, NoneAssumption DEF Call, TypeOK
<1>9. CASE UNCHANGED vars
  BY <1>9 DEF vars, TypeOK
<1> QED
  BY <1>1, <1>2, <1>3, <1>4, <1>5, <1>6, <1>7, <1>8, <1>9 DEF Next, GetStep

(* Every variable of the cache keeps to its type, and the mutex to the     *)
(* thread that is inside get: for every number of threads and templates.   *)
THEOREM CacheTypeCorrect == Spec => []TypeOK
<1>1. QED
  BY TypeInit, TypeStep, PTL DEF Spec

-----------------------------------------------------------------------------
(* A text, once in the map, is what the map holds for its path.            *)
LEMMA WriteOnce ==
    ASSUME TypeOK, [Next]_vars, NEW p \in Paths, cache[p] # None
    PROVE  cache'[p] = cache[p]
<1>1. ASSUME NEW t \in Threads, ReadRest(t) PROVE cache'[p] = cache[p]
  BY <1>1 DEF ReadRest, TypeOK
<1>2. ASSUME UNCHANGED cache PROVE cache'[p] = cache[p]
  BY <1>2
<1> QED
  BY <1>1, <1>2 DEF Next, GetStep, FileChanges, Lock, Hit, ReadFile, ReadFails,
                    Render, Call, vars

(* At first nobody renders.                                                *)
LEMMA StableInit == Init => RenderedTextStable
  BY DEF Init, RenderedTextStable

(* A reference taken after the lookup leads to the text of its path.       *)
LEMMA ReferenceTaken ==
    ASSUME TypeOK, RenderedTextStable, NEW t \in Threads, Reference(t),
           UNCHANGED path, path[t] \in Paths, cache'[path[t]] # None,
           \A p \in Paths : cache[p] # None => cache'[p] = cache[p]
    PROVE  RenderedTextStable'
<1> SUFFICES ASSUME NEW s \in Threads
    PROVE IF pc'[s] = "render" THEN text'[s] # None /\ cache'[path'[s]] = text'[s]
                               ELSE text'[s] = None
  BY DEF RenderedTextStable
<1>1. CASE s = t
  BY <1>1 DEF Reference, Go, TypeOK
<1>2. CASE s # t
  <2>1. pc'[s] = pc[s] /\ text'[s] = text[s] /\ path'[s] = path[s]
    BY <1>2 DEF Reference, Go, TypeOK
  <2>2. CASE pc[s] = "render"
    <3>1. path[s] \in Paths /\ text[s] # None /\ cache[path[s]] = text[s]
      BY <2>2 DEF TypeOK, RenderedTextStable
    <3> QED
      BY <2>1, <2>2, <3>1
  <2>3. CASE pc[s] # "render"
    BY <2>1, <2>3 DEF RenderedTextStable
  <2> QED
    BY <2>2, <2>3
<1> QED
  BY <1>1, <1>2

(* No step changes a text under the thread that renders from it.           *)
LEMMA StableStep == TypeOK /\ RenderedTextStable /\ [Next]_vars => RenderedTextStable'
<1> SUFFICES ASSUME TypeOK, RenderedTextStable, [Next]_vars PROVE RenderedTextStable'
  OBVIOUS
<1> USE DEF Go
<1>1. ASSUME NEW p \in Paths, FileChanges(p) PROVE RenderedTextStable'
  BY <1>1 DEF FileChanges, RenderedTextStable
<1>2. ASSUME NEW t \in Threads, Lock(t) PROVE RenderedTextStable'
  BY <1>2 DEF Lock, RenderedTextStable, TypeOK
<1>3. ASSUME NEW t \in Threads, Hit(t) PROVE RenderedTextStable'
  BY <1>3, ReferenceTaken DEF Hit, TypeOK
<1>4. ASSUME NEW t \in Threads, ReadFile(t) PROVE RenderedTextStable'
  BY <1>4 DEF ReadFile, Miss, RenderedTextStable, TypeOK
<1>5. ASSUME NEW t \in Threads, ReadRest(t) PROVE RenderedTextStable'
  <2>1. path[t] \in Paths /\ cache'[path[t]] # None
    BY <1>5, NoneAssumption DEF ReadRest, TypeOK, Versions
  <2>2. \A p \in Paths : cache[p] # None => cache'[p] = cache[p]
    BY WriteOnce
  <2> QED
    BY <1>5, <2>1, <2>2, ReferenceTaken DEF ReadRest
<1>6. ASSUME NEW t \in Threads, ReadFails(t) PROVE RenderedTextStable'
  BY <1>6 DEF ReadFails, Miss, RenderedTextStable, TypeOK
<1>7. ASSUME NEW t \in Threads, Render(t) PROVE RenderedTextStable'
  BY <1>7 DEF Render, RenderedTextStable, TypeOK
<1>8. ASSUME NEW t \in Threads, NEW p \in Paths, Call(t, p) PROVE RenderedTextStable'
  BY <1>8 DEF Call, RenderedTextStable, TypeOK
<1>9. CASE UNCHANGED vars
  BY <1>9 DEF vars, RenderedTextStable
<1> QED
  BY <1>1, <1>2, <1>3, <1>4, <1>5, <1>6, <1>7, <1>8, <1>9 DEF Next, GetStep

(* What a thread renders from, without the lock, does not change under it. *)
THEOREM RenderedStable == Spec => []RenderedTextStable
<1>1. Init => TypeOK /\ RenderedTextStable
  BY TypeInit, StableInit
<1>2. TypeOK /\ RenderedTextStable /\ [Next]_vars => TypeOK' /\ RenderedTextStable'
  BY TypeStep, StableStep
<1> QED
  BY <1>1, <1>2, PTL DEF Spec

-----------------------------------------------------------------------------
(* An empty cache is an empty store.                                       *)
LEMMA StoreInit == Init => Store!Init
  BY DEF Init, Store!Init

(* A hit and the end of a read are a Get; the rest changes no text.        *)
LEMMA StoreStep ==
    TypeOK /\ RenderedTextStable /\ [Next]_vars => [Store!Next]_<<cache, text>>
<1> SUFFICES ASSUME TypeOK, RenderedTextStable, [Next]_vars
    PROVE  [Store!Next]_<<cache, text>>
  OBVIOUS
<1>1. ASSUME NEW t \in Threads, Hit(t) PROVE Store!Get(t, path[t]) /\ path[t] \in Paths
  BY <1>1 DEF Hit, Reference, Store!Get, RenderedTextStable, TypeOK
<1>2. ASSUME NEW t \in Threads, ReadRest(t)
      PROVE  Store!Get(t, path[t]) /\ path[t] \in Paths
  <2> DEFINE rest == IF disk[path[t]] = None THEN part[t] ELSE disk[path[t]]
  <2>1. path[t] \in Paths /\ part[t] \in Versions /\ rest \in Versions
    BY <1>2 DEF ReadRest, TypeOK
  <2>2. <<part[t], rest>> \in Texts
    BY <2>1 DEF Texts
  <2>3. text[t] = None
    BY <1>2 DEF ReadRest, RenderedTextStable
  <2>4. text' = [text EXCEPT ![t] = cache'[path[t]]]
    BY <1>2 DEF ReadRest, Reference
  <2>5. CASE cache[path[t]] = None
    <3>1. cache' = [cache EXCEPT ![path[t]] = <<part[t], rest>>]
      BY <1>2, <2>5 DEF ReadRest, TypeOK
    <3> QED
      BY <2>1, <2>2, <2>3, <2>4, <2>5, <3>1 DEF Store!Get
  <2>6. CASE cache[path[t]] # None
    <3>1. cache' = cache
      BY <1>2, <2>1, <2>6 DEF ReadRest, TypeOK
    <3> QED
      BY <2>1, <2>3, <2>4, <2>6, <3>1 DEF Store!Get
  <2> QED
    BY <2>5, <2>6
<1>3. ASSUME NEW t \in Threads, Render(t) PROVE Store!Rendered(t)
  BY <1>3 DEF Render, Store!Rendered, RenderedTextStable
<1>4. ASSUME UNCHANGED <<cache, text>> PROVE [Store!Next]_<<cache, text>>
  BY <1>4
<1> QED
  BY <1>1, <1>2, <1>3, <1>4
  DEF Next, GetStep, FileChanges, Lock, ReadFile, ReadFails, Call, vars, Store!Next

(* The cache, with its lock, its failing reads and files that change,      *)
(* implements the write-once store the renderers rely on.                  *)
THEOREM CacheRefinesStore == Spec => ImplementsStore
<1>1. Init => TypeOK /\ RenderedTextStable
  BY TypeInit, StableInit
<1>2. TypeOK /\ RenderedTextStable /\ [Next]_vars => TypeOK' /\ RenderedTextStable'
  BY TypeStep, StableStep
<1> QED
  BY <1>1, <1>2, StoreInit, StoreStep, PTL DEF Spec, ImplementsStore, Store!Spec
=============================================================================
