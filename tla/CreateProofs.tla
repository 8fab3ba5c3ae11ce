----------------------------- MODULE CreateProofs -----------------------------
(***************************************************************************)
(* Machine-checked proofs about ServerCreate, for all configurations and   *)
(* disks, any number of views and of pool threads.                         *)
(***************************************************************************)
EXTENDS ServerCreate, SequenceTheorems, TLAPS

-----------------------------------------------------------------------------
(* The invariant.                                                          *)

(* What each step of the call owns.                                        *)
Building == {"paths", "server", "partials", "native", "handlers", "roots"}
Unwinding == {"unwind", "unwind scripts"}

Owned ==
    /\ pc \in {"extract", "register", "return", "done", "failed"} \cup Building \cup Unwinding
    /\ pc \in {"extract", "failed"} => ctx = "none" /\ scripts = <<>>
    /\ pc \in {"register"} \cup Building \cup Unwinding => ctx = "call"
    /\ pc \in {"return", "done"} => ctx = "entry"
    /\ pc \in {"extract", "unwind scripts", "failed", "done"} => paths = <<>>

(* A native server, and its handlers, are there from its construction on.  *)
NativeOwned ==
    /\ pc \in {"extract", "paths", "server", "partials", "native", "failed"} \cup Unwinding
          => native = "none" /\ routes = <<>>
    /\ pc \in {"register", "return", "done"} <=> native = "listening"

(* The views are a list, made once.                                        *)
ViewsOK == Len(views) \in Nat /\ DOMAIN views = 1 .. Len(views)

Given == data \in Inputs

(* The list of scripts keeps its nodes, the one of view i at i; a path     *)
(* points to the node of its view, and so does the handler made of it.     *)
PathsOK ==
    /\ paths \in Seq([view : Nat, script : Nat])
    /\ pc \in Building \cup {"register"} =>
          \A i \in DOMAIN paths : /\ paths[i].script = paths[i].view
                                  /\ paths[i].script \in DOMAIN scripts
    /\ \A i \in DOMAIN paths : paths[i].view \in DOMAIN views

Nodes == \A a \in DOMAIN scripts : scripts[a] = a

Handlers == [kind : {"http", "websocket", "redirect", "dir", "zip", "loader"},
             view : Nat, script : Nat]

RoutesOK ==
    /\ routes \in Seq(Handlers)
    /\ \A i \in DOMAIN routes : routes[i].view # 0 =>
          /\ routes[i].script = routes[i].view
          /\ routes[i].script \in DOMAIN scripts
          /\ routes[i].view \in DOMAIN views
    /\ \A i \in DOMAIN routes :
          routes[i].kind \in {"http", "websocket"} => routes[i].view # 0

CreateInv == Owned /\ NativeOwned /\ ViewsOK /\ PathsOK /\ Nodes /\ RoutesOK

LEMMA CreateInit == Init => CreateInv
<1> SUFFICES ASSUME Init PROVE CreateInv
  OBVIOUS
<1>1. /\ <<>> \in Seq([view : Nat, script : Nat])
      /\ <<>> \in Seq(Handlers)
      /\ DOMAIN <<>> = {} /\ Len(<<>>) = 0 /\ 1 .. 0 = {}
  OBVIOUS
<1> QED BY <1>1 DEF Init, CreateInv, Owned, NativeOwned, ViewsOK, PathsOK, Nodes, RoutesOK,
   Building, Unwinding

-----------------------------------------------------------------------------
(* The list of scripts only grows while paths are made.                    *)
LEMMA AddedScript ==
    ASSUME Nodes, NEW n
    PROVE  /\ DOMAIN AddCallback(n) = DOMAIN scripts \cup {n}
           /\ \A a \in DOMAIN AddCallback(n) : AddCallback(n)[a] = a
BY DEF Nodes, AddCallback

LEMMA PathsAppend ==
    ASSUME NEW s \in Seq([view : Nat, script : Nat]), NEW n \in Nat
    PROVE  /\ Append(s, [view |-> n, script |-> n]) \in Seq([view : Nat, script : Nat])
           /\ \A i \in DOMAIN Append(s, [view |-> n, script |-> n]) :
                 \/ i \in DOMAIN s /\ Append(s, [view |-> n, script |-> n])[i] = s[i]
                 \/ Append(s, [view |-> n, script |-> n])[i] = [view |-> n, script |-> n]
<1>1. [view |-> n, script |-> n] \in [view : Nat, script : Nat]
  OBVIOUS
<1> QED BY <1>1, AppendProperties

LEMMA CreatePathKeeps == CreateInv /\ CreatePath => CreateInv'
<1> SUFFICES ASSUME CreateInv, CreatePath PROVE CreateInv'
  OBVIOUS
<1>1. /\ pc = "paths" /\ pc' = "paths" /\ routes = <<>> /\ routes' = <<>>
      /\ scripts' = AddCallback(NextPath)
      /\ native' = native /\ ctx' = ctx /\ views' = views
  BY DEF CreatePath, CreateInv, NativeOwned
<1>2. NextPath \in Nat /\ paths \in Seq([view : Nat, script : Nat])
  BY LenProperties DEF CreateInv, PathsOK, NextPath
<1>3. /\ DOMAIN scripts' = DOMAIN scripts \cup {NextPath}
      /\ \A a \in DOMAIN scripts' : scripts'[a] = a
  BY <1>1, AddedScript DEF CreateInv
<1>4. paths' = Append(paths, [view |-> NextPath, script |-> NextPath])
  BY <1>3 DEF CreatePath
<1> DEFINE new == [view |-> NextPath, script |-> NextPath]
<1>5. /\ paths' \in Seq([view : Nat, script : Nat])
      /\ \A i \in DOMAIN paths' : \/ i \in DOMAIN paths /\ paths'[i] = paths[i]
                                  \/ paths'[i] = new
  BY <1>2, <1>4, PathsAppend
<1>6. new.view = NextPath /\ new.script = NextPath
  OBVIOUS
<1>a. NextPath \in DOMAIN views
  <2>1. Len(paths) \in Nat /\ Len(views) \in Nat /\ DOMAIN views = 1 .. Len(views)
    BY <1>2, LenProperties DEF CreateInv, ViewsOK
  <2>2. Len(paths) + 1 <= Len(views)
    BY DEF CreatePath, NextPath
  <2> QED BY <2>1, <2>2 DEF NextPath
<1>b. \A i \in DOMAIN paths' : paths'[i].view \in DOMAIN views'
  BY <1>1, <1>5, <1>6, <1>a DEF CreateInv, PathsOK
<1>c. ViewsOK'
  BY <1>1 DEF CreateInv, ViewsOK
<1>7. \A i \in DOMAIN paths' : /\ paths'[i].script = paths'[i].view
                               /\ paths'[i].script \in DOMAIN scripts'
  <2> SUFFICES ASSUME NEW i \in DOMAIN paths'
               PROVE  paths'[i].script = paths'[i].view /\ paths'[i].script \in DOMAIN scripts'
    OBVIOUS
  <2>1. CASE i \in DOMAIN paths /\ paths'[i] = paths[i]
    BY <1>1, <1>3, <2>1 DEF CreateInv, PathsOK, Building
  <2>2. CASE paths'[i] = new
    BY <1>3, <1>6, <2>2
  <2> QED BY <1>5, <2>1, <2>2
<1>8. Owned' /\ NativeOwned'
  BY <1>1 DEF CreateInv, Owned, NativeOwned, Building, Unwinding
<1>9. RoutesOK'
  BY <1>1 DEF RoutesOK, CreateInv
<1> QED BY <1>3, <1>5, <1>7, <1>b, <1>c, <1>8, <1>9 DEF CreateInv, PathsOK, Nodes

LEMMA PathStepKeeps == CreateInv /\ PathStep => CreateInv'
<1>1. CASE CreateInv /\ PathFails
  <2>1. /\ pc = "paths" /\ pc' = "unwind" /\ routes = <<>> /\ native = "none"
        /\ UNCHANGED <<views, ctx, paths, native, routes>>
    BY <1>1 DEF PathFails, CreateInv, NativeOwned
  <2>2. Nodes'
    BY <1>1, AddedScript DEF PathFails, CreateInv, Nodes
  <2>3. Owned' /\ NativeOwned' /\ ViewsOK' /\ PathsOK'
    BY <1>1, <2>1 DEF CreateInv, Owned, NativeOwned, ViewsOK, PathsOK, Building, Unwinding
  <2>4. RoutesOK'
    BY <1>1, <2>1 DEF CreateInv, RoutesOK
  <2> QED BY <2>2, <2>3, <2>4 DEF CreateInv
<1>2. CASE CreateInv /\ PathsDone
  BY <1>2 DEF PathsDone, CreateInv, Owned, NativeOwned, ViewsOK, PathsOK, Nodes, RoutesOK,
     Building, Unwinding
<1> QED BY <1>1, <1>2, CreatePathKeeps DEF PathStep

(* Handlers are added at the end; the ones that were there stay.           *)
LEMMA RouteType ==
    ASSUME NEW kind \in {"http", "websocket", "redirect", "dir", "zip", "loader"},
           NEW view \in Nat, NEW script \in Nat
    PROVE  /\ Route(kind, view, script) \in Handlers
           /\ Route(kind, view, script).kind = kind
           /\ Route(kind, view, script).view = view
           /\ Route(kind, view, script).script = script
BY DEF Route, Handlers

LEMMA RouteAdded ==
    ASSUME RoutesOK, NEW r \in Handlers,
           r.view # 0 => /\ r.script = r.view /\ r.script \in DOMAIN scripts
                         /\ r.view \in DOMAIN views,
           r.kind \in {"http", "websocket"} => r.view # 0,
           routes' = Append(routes, r), scripts' = scripts, views' = views
    PROVE  RoutesOK'
<1>1. /\ routes' \in Seq(Handlers)
      /\ \A i \in DOMAIN routes' : \/ i \in DOMAIN routes /\ routes'[i] = routes[i]
                                   \/ routes'[i] = r
  BY AppendProperties DEF RoutesOK
<1> QED BY <1>1 DEF RoutesOK

LEMMA NativeStepKeeps == CreateInv /\ NativeStep => CreateInv'
<1> SUFFICES ASSUME CreateInv, NativeStep PROVE CreateInv'
  OBVIOUS
<1> USE DEF CreateInv
<1>1. ASSUME Unwinds, pc \in Building PROVE CreateInv'
  <2>1. /\ pc' = "unwind" /\ native' = "none" /\ routes' = <<>>
        /\ UNCHANGED <<views, ctx, scripts, paths>>
    BY <1>1 DEF Unwinds
  <2>2. RoutesOK'
    BY <2>1 DEF RoutesOK
  <2>3. Owned'
    BY <1>1, <2>1 DEF Owned, Building, Unwinding
  <2>4. NativeOwned' /\ ViewsOK' /\ PathsOK' /\ Nodes'
    BY <2>1 DEF NativeOwned, ViewsOK, PathsOK, Nodes, Building, Unwinding
  <2> QED BY <2>2, <2>3, <2>4
<1>2. CASE ReadConf
  BY <1>2 DEF ReadConf, Owned, NativeOwned, ViewsOK, PathsOK, Nodes, RoutesOK, Building, Unwinding
<1>3. CASE ConfRefused
  BY <1>1, <1>3 DEF ConfRefused, Building
<1>4. CASE LoadPartials
  BY <1>4 DEF LoadPartials, Owned, NativeOwned, ViewsOK, PathsOK, Nodes, RoutesOK,
     Building, Unwinding
<1>5. CASE BuildNative
  BY <1>5 DEF BuildNative, Owned, NativeOwned, ViewsOK, PathsOK, Nodes, RoutesOK,
     Building, Unwinding
<1>6. CASE AddHandler
  <2>1. /\ pc = "handlers" /\ UNCHANGED <<pc, views, ctx, scripts, paths, native>>
        /\ Len(routes) < Len(paths)
    BY <1>6 DEF AddHandler
  <2> DEFINE pa == paths[Len(routes) + 1]
  <2>2. pa \in [view : Nat, script : Nat] /\ Len(routes) + 1 \in DOMAIN paths
    <3>1. Len(routes) + 1 \in 1 .. Len(paths)
      BY <2>1, LenProperties DEF PathsOK, RoutesOK
    <3> QED BY <3>1, ElementOfSeq, LenProperties DEF PathsOK
  <2>3. /\ pa.script = pa.view /\ pa.script \in DOMAIN scripts /\ pa.view \in DOMAIN views
        /\ pa.view \in Nat /\ pa.script \in Nat
    BY <2>1, <2>2 DEF PathsOK, Building
  <2>a. pa.view # 0
    BY <2>3 DEF ViewsOK
  <2>4. KindOf(views[pa.view]) \in {"http", "websocket", "redirect", "dir", "zip", "loader"}
    BY DEF KindOf
  <2>5. routes' = Append(routes, Route(KindOf(views[pa.view]), pa.view, pa.script))
    BY <1>6 DEF AddHandler
  <2> HIDE DEF pa
  <2>6. PICK r : r = Route(KindOf(views[pa.view]), pa.view, pa.script)
    OBVIOUS
  <2>7. r \in Handlers /\ r.view = pa.view /\ r.script = pa.script
    BY <2>3, <2>4, <2>6, RouteType
  <2>8. RoutesOK'
    BY <2>1, <2>3, <2>a, <2>5, <2>6, <2>7, RouteAdded
  <2> QED BY <2>1, <2>8 DEF Owned, NativeOwned, ViewsOK, PathsOK, Nodes, Building, Unwinding
<1>7. CASE AddRedirect
  <2>1. /\ pc = "handlers" /\ pc' = "roots" /\ UNCHANGED <<views, ctx, scripts, paths, native>>
        /\ routes' = routes \o Redirect
    BY <1>7 DEF AddRedirect
  <2>2. RoutesOK'
    <3>1. CASE Redirect = <<>>
      <4>1. routes' = routes
        BY <2>1, <3>1, ConcatEmptySeq DEF RoutesOK
      <4> QED BY <2>1, <4>1 DEF RoutesOK
    <3>2. CASE Redirect = << Route("redirect", 0, 0) >>
      <4>1. /\ Route("redirect", 0, 0) \in Handlers
            /\ Route("redirect", 0, 0).view = 0
            /\ Route("redirect", 0, 0).kind \notin {"http", "websocket"}
        BY RouteType
      <4>2. routes' = Append(routes, Route("redirect", 0, 0))
        BY <2>1, <3>2, <4>1, AppendIsConcat DEF RoutesOK
      <4> QED BY <2>1, <4>1, <4>2, RouteAdded
    <3> QED BY <3>1, <3>2 DEF Redirect
  <2> QED BY <2>1, <2>2 DEF Owned, NativeOwned, ViewsOK, PathsOK, Nodes, Building, Unwinding
<1>8. CASE AddRoot
  <2>1. /\ pc = "roots" /\ UNCHANGED <<pc, views, ctx, scripts, paths, native>>
    BY <1>8 DEF AddRoot
  <2>2. PICK kind \in {"dir", "zip", "loader"} : routes' = Append(routes, Route(kind, 0, 0))
    BY <1>8 DEF AddRoot, RootKind
  <2>3. /\ Route(kind, 0, 0) \in Handlers /\ Route(kind, 0, 0).view = 0
        /\ Route(kind, 0, 0).kind \notin {"http", "websocket"}
    BY RouteType
  <2>4. RoutesOK'
    BY <2>1, <2>2, <2>3, RouteAdded
  <2> QED BY <2>1, <2>4 DEF Owned, NativeOwned, ViewsOK, PathsOK, Nodes, Building, Unwinding
<1>9. CASE Start
  BY <1>9 DEF Start, Owned, NativeOwned, ViewsOK, PathsOK, Nodes, RoutesOK, Building, Unwinding
<1>10. CASE BuildFails
  BY <1>1, <1>10 DEF BuildFails, Building
<1> QED BY <1>2, <1>3, <1>4, <1>5, <1>6, <1>7, <1>8, <1>9, <1>10 DEF NativeStep

-----------------------------------------------------------------------------
(* Lists.                                                                  *)
LEMMA ListType ==
    ASSUME NEW s, IsList(s)
    PROVE  Len(s) \in Nat /\ DOMAIN s = 1 .. Len(s) /\ s \in Seq(Range(s))
BY LenProperties DEF IsList

LEMMA SeqIsList == ASSUME NEW S, NEW s \in Seq(S) PROVE IsList(s)
<1>1. Len(s) \in Nat /\ s \in [1 .. Len(s) -> S] /\ DOMAIN s = 1 .. Len(s)
  BY LenProperties
<1>2. s \in [1 .. Len(s) -> Range(s)]
  BY <1>1 DEF Range
<1> QED BY <1>1, <1>2, SeqDef DEF IsList

LEMMA MappedList ==
    ASSUME NEW n \in Nat, NEW f, DOMAIN f = 1 .. n, f = [i \in DOMAIN f |-> f[i]]
    PROVE  IsList(f) /\ Len(f) = n
<1>1. f \in [1 .. n -> Range(f)] /\ DOMAIN f = 1 .. n
  BY DEF Range
<1>2. f \in Seq(Range(f))
  BY <1>1, SeqDef
<1>3. Len(f) \in Nat /\ DOMAIN f = 1 .. Len(f)
  BY <1>2, LenProperties
<1>4. ASSUME NEW m \in Nat, 1 .. m = 1 .. n PROVE m = n
  <2>1. CASE m = 0
    <3>1. 1 \notin 1 .. m
      BY <2>1
    <3>2. 1 \notin 1 .. n
      BY <1>4, <3>1
    <3> QED BY <2>1, <3>2
  <2>2. CASE m # 0
    <3>1. m \in 1 .. m /\ m \in 1 .. n /\ 1 \in 1 .. n
      BY <1>4, <2>2
    <3>2. n \in 1 .. n
      BY <3>1
    <3>3. n \in 1 .. m
      BY <1>4, <3>2
    <3> QED BY <3>1, <3>3
  <2> QED BY <2>1, <2>2
<1> QED BY <1>1, <1>2, <1>3, <1>4 DEF IsList

LEMMA ConcatLists ==
    ASSUME NEW s, NEW t, IsList(s), IsList(t)
    PROVE  /\ IsList(s \o t) /\ Len(s \o t) = Len(s) + Len(t)
           /\ \A i \in 1 .. Len(s) + Len(t) :
                 (s \o t)[i] = IF i <= Len(s) THEN s[i] ELSE t[i - Len(s)]
<1> DEFINE S == Range(s) \cup Range(t)
<1>1. s \in Seq(S) /\ t \in Seq(S)
  BY ListType, SeqMonotonic
<1> HIDE DEF S
<1> QED BY <1>1, ConcatProperties, SeqIsList

(* A list is put together of three when it agrees with each in its part.   *)
OfThree(f, x, y, z) ==
    /\ Len(f) = Len(x) + Len(y) + Len(z)
    /\ \A i \in 1 .. Len(x) : f[i] = x[i]
    /\ \A i \in 1 .. Len(y) : f[Len(x) + i] = y[i]
    /\ \A i \in 1 .. Len(z) : f[Len(x) + Len(y) + i] = z[i]

LEMMA ThreeLists ==
    ASSUME NEW f, IsList(f), NEW x, IsList(x), NEW y, IsList(y), NEW z, IsList(z),
           OfThree(f, x, y, z)
    PROVE  f = x \o y \o z
<1> USE DEF OfThree
<1>1. Len(x) \in Nat /\ Len(y) \in Nat /\ Len(z) \in Nat
  BY ListType
<1> DEFINE front == x \o y
           all == front \o z
<1>2. /\ IsList(front) /\ Len(front) = Len(x) + Len(y)
      /\ \A i \in 1 .. Len(x) + Len(y) :
            front[i] = IF i <= Len(x) THEN x[i] ELSE y[i - Len(x)]
  BY ConcatLists
<1> HIDE DEF front
<1>3. /\ IsList(all) /\ Len(all) = Len(x) + Len(y) + Len(z)
      /\ \A i \in 1 .. Len(x) + Len(y) + Len(z) :
            all[i] = IF i <= Len(x) + Len(y) THEN front[i] ELSE z[i - (Len(x) + Len(y))]
  <2>1. /\ IsList(all) /\ Len(all) = Len(front) + Len(z)
        /\ \A i \in 1 .. Len(front) + Len(z) :
              all[i] = IF i <= Len(front) THEN front[i] ELSE z[i - Len(front)]
    BY <1>2, ConcatLists
  <2> QED BY <1>2, <2>1
<1> HIDE DEF all
<1>4. ASSUME NEW i \in 1 .. Len(f) PROVE f[i] = all[i]
  <2>1. CASE i \in 1 .. Len(x)
    <3>1. /\ i \in 1 .. Len(x) + Len(y) + Len(z) /\ i \in 1 .. Len(x) + Len(y)
          /\ i <= Len(x) /\ i <= Len(x) + Len(y)
      BY <1>1, <2>1
    <3> QED BY <1>2, <1>3, <2>1, <3>1
  <2>2. CASE i - Len(x) \in 1 .. Len(y)
    <3> DEFINE j == i - Len(x)
    <3>1. /\ i \in 1 .. Len(x) + Len(y) + Len(z) /\ i \in 1 .. Len(x) + Len(y)
          /\ ~(i <= Len(x)) /\ i <= Len(x) + Len(y) /\ i = Len(x) + j
      BY <1>1, <2>2
    <3>2. f[Len(x) + j] = y[j]
      BY <2>2
    <3> QED BY <1>2, <1>3, <3>1, <3>2
  <2>3. CASE i - (Len(x) + Len(y)) \in 1 .. Len(z)
    <3> DEFINE j == i - (Len(x) + Len(y))
    <3>1. /\ i \in 1 .. Len(x) + Len(y) + Len(z) /\ ~(i <= Len(x) + Len(y))
          /\ i = Len(x) + Len(y) + j
      BY <1>1, <2>3
    <3>2. f[Len(x) + Len(y) + j] = z[j]
      BY <2>3
    <3> QED BY <1>3, <3>1, <3>2
  <2> QED BY <1>1, <2>1, <2>2, <2>3
<1>5. f \in Seq(Range(f) \cup Range(all)) /\ all \in Seq(Range(f) \cup Range(all))
  BY <1>3, ListType, SeqMonotonic
<1>6. Len(f) = Len(all)
  BY <1>3
<1>7. f = all
  BY <1>4, <1>5, <1>6, SeqEqual
<1> QED BY <1>7 DEF all, front

(* A list from which one element was removed holds no others.              *)
LEMMA RemovedAt ==
    ASSUME NEW s, IsList(s), NEW i \in DOMAIN s
    PROVE  /\ IsList(RemoveAt(s, i))
           /\ \A j \in DOMAIN RemoveAt(s, i) : \E k \in DOMAIN s : RemoveAt(s, i)[j] = s[k]
<1>1. Len(s) \in Nat /\ DOMAIN s = 1 .. Len(s) /\ s \in Seq(Range(s)) /\ i \in Int
  BY ListType
<1>2. i - 1 \in Int /\ i + 1 \in Int /\ 1 \in Int /\ Len(s) \in Int
  BY <1>1
<1>3. \A j \in 1 .. Len(s) : s[j] \in Range(s)
  BY <1>1 DEF Range
<1>4. /\ \A j \in 1 .. (i - 1) : s[j] \in Range(s)
      /\ \A j \in (i + 1) .. Len(s) : s[j] \in Range(s)
  <2>1. 1 .. (i - 1) \subseteq 1 .. Len(s) /\ (i + 1) .. Len(s) \subseteq 1 .. Len(s)
    BY <1>1
  <2> QED BY <1>3, <2>1
<1>5. SubSeq(s, 1, i - 1) \in Seq(Range(s)) /\ SubSeq(s, i + 1, Len(s)) \in Seq(Range(s))
  BY <1>2, <1>4, SubSeqProperties
<1>6. RemoveAt(s, i) \in Seq(Range(s))
  BY <1>5, ConcatProperties DEF RemoveAt
<1>7. \A j \in DOMAIN RemoveAt(s, i) : RemoveAt(s, i)[j] \in Range(s)
  BY <1>6, LenProperties, ElementOfSeq
<1> QED BY <1>6, <1>7, SeqIsList DEF Range

-----------------------------------------------------------------------------
(* Records keep their members while they are read.                         *)
ServerShaped(fields, n, c) ==
    c = Refused \/ (DOMAIN c = DOMAIN ServerDefault /\ IsList(c.documentRoots))

ViewShaped(fields, n, view) == view = Refused \/ DOMAIN view = DOMAIN ViewDefault

ServerStep(c, fi) == IF c = Refused THEN Refused ELSE ReadServer(c, fi)
ViewStep(view, fi) == IF view = Refused THEN Refused ELSE ReadView(view, fi)

ServerFields == INSTANCE FoldProofs WITH
    Step <- ServerStep, default <- ServerDefault, Good <- ServerShaped
ViewsFields == INSTANCE FoldProofs WITH
    Step <- ViewStep, default <- ViewDefault, Good <- ViewShaped

(* What is read from a view has a method, a path and a script.             *)
LEMMA ViewRead ==
    ASSUME NEW json, IsList(Fields(json)), HttpView(json) # Refused
    PROVE  DOMAIN HttpView(json) = DOMAIN ViewDefault
<1>1. Parse(json, ViewDefault, ReadView) = ViewsFields!Result(Fields(json))
  BY DEF Parse, ViewsFields!Result, ViewStep
<1>2. \A n : ViewShaped(Fields(json), n, ViewDefault) /\ ViewShaped(Fields(json), n, Refused)
  BY DEF ViewShaped
<1>3. \A view, fi : DOMAIN view = DOMAIN ViewDefault /\ ReadView(view, fi) # Refused
          => DOMAIN ReadView(view, fi) = DOMAIN ViewDefault
  BY DEF ReadView, Overwrite
<1>4. \A view : \A n \in Nat : n < Len(Fields(json)) /\ ViewShaped(Fields(json), n, view) =>
          ViewShaped(Fields(json), n + 1, ViewStep(view, Fields(json)[n + 1]))
  BY <1>3 DEF ViewShaped, ViewStep
<1>5. Len(Fields(json)) \in Nat
  BY ListType
<1>6. ViewShaped(Fields(json), Len(Fields(json)), ViewsFields!Result(Fields(json)))
  BY <1>2, <1>4, <1>5, ViewsFields!ResultGood
<1> QED BY <1>1, <1>6 DEF ViewShaped, HttpView

(* One field of the server's configuration.                                *)
LEMMA ServerFieldRead ==
    ASSUME NEW c, NEW fi,
           DOMAIN c = DOMAIN ServerDefault, IsList(c.documentRoots),
           IsArray(fi.val) => IsList(fi.val.elements),
           ReadServer(c, fi) # Refused
    PROVE  /\ DOMAIN ReadServer(c, fi) = DOMAIN ServerDefault
           /\ IsList(ReadServer(c, fi).documentRoots)
<1> DEFINE new == ReadServer(c, fi)
<1>1. CASE fi.name = "documentRoots"
  <2>1. /\ IsArray(fi.val)
        /\ new = [c EXCEPT !["documentRoots"] =
                     @ \o Elements(fi.val, DocumentRoot)]
    BY <1>1 DEF ReadServer, AppendAll
  <2>2. "documentRoots" \in DOMAIN c
    BY DEF ServerDefault
  <2>3. IsList(Elements(fi.val, DocumentRoot))
    <3>1. Len(fi.val.elements) \in Nat /\ DOMAIN fi.val.elements = 1 .. Len(fi.val.elements)
      BY <2>1, ListType
    <3> QED BY <3>1, MappedList DEF Elements
  <2>4. /\ DOMAIN new = DOMAIN ServerDefault
        /\ new.documentRoots = c.documentRoots \o Elements(fi.val, DocumentRoot)
    BY <2>1, <2>2
  <2> QED BY <2>3, <2>4, ConcatLists
<1>2. CASE fi.name # "documentRoots"
  <2>1. \E v : new = [c EXCEPT ![fi.name] = v]
    BY <1>2 DEF ReadServer, Overwrite, Nested
  <2>2. DOMAIN new = DOMAIN ServerDefault /\ new.documentRoots = c.documentRoots
    BY <1>2, <2>1 DEF ServerDefault
  <2> QED BY <2>2
<1> QED BY <1>1, <1>2

(* A configuration that was read has all members, and its document roots   *)
(* are a list.                                                             *)
LEMMA ServerRead ==
    ASSUME NEW json, IsList(Fields(json)),
           \A i \in DOMAIN Fields(json) : IsArray(Fields(json)[i].val) =>
              IsList(Fields(json)[i].val.elements),
           ServerConf(json) # Refused
    PROVE  /\ DOMAIN ServerConf(json) = DOMAIN ServerDefault
           /\ IsList(ServerConf(json).documentRoots)
<1>1. ServerConf(json) = ServerFields!Result(Fields(json))
  BY DEF ServerConf, Parse, ServerFields!Result, ServerStep
<1>2. ServerShaped(Fields(json), 0, ServerDefault)
  <2>1. <<>> \in Seq({})
    BY EmptySeq
  <2>2. IsList(<<>>)
    BY <2>1, SeqIsList
  <2>3. ServerDefault.documentRoots = <<>>
    BY DEF ServerDefault
  <2> QED BY <2>2, <2>3 DEF ServerShaped
<1>3. Len(Fields(json)) \in Nat /\ DOMAIN Fields(json) = 1 .. Len(Fields(json))
  BY ListType
<1>4. ASSUME NEW c, NEW n \in Nat, n < Len(Fields(json)),
             ServerShaped(Fields(json), n, c)
      PROVE  ServerShaped(Fields(json), n + 1, ServerStep(c, Fields(json)[n + 1]))
  <2>1. n + 1 \in DOMAIN Fields(json)
    BY <1>3, <1>4
  <2> QED BY <1>4, <2>1, ServerFieldRead DEF ServerShaped, ServerStep
<1>5. ServerShaped(Fields(json), Len(Fields(json)), ServerFields!Result(Fields(json)))
  BY <1>2, <1>3, <1>4, ServerFields!ResultGood
<1> QED BY <1>1, <1>5 DEF ServerShaped

-----------------------------------------------------------------------------
LEMMA ExtractedViews ==
    ASSUME Given, NEW i \in FirstViews, ViewsFit(i)
    PROVE  Len(ViewsAt(i)) \in Nat /\ DOMAIN ViewsAt(i) = 1 .. Len(ViewsAt(i))
<1>1. i \in DOMAIN Fields(data) /\ IsArray(Fields(data)[i].val)
  BY DEF FirstViews, ViewFields, ViewsFit
<1> DEFINE list == Fields(data)[i].val.elements
<1>2. Len(list) \in Nat /\ DOMAIN list = 1 .. Len(list)
  BY <1>1, ListsAssumption, ListType DEF Given
<1>3. ViewsAt(i) = [k \in 1 .. Len(list) |-> HttpView(list[k])]
  BY <1>2 DEF ViewsAt, Elements
<1> HIDE DEF list
<1>4. Len([k \in 1 .. Len(list) |-> HttpView(list[k])]) = Len(list)
  BY <1>2, MappedList
<1> QED BY <1>2, <1>3, <1>4

LEMMA CreateStepKeeps == Given /\ CreateInv /\ [Next]_vars => CreateInv'
<1> SUFFICES ASSUME Given, CreateInv, [Next]_vars PROVE CreateInv'
  OBVIOUS
<1> USE DEF CreateInv
<1>e. <<>> \in Seq([view : Nat, script : Nat]) /\ DOMAIN <<>> = {}
  OBVIOUS
<1>1. CASE Extract
  <2>1. /\ pc = "extract" /\ pc' = "paths" /\ ctx' = "call"
        /\ \E i \in FirstViews : ViewsFit(i) /\ views' = ViewsAt(i)
        /\ UNCHANGED <<scripts, paths, native, routes>>
    BY <1>1 DEF Extract
  <2>2. paths = <<>> /\ routes = <<>> /\ native = "none"
    BY <2>1 DEF Owned, NativeOwned
  <2>3. ViewsOK'
    BY <2>1, ExtractedViews DEF ViewsOK
  <2> QED BY <2>1, <2>2, <2>3, <1>e DEF Owned, NativeOwned, PathsOK, Nodes, RoutesOK,
     Building, Unwinding
<1>2. CASE ExtractFails
  BY <1>2 DEF ExtractFails, Fails, Owned, NativeOwned, ViewsOK, PathsOK, Nodes, RoutesOK,
     Building, Unwinding
<1>3. CASE UnwindPaths
  BY <1>3, <1>e DEF UnwindPaths, Owned, NativeOwned, ViewsOK, PathsOK, Nodes, RoutesOK,
     Building, Unwinding
<1>4. CASE UnwindScripts
  BY <1>4, <1>e DEF UnwindScripts, Owned, NativeOwned, ViewsOK, PathsOK, Nodes, RoutesOK,
     Building, Unwinding
<1>5. CASE Register
  BY <1>5 DEF Register, Owned, NativeOwned, ViewsOK, PathsOK, Nodes, RoutesOK, Building, Unwinding
<1>6. CASE Return
  BY <1>6 DEF Return, Owned, NativeOwned, ViewsOK, PathsOK, Nodes, RoutesOK, Building, Unwinding
<1>7. ASSUME UNCHANGED creation PROVE CreateInv'
  BY <1>7 DEF creation, Owned, NativeOwned, ViewsOK, PathsOK, Nodes, RoutesOK
<1>8. CASE CreateStep
  BY <1>8, <1>1, <1>2, <1>3, <1>4, <1>5, <1>6, PathStepKeeps, NativeStepKeeps
  DEF CreateStep, UnwindStep
<1>9. ASSUME NEW w \in Workers,
             Served(w) \/ ServedThrows(w) \/ \E i \in DOMAIN routes : Serve(w, i)
      PROVE  UNCHANGED creation
  BY <1>9 DEF Served, ServedThrows, Serve
<1>10. CASE UNCHANGED vars
  BY <1>7, <1>10 DEF vars
<1> QED BY <1>7, <1>8, <1>9, <1>10 DEF Next

LEMMA CreateReachable == Spec => []CreateInv
<1>1. Init => Given
  BY DEF Init, Given
<1>2. Given /\ [Next]_vars => Given'
  <2> SUFFICES ASSUME Given, [Next]_vars PROVE data' = data
    BY DEF Given
  <2> QED BY DEF Next, CreateStep, Served, ServedThrows, Serve, vars
<1> QED BY <1>1, <1>2, CreateInit, CreateStepKeeps, PTL DEF Spec

-----------------------------------------------------------------------------
(* Workers: one that serves has a handler of a view, of a server that is   *)
(* there to stay; request handles are registered only while there is one.  *)
WorkersOK ==
    /\ serving \in [Workers -> Nat]
    /\ \A w \in Workers : serving[w] # NoRoute =>
          /\ native = "listening"
          /\ serving[w] \in DOMAIN routes
          /\ routes[serving[w]].view # 0
          /\ w \in rreg
    /\ rreg # {} => native = "listening"

LEMMA WorkersStep == CreateInv /\ WorkersOK /\ [Next]_vars => WorkersOK'
<1> SUFFICES ASSUME CreateInv, WorkersOK, [Next]_vars PROVE WorkersOK'
  OBVIOUS
<1>1. CASE CreateStep /\ native = "listening"
  <2>1. UNCHANGED <<views, native, routes, serving, rreg>>
    <3>1. pc \in {"register", "return", "done"}
      BY <1>1 DEF CreateInv, NativeOwned
    <3> QED BY <1>1, <3>1 DEF CreateStep, Extract, ExtractFails, PathStep, CreatePath, PathFails,
       PathsDone, NativeStep, ReadConf, ConfRefused, LoadPartials, BuildNative, AddHandler,
       AddRedirect, AddRoot, Start, BuildFails, UnwindStep, UnwindPaths, UnwindScripts,
       Register, Return
  <2> QED BY <2>1 DEF WorkersOK
<1>2. CASE CreateStep /\ native # "listening"
  <2>1. UNCHANGED <<serving, rreg>>
    BY <1>2 DEF CreateStep
  <2> QED BY <1>2, <2>1 DEF WorkersOK
<1>3. ASSUME NEW w \in Workers, NEW i \in DOMAIN routes, Serve(w, i) PROVE WorkersOK'
  <2>1. /\ native = "listening" /\ routes[i].view # 0 /\ i \in Nat /\ i # NoRoute
        /\ serving' = [serving EXCEPT ![w] = i] /\ rreg' = rreg \cup {w}
        /\ UNCHANGED <<views, native, routes>>
    BY <1>3, LenProperties DEF Serve, creation, CreateInv, RoutesOK, NoRoute
  <2> QED BY <2>1 DEF WorkersOK
<1>4. ASSUME NEW w \in Workers, Served(w) PROVE WorkersOK'
  <2>1. /\ serving' = [serving EXCEPT ![w] = NoRoute] /\ rreg' = rreg \ {w}
        /\ UNCHANGED <<views, native, routes>>
    BY <1>4 DEF Served, creation
  <2>2. NoRoute \in Nat
    BY DEF NoRoute
  <2> QED BY <2>1, <2>2 DEF WorkersOK
<1>5. ASSUME NEW w \in Workers, ServedThrows(w) PROVE WorkersOK'
  <2>1. /\ serving' = [serving EXCEPT ![w] = NoRoute] /\ rreg' = rreg
        /\ serving[w] # NoRoute
        /\ UNCHANGED <<views, native, routes>>
    BY <1>5 DEF ServedThrows, creation
  <2>2. NoRoute \in Nat
    BY DEF NoRoute
  <2> QED BY <2>1, <2>2 DEF WorkersOK
<1>6. CASE UNCHANGED vars
  BY <1>6 DEF vars, creation, WorkersOK
<1> QED BY <1>1, <1>2, <1>3, <1>4, <1>5, <1>6 DEF Next

(* While a worker may read it, a handler's pointer leads to the script of  *)
(* its own view, for any number of views.                                  *)
THEOREM PointersHold == Spec => []ScriptPointersHold
<1>1. CreateInv => ScriptPointersHold
  BY DEF CreateInv, RoutesOK, Nodes, ScriptPointersHold
<1> QED BY <1>1, CreateReachable, PTL

(* Whatever step fails, server_create leaves nothing of what it made.      *)
THEOREM FailuresLeaveNothing == Spec => []NothingLeftBehind
<1>1. CreateInv => NothingLeftBehind
  BY DEF CreateInv, Owned, NativeOwned, NothingLeftBehind
<1> QED BY <1>1, CreateReachable, PTL

(* The callback script of a handler's own view is the one it reads.        *)
LEMMA OwnScript ==
    ASSUME CreateInv, WorkersOK, NEW w \in Workers, serving[w] # NoRoute
    PROVE  ScriptOf(serving[w]) = views[routes[serving[w]].view].callbackScript
<1>1. scripts[routes[serving[w]].script] = routes[serving[w]].view
  BY DEF WorkersOK, CreateInv, RoutesOK, Nodes
<1> QED BY <1>1 DEF ScriptOf

(* A handler that ends leaves its request handle registered exactly when   *)
(* the view it was added for had no callback script.                       *)
THEOREM OnlyScriptlessLeaves == Spec => OnlyScriptlessLeavesHandle
<1>1. Init => WorkersOK
  BY DEF Init, WorkersOK, NoRoute
<1>2. ASSUME CreateInv, WorkersOK, [Next]_vars,
             NEW w \in Workers, serving[w] # NoRoute, serving'[w] = NoRoute
      PROVE  w \in rreg' <=> views[routes[serving[w]].view].callbackScript = NoScript
  <2>1. serving \in [Workers -> Nat] /\ w \in rreg
    BY <1>2 DEF WorkersOK
  <2>2. serving' # serving
    BY <1>2
  <2>3. ~ CreateStep /\ ~ UNCHANGED vars
    BY <2>2 DEF CreateStep, vars
  <2>4. ~ \E u \in Workers, i \in DOMAIN routes : Serve(u, i)
    <3> SUFFICES ASSUME NEW u \in Workers, NEW i \in DOMAIN routes, Serve(u, i) PROVE FALSE
      OBVIOUS
    <3>1. i # NoRoute /\ serving[u] = NoRoute /\ serving' = [serving EXCEPT ![u] = i]
      BY <1>2, LenProperties DEF Serve, CreateInv, RoutesOK, NoRoute
    <3> QED BY <1>2, <2>1, <3>1
  <2>5. PICK u \in Workers : Served(u) \/ ServedThrows(u)
    BY <1>2, <2>3, <2>4 DEF Next
  <2>6. u = w
    BY <1>2, <2>1, <2>5 DEF Served, ServedThrows
  <2>7. ScriptOf(serving[w]) = views[routes[serving[w]].view].callbackScript
    BY <1>2, OwnScript
  <2> QED BY <2>1, <2>5, <2>6, <2>7 DEF Served, ServedThrows
<1>3. CreateInv /\ WorkersOK /\ [Next]_vars =>
      [\A w \in Workers : serving[w] # NoRoute /\ serving'[w] = NoRoute =>
          (w \in rreg' <=> views[routes[serving[w]].view].callbackScript = NoScript)]_vars
  BY <1>2
<1> QED BY <1>1, <1>3, WorkersStep, CreateReachable, PTL DEF Spec, OnlyScriptlessLeavesHandle

-----------------------------------------------------------------------------
(* Type correctness.                                                       *)
Configured == {"partials", "native", "handlers", "roots", "register", "return", "done"}

(* Until it is read, the configuration is what was given, less its views.  *)
ConfGiven ==
    pc \in {"paths", "server"} => \E i \in DOMAIN Fields(data) :
        conf = [type |-> "object", fields |-> RemoveAt(Fields(data), i)]

ConfShaped ==
    pc \in Configured => DOMAIN conf = DOMAIN ServerDefault /\ IsList(conf.documentRoots)

ViewsShaped == \A i \in DOMAIN views : DOMAIN views[i] = DOMAIN ViewDefault

Shapes ==
    /\ ConfGiven /\ ConfShaped /\ ViewsShaped
    /\ DOMAIN scripts \subseteq DOMAIN views
    /\ native \in {"none", "built", "listening"}
    /\ rreg \subseteq Workers

(* The fields that are left are those of a configuration.                  *)
LEMMA ConfRead ==
    ASSUME Given, NEW i \in DOMAIN Fields(data), NEW json,
           json = [type |-> "object", fields |-> RemoveAt(Fields(data), i)],
           ServerConf(json) # Refused
    PROVE  /\ DOMAIN ServerConf(json) = DOMAIN ServerDefault
           /\ IsList(ServerConf(json).documentRoots)
<1>1. Fields(json) = RemoveAt(Fields(data), i)
  BY DEF Fields
<1>2. /\ IsList(Fields(data))
      /\ \A j \in DOMAIN Fields(data) : IsArray(Fields(data)[j].val)
            => IsList(Fields(data)[j].val.elements)
  BY ListsAssumption DEF Given
<1>3. IsList(Fields(json)) /\ \A j \in DOMAIN Fields(json) :
          \E k \in DOMAIN Fields(data) : Fields(json)[j] = Fields(data)[k]
  BY <1>1, <1>2, RemovedAt
<1>4. \A j \in DOMAIN Fields(json) : IsArray(Fields(json)[j].val) =>
          IsList(Fields(json)[j].val.elements)
  BY <1>2, <1>3
<1> QED BY <1>3, <1>4, ServerRead

LEMMA ViewsRead ==
    ASSUME Given, NEW i \in FirstViews, ViewsFit(i)
    PROVE  \A j \in DOMAIN ViewsAt(i) : DOMAIN ViewsAt(i)[j] = DOMAIN ViewDefault
<1>1. i \in DOMAIN Fields(data) /\ IsArray(Fields(data)[i].val)
  BY DEF FirstViews, ViewFields, ViewsFit
<1> DEFINE list == Fields(data)[i].val.elements
<1>2. \A j \in DOMAIN list : IsList(Fields(list[j]))
  BY <1>1, ListsAssumption DEF Given
<1>3. ViewsAt(i) = [j \in DOMAIN list |-> HttpView(list[j])]
  BY DEF ViewsAt, Elements
<1> HIDE DEF list
<1>4. \A j \in DOMAIN list : HttpView(list[j]) # Refused
  BY <1>3 DEF ViewsFit
<1> QED BY <1>2, <1>3, <1>4, ViewRead

LEMMA ShapesStep == Given /\ CreateInv /\ Shapes /\ [Next]_vars => Shapes'
<1> SUFFICES ASSUME Given, CreateInv, Shapes, [Next]_vars PROVE Shapes'
  OBVIOUS
<1> USE DEF Shapes
<1>1. data' = data
  BY DEF Next, CreateStep, Served, ServedThrows, Serve, vars
<1>2. ASSUME UNCHANGED <<views, conf, scripts, native, rreg>>, pc' = pc PROVE Shapes'
  BY <1>1, <1>2 DEF ConfGiven, ConfShaped, ViewsShaped
<1>3. ASSUME UNCHANGED <<views, conf, rreg>>, scripts' = scripts \/ scripts' = <<>>,
             native' \in {"none", "built", "listening"},
             \/ pc' \notin {"paths", "server"} \cup Configured
             \/ pc \in {"paths", "server"} /\ pc' \in {"paths", "server"}
             \/ pc \in Configured /\ pc' \in Configured
      PROVE  Shapes'
  <2>1. pc' \notin {"paths", "server"} \/ pc' \notin Configured
    BY DEF Configured
  <2>2. DOMAIN scripts' \subseteq DOMAIN views'
    BY <1>3
  <2> QED BY <1>1, <1>3, <2>1, <2>2 DEF ConfGiven, ConfShaped, ViewsShaped
<1>4. ASSUME scripts' = AddCallback(NextPath), NextPath <= Len(views)
      PROVE  DOMAIN scripts' \subseteq DOMAIN views
  <2>1. Len(paths) \in Nat /\ Len(views) \in Nat /\ DOMAIN views = 1 .. Len(views)
    BY LenProperties DEF CreateInv, ViewsOK, PathsOK
  <2>2. NextPath \in DOMAIN views
    BY <1>4, <2>1 DEF NextPath
  <2> QED BY <1>4, <2>2 DEF AddCallback
<1>5. CASE CreateStep
  <2>1. rreg' = rreg
    BY <1>5 DEF CreateStep
  <2> USE DEF Configured
  <2>2. CASE Extract
    <3>1. PICK i \in FirstViews :
            /\ ViewsFit(i) /\ views' = ViewsAt(i)
            /\ conf' = [type |-> "object", fields |-> RemoveAt(Fields(data), i)]
      BY <2>2 DEF Extract
    <3>2. pc' = "paths" /\ scripts' = <<>> /\ native' = native /\ i \in DOMAIN Fields(data)
      BY <2>2 DEF Extract, CreateInv, Owned, FirstViews, ViewFields
    <3>3. ViewsShaped'
      BY <3>1, ViewsRead DEF ViewsShaped
    <3> QED BY <1>1, <2>1, <3>1, <3>2, <3>3 DEF ConfGiven, ConfShaped
  <2>3. CASE ExtractFails
    BY <1>3, <2>1, <2>3 DEF ExtractFails, Fails
  <2>4. CASE PathFails
    <3>1. pc' = "unwind" /\ UNCHANGED <<views, conf, native>>
      BY <2>4 DEF PathFails
    <3> QED BY <1>4, <2>1, <2>4, <3>1 DEF PathFails, ConfGiven, ConfShaped, ViewsShaped
  <2>5. CASE CreatePath
    <3>1. pc' = pc /\ UNCHANGED <<views, conf, native>>
      BY <2>5 DEF CreatePath
    <3> QED BY <1>1, <1>4, <2>1, <2>5, <3>1
        DEF CreatePath, ConfGiven, ConfShaped, ViewsShaped
  <2>6. CASE PathsDone
    BY <1>3, <2>1, <2>6 DEF PathsDone
  <2>7. CASE ReadConf
    <3>1. pc = "server" /\ pc' = "partials" /\ ServerConf(conf) # Refused
          /\ conf' = ServerConf(conf) /\ UNCHANGED <<views, scripts, native>>
      BY <2>7 DEF ReadConf
    <3>2. ConfShaped'
      BY <3>1, ConfRead DEF ConfGiven, ConfShaped
    <3> QED BY <2>1, <3>1, <3>2 DEF ConfGiven, ViewsShaped
  <2>8. CASE ConfRefused \/ BuildFails
    BY <1>3, <2>1, <2>8 DEF ConfRefused, BuildFails, Unwinds
  <2>9. CASE LoadPartials
    BY <1>3, <2>1, <2>9 DEF LoadPartials
  <2>10. CASE BuildNative
    BY <1>3, <2>1, <2>10 DEF BuildNative
  <2>11. CASE AddHandler
    BY <1>2, <2>1, <2>11 DEF AddHandler
  <2>12. CASE AddRedirect
    BY <1>3, <2>1, <2>12 DEF AddRedirect
  <2>13. CASE AddRoot
    BY <1>2, <2>1, <2>13 DEF AddRoot
  <2>14. CASE Start
    BY <1>3, <2>1, <2>14 DEF Start
  <2>15. CASE UnwindStep
    BY <1>3, <2>1, <2>15 DEF UnwindStep, UnwindPaths, UnwindScripts
  <2>16. CASE Register \/ Return
    BY <1>3, <2>1, <2>16 DEF Register, Return
  <2> QED BY <1>5, <2>2, <2>3, <2>4, <2>5, <2>6, <2>7, <2>8, <2>9, <2>10, <2>11, <2>12,
             <2>13, <2>14, <2>15, <2>16 DEF CreateStep, PathStep, NativeStep
<1>6. ASSUME NEW w \in Workers,
             Served(w) \/ ServedThrows(w) \/ \E i \in DOMAIN routes : Serve(w, i)
      PROVE  Shapes'
  <2>1. UNCHANGED <<views, conf, scripts, native, pc>> /\ rreg' \subseteq Workers
    BY <1>6 DEF Served, ServedThrows, Serve, creation
  <2> QED BY <1>1, <2>1 DEF ConfGiven, ConfShaped, ViewsShaped
<1>7. CASE UNCHANGED vars
  BY <1>2, <1>7 DEF vars, creation
<1> QED BY <1>5, <1>6, <1>7 DEF Next

LEMMA ShapesReachable == Spec => [](Given /\ CreateInv /\ Shapes)
<1>1. Init => Given /\ Shapes
  BY DEF Init, Given, Shapes, ConfGiven, ConfShaped, ViewsShaped, Configured
<1>2. Given /\ [Next]_vars => Given'
  <2> SUFFICES ASSUME Given, [Next]_vars PROVE data' = data
    BY DEF Given
  <2> QED BY DEF Next, CreateStep, Served, ServedThrows, Serve, vars
<1> QED BY <1>1, <1>2, CreateReachable, ShapesStep, PTL DEF Spec

(* Every variable keeps to the values the code gives it: what was read     *)
(* from a configuration has the members of its record, for every           *)
(* configuration a script may give.                                        *)
THEOREM CreateTypeCorrect == Spec => []TypeOK
<1>1. CreateInv /\ Shapes /\ WorkersOK => TypeOK
  <2> SUFFICES ASSUME CreateInv, Shapes, WorkersOK PROVE TypeOK
    OBVIOUS
  <2>1. \A a \in DOMAIN scripts : scripts[a] \in DOMAIN views
    BY DEF CreateInv, Nodes, Shapes
  <2>2. \A i \in DOMAIN paths : paths[i].view \in DOMAIN views
    BY DEF CreateInv, PathsOK
  <2>3. serving \in [Workers -> {NoRoute} \cup DOMAIN routes]
    BY DEF WorkersOK
  <2>4. pc \in {"extract", "paths", "server", "partials", "native", "handlers", "roots",
                "register", "return", "unwind", "unwind scripts", "done", "failed"}
    BY DEF CreateInv, Owned, Building, Unwinding
  <2>5. ctx \in {"none", "call", "entry"}
    BY <2>4 DEF CreateInv, Owned, Building, Unwinding
  <2> QED BY <2>1, <2>2, <2>3, <2>4, <2>5
      DEF TypeOK, Shapes, ConfShaped, ViewsShaped, Configured
<1>2. Init => WorkersOK
  BY DEF Init, WorkersOK, NoRoute
<1> QED BY <1>1, <1>2, WorkersStep, ShapesReachable, PTL DEF Spec

-----------------------------------------------------------------------------
(* What is read from a configuration, field by field.                      *)

(* A record after n fields: one[i] is what field i gives alone, listed[i]  *)
(* the list the first i fields give, names[i] the name of field i.         *)
Described(names, one, listed, default, list, n, c) ==
    /\ c = Refused <=> \E i \in 1 .. n : one[i] = Refused
    /\ c # Refused =>
          /\ c[list] = listed[n]
          /\ \A name \in DOMAIN default \ {list} :
                \/ (\A i \in 1 .. n : names[i] # name) /\ c[name] = default[name]
                \/ \E i \in 1 .. n : /\ names[i] = name
                                     /\ \A j \in 1 .. n : names[j] = name => j <= i
                                     /\ c[name] = one[i][name]

(* A field keeps to itself.                                                *)
OwnField(name, c, new, alone, default, list) ==
    \A m \in DOMAIN default \ {list} : new[m] = IF m = name THEN alone[m] ELSE c[m]

(* Field fi is read into c as it is read alone.                            *)
AsAlone(fi, c, new, alone, default, list) ==
    /\ new = Refused <=> alone = Refused
    /\ new # Refused =>
          /\ OwnField(fi.name, c, new, alone, default, list)
          /\ fi.name # list => new[list] = c[list]
          /\ fi.name = list => \E l :
                /\ IsList(l)
                /\ new[list] = c[list] \o l
                /\ alone[list] = default[list] \o l

LEMMA NextDescribed ==
    ASSUME NEW names, NEW one, NEW listed, NEW default, NEW list, NEW n \in Nat,
           NEW c, NEW new, Described(names, one, listed, default, list, n, c),
           c = Refused => new = Refused,
           c # Refused => (new = Refused <=> one[n + 1] = Refused),
           new # Refused /\ c[list] = listed[n] => new[list] = listed[n + 1],
           new # Refused => OwnField(names[n + 1], c, new, one[n + 1], default, list)
    PROVE  Described(names, one, listed, default, list, n + 1, new)
<1>1. /\ \A i : i \in 1 .. n + 1 <=> i \in 1 .. n \/ i = n + 1
      /\ \A i \in 1 .. n : i <= n + 1 /\ ~(n + 1 <= i)
      /\ n + 1 <= n + 1
  OBVIOUS
<1>2. new = Refused <=> \E i \in 1 .. n + 1 : one[i] = Refused
  BY <1>1 DEF Described
<1>3. ASSUME new # Refused, NEW name \in DOMAIN default \ {list}
      PROVE  \/ (\A i \in 1 .. n + 1 : names[i] # name) /\ new[name] = default[name]
             \/ \E i \in 1 .. n + 1 : /\ names[i] = name
                                      /\ \A j \in 1 .. n + 1 : names[j] = name => j <= i
                                      /\ new[name] = one[i][name]
  <2>1. c # Refused /\ new[name] = IF name = names[n + 1] THEN one[n + 1][name] ELSE c[name]
    BY <1>3 DEF OwnField
  <2>2. CASE name = names[n + 1]
    BY <1>1, <2>1, <2>2
  <2>3. CASE name # names[n + 1] /\ \A i \in 1 .. n : names[i] # name
    <3>1. c[name] = default[name]
      BY <2>1, <2>3 DEF Described
    <3> QED BY <1>1, <2>1, <2>3, <3>1
  <2>4. CASE name # names[n + 1] /\ \E i \in 1 .. n : names[i] = name
    <3>1. PICK i \in 1 .. n : /\ names[i] = name
                              /\ \A j \in 1 .. n : names[j] = name => j <= i
                              /\ c[name] = one[i][name]
      BY <1>3, <2>1, <2>4 DEF Described
    <3> QED BY <1>1, <2>1, <2>4, <3>1
  <2> QED BY <2>2, <2>3, <2>4
<1>4. new # Refused => new[list] = listed[n + 1]
  BY DEF Described
<1> QED BY <1>2, <1>3, <1>4 DEF Described

(* What one more list leaves behind the first.                             *)
LEMMA CutOff ==
    ASSUME NEW s, NEW t, IsList(s), IsList(t)
    PROVE  SubSeq(s \o t, Len(s) + 1, Len(s \o t)) = t
<1> DEFINE all == s \o t
           rest == SubSeq(all, Len(s) + 1, Len(all))
<1>1. /\ IsList(all) /\ Len(all) = Len(s) + Len(t) /\ Len(s) \in Nat /\ Len(t) \in Nat
      /\ \A i \in 1 .. Len(s) + Len(t) : all[i] = IF i <= Len(s) THEN s[i] ELSE t[i - Len(s)]
  BY ConcatLists, ListType
<1> HIDE DEF all
<1>2. \A i \in Len(s) + 1 .. Len(all) : all[i] \in Range(all)
  <2>1. DOMAIN all = 1 .. Len(all)
    BY <1>1, ListType
  <2>2. Len(s) + 1 .. Len(all) \subseteq 1 .. Len(all)
    BY <1>1
  <2> QED BY <2>1, <2>2 DEF Range
<1>3. /\ rest \in Seq(Range(all))
      /\ Len(rest) = IF Len(s) + 1 <= Len(all) THEN Len(all) - (Len(s) + 1) + 1 ELSE 0
      /\ \A i \in 1 .. Len(all) - (Len(s) + 1) + 1 : rest[i] = all[Len(s) + 1 + i - 1]
  <2>1. Len(s) + 1 \in Int /\ Len(all) \in Int
    BY <1>1
  <2> HIDE DEF rest
  <2> QED BY <1>2, <2>1, SubSeqProperties DEF rest
<1> HIDE DEF rest
<1>4. Len(rest) = Len(t)
  BY <1>1, <1>3
<1>5. \A i \in 1 .. Len(t) : rest[i] = t[i]
  <2> SUFFICES ASSUME NEW i \in 1 .. Len(t) PROVE rest[i] = t[i]
    OBVIOUS
  <2>1. /\ i \in 1 .. Len(all) - (Len(s) + 1) + 1 /\ Len(s) + 1 + i - 1 = Len(s) + i
        /\ Len(s) + i \in 1 .. Len(s) + Len(t) /\ ~(Len(s) + i <= Len(s))
        /\ Len(s) + i - Len(s) = i
    BY <1>1
  <2> QED BY <1>1, <1>3, <2>1
<1>6. IsList(rest)
  BY <1>3, SeqIsList
<1>7. rest \in Seq(Range(rest) \cup Range(t)) /\ t \in Seq(Range(rest) \cup Range(t))
  BY <1>6, ListType, SeqMonotonic
<1>8. rest = t
  BY <1>1, <1>4, <1>5, <1>7, SeqEqual
<1> QED BY <1>8 DEF rest, all

(* A field alone is read like a field of a record, and changes only the    *)
(* member of its name.                                                     *)
LEMMA ServerFieldAlone ==
    ASSUME NEW c, NEW fi, DOMAIN c = DOMAIN ServerDefault, IsList(c.documentRoots),
           IsArray(fi.val) => IsList(fi.val.elements)
    PROVE  AsAlone(fi, c, ReadServer(c, fi), ReadServer(ServerDefault, fi), ServerDefault,
                   "documentRoots")
<1> DEFINE new == ReadServer(c, fi)
           one == ReadServer(ServerDefault, fi)
<1>1. "refused" \notin DOMAIN ServerDefault /\ "refused" \in DOMAIN Refused
  BY DEF ServerDefault, Refused
<1>2. CASE fi.name = "documentRoots" /\ IsArray(fi.val)
  <2> DEFINE l == Elements(fi.val, DocumentRoot)
  <2>1. IsList(l)
    <3>1. Len(fi.val.elements) \in Nat /\ DOMAIN fi.val.elements = 1 .. Len(fi.val.elements)
      BY <1>2, ListType
    <3> QED BY <3>1, MappedList DEF Elements
  <2>2. /\ new = AppendAll(c, "documentRoots", l)
        /\ one = AppendAll(ServerDefault, "documentRoots", l)
    BY <1>2 DEF ReadServer
  <2> HIDE DEF l, new, one
  <2>3. CASE \E i \in DOMAIN l : l[i] = Refused
    <3>1. new = Refused /\ one = Refused
      BY <2>2, <2>3 DEF AppendAll
    <3> QED BY <3>1 DEF AsAlone, new, one
  <2>4. CASE ~\E i \in DOMAIN l : l[i] = Refused
    <3>1. /\ new = [c EXCEPT !["documentRoots"] = @ \o l]
          /\ one = [ServerDefault EXCEPT !["documentRoots"] = @ \o l]
      BY <2>2, <2>4 DEF AppendAll
    <3>2. "documentRoots" \in DOMAIN ServerDefault
      BY DEF ServerDefault
    <3>3. /\ new.documentRoots = c.documentRoots \o l
          /\ one.documentRoots = ServerDefault.documentRoots \o l
          /\ DOMAIN new = DOMAIN ServerDefault /\ DOMAIN one = DOMAIN ServerDefault
          /\ \A m \in DOMAIN ServerDefault \ {"documentRoots"} : new[m] = c[m]
      BY <3>1, <3>2
    <3>4. new # Refused /\ one # Refused
      BY <1>1, <3>3
    <3>5. OwnField(fi.name, c, new, one, ServerDefault, "documentRoots")
      BY <1>2, <3>3 DEF OwnField
    <3> QED BY <1>2, <2>1, <3>3, <3>4, <3>5 DEF AsAlone, new, one
  <2> QED BY <2>3, <2>4
<1>3. CASE ~(fi.name = "documentRoots" /\ IsArray(fi.val))
  <2>1. \/ new = Refused /\ one = Refused
        \/ \E v : /\ fi.name \in DOMAIN ServerDefault \ {"documentRoots"}
                  /\ new = [c EXCEPT ![fi.name] = v]
                  /\ one = [ServerDefault EXCEPT ![fi.name] = v]
    <3>1. CASE fi.name \in {"numberOfThreads", "tcpPort", "readTimeoutMillis", "ipAddress",
                            "rootRedirectLocation"}
      <4>1. fi.name \in DOMAIN ServerDefault \ {"documentRoots"}
        BY <3>1 DEF ServerDefault
      <4>2. \E fits : new = Overwrite(c, fi, fits) /\ one = Overwrite(ServerDefault, fi, fits)
        BY <3>1 DEF ReadServer
      <4> QED BY <4>1, <4>2 DEF Overwrite
    <3>2. CASE fi.name \in {"ssl", "requestPayload", "mustache"}
      <4>1. fi.name \in DOMAIN ServerDefault \ {"documentRoots"}
        BY <3>2 DEF ServerDefault
      <4>2. \E v : new = Nested(c, fi.name, v) /\ one = Nested(ServerDefault, fi.name, v)
        BY <3>2 DEF ReadServer
      <4> QED BY <4>1, <4>2 DEF Nested
    <3>3. CASE fi.name \notin {"numberOfThreads", "tcpPort", "readTimeoutMillis", "ipAddress",
                               "rootRedirectLocation", "ssl", "requestPayload", "mustache"}
      BY <1>3, <3>3 DEF ReadServer
    <3> QED BY <3>1, <3>2, <3>3
  <2> HIDE DEF new, one
  <2>2. CASE new = Refused /\ one = Refused
    BY <2>2 DEF AsAlone, new, one
  <2>3. ASSUME NEW v, fi.name \in DOMAIN ServerDefault \ {"documentRoots"},
               new = [c EXCEPT ![fi.name] = v], one = [ServerDefault EXCEPT ![fi.name] = v]
        PROVE  /\ DOMAIN new = DOMAIN ServerDefault /\ DOMAIN one = DOMAIN ServerDefault
               /\ fi.name # "documentRoots" /\ new.documentRoots = c.documentRoots
               /\ OwnField(fi.name, c, new, one, ServerDefault, "documentRoots")
    <3>1. fi.name # "documentRoots" /\ "documentRoots" \in DOMAIN ServerDefault
      <4>1. "documentRoots" \in DOMAIN ServerDefault
        BY DEF ServerDefault
      <4> QED BY <2>3, <4>1
    <3>2. /\ DOMAIN new = DOMAIN ServerDefault /\ DOMAIN one = DOMAIN ServerDefault
          /\ \A m \in DOMAIN ServerDefault : new[m] = IF m = fi.name THEN v ELSE c[m]
          /\ one[fi.name] = v
      BY <2>3
    <3> QED BY <3>1, <3>2 DEF OwnField
  <2> QED BY <1>1, <2>1, <2>2, <2>3 DEF AsAlone, new, one
<1> QED BY <1>2, <1>3

LEMMA RootFieldAlone ==
    ASSUME NEW c, NEW fi, DOMAIN c = DOMAIN RootDefault, IsList(c.mimeTypes),
           IsArray(fi.val) => IsList(fi.val.elements)
    PROVE  /\ AsAlone(fi, c, ReadRoot(c, fi), ReadRoot(RootDefault, fi), RootDefault,
                      "mimeTypes")
           /\ ReadRoot(c, fi) # Refused => DOMAIN ReadRoot(c, fi) = DOMAIN RootDefault
<1> DEFINE new == ReadRoot(c, fi)
           one == ReadRoot(RootDefault, fi)
<1>1. "refused" \notin DOMAIN RootDefault /\ "refused" \in DOMAIN Refused
  BY DEF RootDefault, Refused
<1>d. "mimeTypes" \in DOMAIN RootDefault
  BY DEF RootDefault
<1>2. CASE fi.name = "mimeTypes" /\ IsArray(fi.val)
  <2> DEFINE l == Elements(fi.val, MimeType)
  <2>1. IsList(l)
    <3>1. Len(fi.val.elements) \in Nat /\ DOMAIN fi.val.elements = 1 .. Len(fi.val.elements)
      BY <1>2, ListType
    <3> QED BY <3>1, MappedList DEF Elements
  <2>2. new = AppendAll(c, "mimeTypes", l) /\ one = AppendAll(RootDefault, "mimeTypes", l)
    BY <1>2 DEF ReadRoot
  <2> HIDE DEF l, new, one
  <2>3. CASE \E i \in DOMAIN l : l[i] = Refused
    <3>1. new = Refused /\ one = Refused
      BY <2>2, <2>3 DEF AppendAll
    <3> QED BY <3>1 DEF AsAlone, new, one
  <2>4. CASE ~\E i \in DOMAIN l : l[i] = Refused
    <3>1. /\ new = [c EXCEPT !["mimeTypes"] = @ \o l]
          /\ one = [RootDefault EXCEPT !["mimeTypes"] = @ \o l]
      BY <2>2, <2>4 DEF AppendAll
    <3>3. /\ new.mimeTypes = c.mimeTypes \o l /\ one.mimeTypes = RootDefault.mimeTypes \o l
          /\ DOMAIN new = DOMAIN RootDefault /\ DOMAIN one = DOMAIN RootDefault
          /\ \A m \in DOMAIN RootDefault \ {"mimeTypes"} : new[m] = c[m]
      BY <1>d, <3>1
    <3>4. new # Refused /\ one # Refused
      BY <1>1, <3>3
    <3>5. OwnField(fi.name, c, new, one, RootDefault, "mimeTypes")
      BY <1>2, <3>3 DEF OwnField
    <3> QED BY <1>2, <2>1, <3>3, <3>4, <3>5 DEF AsAlone, new, one
  <2> QED BY <2>3, <2>4
<1>3. CASE ~(fi.name = "mimeTypes" /\ IsArray(fi.val))
  <2>1. \/ new = Refused /\ one = Refused
        \/ \E v : /\ fi.name \in DOMAIN RootDefault \ {"mimeTypes"}
                  /\ new = [c EXCEPT ![fi.name] = v]
                  /\ one = [RootDefault EXCEPT ![fi.name] = v]
    <3>1. CASE fi.name \in {"resource", "dirPath", "zipPath", "zipInnerPrefix",
                            "resourceLoaderPrefix", "useResourceLoader", "cacheMaxAgeSeconds"}
      <4>1. fi.name \in DOMAIN RootDefault \ {"mimeTypes"}
        BY <3>1 DEF RootDefault
      <4>2. \E fits : new = Overwrite(c, fi, fits) /\ one = Overwrite(RootDefault, fi, fits)
        BY <3>1 DEF ReadRoot
      <4> QED BY <4>1, <4>2 DEF Overwrite
    <3>2. CASE fi.name \notin {"resource", "dirPath", "zipPath", "zipInnerPrefix",
                               "resourceLoaderPrefix", "useResourceLoader",
                               "cacheMaxAgeSeconds"}
      BY <1>3, <3>2 DEF ReadRoot
    <3> QED BY <3>1, <3>2
  <2> HIDE DEF new, one
  <2>2. CASE new = Refused /\ one = Refused
    BY <2>2 DEF AsAlone, new, one
  <2>3. ASSUME NEW v, fi.name \in DOMAIN RootDefault \ {"mimeTypes"},
               new = [c EXCEPT ![fi.name] = v], one = [RootDefault EXCEPT ![fi.name] = v]
        PROVE  /\ DOMAIN new = DOMAIN RootDefault /\ DOMAIN one = DOMAIN RootDefault
               /\ fi.name # "mimeTypes" /\ new.mimeTypes = c.mimeTypes
               /\ OwnField(fi.name, c, new, one, RootDefault, "mimeTypes")
    <3>1. fi.name # "mimeTypes"
      BY <2>3
    <3>2. /\ DOMAIN new = DOMAIN RootDefault /\ DOMAIN one = DOMAIN RootDefault
          /\ \A m \in DOMAIN RootDefault : new[m] = IF m = fi.name THEN v ELSE c[m]
          /\ one[fi.name] = v
      BY <2>3
    <3> QED BY <1>d, <3>1, <3>2 DEF OwnField
  <2> QED BY <1>1, <2>1, <2>2, <2>3 DEF AsAlone, new, one
<1> QED BY <1>2, <1>3

(* Nothing is shown of the lists by induction: only that they are runs.    *)
Anything(fields, n, listed) == TRUE

(* The document roots that the fields give one after the other.            *)
AddRoots(roots, fi) ==
    IF fi.name = "documentRoots"
    THEN roots \o SubSeq(Parse(Alone(fi), ServerDefault, ReadServer)["documentRoots"],
                         Len(ServerDefault["documentRoots"]) + 1,
                         Len(Parse(Alone(fi), ServerDefault, ReadServer)["documentRoots"]))
    ELSE roots

RootsGiven == INSTANCE FoldProofs WITH
    Step <- AddRoots, default <- ServerDefault["documentRoots"], Good <- Anything

ServerSoFar(fields, n, c) ==
    /\ c # Refused => DOMAIN c = DOMAIN ServerDefault /\ IsList(c.documentRoots)
    /\ \A run : RootsGiven!Steps(fields, Len(fields), run) =>
          Described([i \in DOMAIN fields |-> fields[i].name],
                    [i \in DOMAIN fields |-> ReadServer(ServerDefault, fields[i])],
                    run, ServerDefault, "documentRoots", n, c)

ServerReads == INSTANCE FoldProofs WITH
    Step <- ServerStep, default <- ServerDefault, Good <- ServerSoFar

LEMMA ServerDefaultList ==
    /\ ServerDefault # Refused /\ "documentRoots" \in DOMAIN ServerDefault
    /\ ServerDefault.documentRoots = <<>> /\ IsList(ServerDefault.documentRoots)
<1>1. "refused" \notin DOMAIN ServerDefault /\ "refused" \in DOMAIN Refused
  BY DEF ServerDefault, Refused
<1>2. <<>> \in Seq({})
  BY EmptySeq
<1>3. IsList(<<>>)
  BY <1>2, SeqIsList
<1>4. ServerDefault.documentRoots = <<>> /\ "documentRoots" \in DOMAIN ServerDefault
  BY DEF ServerDefault
<1> QED BY <1>1, <1>3, <1>4

LEMMA ServerAlone ==
    ASSUME NEW fi
    PROVE  Parse(Alone(fi), ServerDefault, ReadServer) = ReadServer(ServerDefault, fi)
<1>1. Fields(Alone(fi)) = <<fi>>
  BY DEF Fields, Alone
<1>2. Parse(Alone(fi), ServerDefault, ReadServer) = ServerReads!Result(<<fi>>)
  BY <1>1 DEF Parse, ServerReads!Result, ServerStep
<1>3. ServerReads!Result(<<fi>>) = ServerStep(ServerDefault, fi)
  BY ServerReads!ResultOfOne
<1> QED BY <1>2, <1>3, ServerDefaultList DEF ServerStep

LEMMA RootsGrow ==
    ASSUME NEW fields, NEW run, Len(fields) \in Nat,
           RootsGiven!Steps(fields, Len(fields), run)
    PROVE  /\ run[0] = ServerDefault.documentRoots
           /\ \A n \in Nat : n < Len(fields) => run[n + 1] = AddRoots(run[n], fields[n + 1])
<1>1. \A i \in 0 .. Len(fields) : run[i] = IF i = 0 THEN ServerDefault["documentRoots"]
                                           ELSE AddRoots(run[i - 1], fields[i])
  BY DEF RootsGiven!Steps
<1> QED BY <1>1

LEMMA ServerSoFarStep ==
    ASSUME NEW fields, Len(fields) \in Nat, DOMAIN fields = 1 .. Len(fields),
           NEW c, NEW n \in Nat, n < Len(fields),
           IsArray(fields[n + 1].val) => IsList(fields[n + 1].val.elements),
           ServerSoFar(fields, n, c)
    PROVE  ServerSoFar(fields, n + 1, ServerStep(c, fields[n + 1]))
<1> DEFINE fi == fields[n + 1]
           new == ServerStep(c, fi)
           one == ReadServer(ServerDefault, fi)
           names == [i \in DOMAIN fields |-> fields[i].name]
           ones == [i \in DOMAIN fields |-> ReadServer(ServerDefault, fields[i])]
<1>1. n + 1 \in DOMAIN fields
  OBVIOUS
<1>2. names[n + 1] = fi.name /\ ones[n + 1] = one
  BY <1>1
<1>3. c = Refused => new = Refused
  BY DEF ServerStep
<1>4. c # Refused => new = ReadServer(c, fi)
  BY DEF ServerStep
<1>5. c # Refused => DOMAIN c = DOMAIN ServerDefault /\ IsList(c.documentRoots)
  BY DEF ServerSoFar
<1>6. new # Refused => DOMAIN new = DOMAIN ServerDefault /\ IsList(new.documentRoots)
  BY <1>3, <1>4, <1>5, ServerFieldRead
<1>7. ASSUME c # Refused
      PROVE  AsAlone(fi, c, new, one, ServerDefault, "documentRoots")
  <2>1. DOMAIN c = DOMAIN ServerDefault /\ IsList(c.documentRoots)
    BY <1>5, <1>7
  <2>2. IsArray(fi.val) => IsList(fi.val.elements)
    OBVIOUS
  <2>3. new = ReadServer(c, fi) /\ one = ReadServer(ServerDefault, fi)
    BY <1>4, <1>7
  <2> HIDE DEF new, one, fi, names, ones
  <2> QED BY <2>1, <2>2, <2>3, ServerFieldAlone
<1> HIDE DEF new, one, names, ones, fi
<1>8. ASSUME NEW run, RootsGiven!Steps(fields, Len(fields), run), new # Refused,
             c["documentRoots"] = run[n]
      PROVE  new["documentRoots"] = run[n + 1]
  <2>1. run[n + 1] = AddRoots(run[n], fi)
    BY <1>8, RootsGrow DEF fi
  <2>2. CASE fi.name # "documentRoots"
    BY <1>3, <1>7, <1>8, <2>1, <2>2 DEF AddRoots, AsAlone
  <2>3. CASE fi.name = "documentRoots"
    <3>1. PICK l : /\ IsList(l) /\ new.documentRoots = c.documentRoots \o l
                   /\ one.documentRoots = ServerDefault.documentRoots \o l
      BY <1>3, <1>7, <1>8, <2>3 DEF AsAlone
    <3>2. SubSeq(one.documentRoots, Len(ServerDefault.documentRoots) + 1,
                 Len(one.documentRoots)) = l
      BY <3>1, CutOff, ServerDefaultList
    <3>3. run[n + 1] = run[n] \o l
      BY <2>1, <2>3, <3>2, ServerAlone DEF AddRoots, one
    <3> QED BY <1>8, <3>1, <3>3
  <2> QED BY <2>2, <2>3
<1>9. ASSUME NEW run, RootsGiven!Steps(fields, Len(fields), run)
      PROVE  Described(names, ones, run, ServerDefault, "documentRoots", n + 1, new)
  <2>1. Described(names, ones, run, ServerDefault, "documentRoots", n, c)
    BY <1>9 DEF ServerSoFar, names, ones
  <2>2. /\ c # Refused => (new = Refused <=> ones[n + 1] = Refused)
        /\ new # Refused =>
              OwnField(names[n + 1], c, new, ones[n + 1], ServerDefault, "documentRoots")
    BY <1>2, <1>3, <1>7 DEF AsAlone
  <2>3. new # Refused /\ c["documentRoots"] = run[n] =>
           new["documentRoots"] = run[n + 1]
    BY <1>8, <1>9
  <2> QED BY <1>3, <2>1, <2>2, <2>3, NextDescribed
<1> QED BY <1>6, <1>9 DEF ServerSoFar, new, names, ones, fi

LEMMA ServerByField ==
    ASSUME NEW json, IsList(Fields(json)),
           \A i \in DOMAIN Fields(json) : IsArray(Fields(json)[i].val) =>
              IsList(Fields(json)[i].val.elements)
    PROVE  FieldByField(json, ServerDefault, ReadServer, "documentRoots")
<1> DEFINE fields == Fields(json)
           whole == Parse(json, ServerDefault, ReadServer)
           names == [i \in DOMAIN fields |-> fields[i].name]
           ones == [i \in DOMAIN fields |-> ReadServer(ServerDefault, fields[i])]
<1>1. whole = ServerReads!Result(fields)
  BY DEF Parse, ServerReads!Result, ServerStep
<1>2. Len(fields) \in Nat /\ DOMAIN fields = 1 .. Len(fields)
  BY ListType
<1> HIDE DEF fields, whole
<1>3. ServerSoFar(fields, 0, ServerDefault)
  <2>1. ASSUME NEW run, RootsGiven!Steps(fields, Len(fields), run)
        PROVE  Described(names, ones, run, ServerDefault, "documentRoots", 0, ServerDefault)
    <3>1. run[0] = ServerDefault.documentRoots
      BY <1>2, <2>1, RootsGrow
    <3>2. 1 .. 0 = {}
      OBVIOUS
    <3> QED BY <3>1, <3>2, ServerDefaultList DEF Described
  <2> QED BY <2>1, ServerDefaultList DEF ServerSoFar
<1>4. \A c : \A n \in Nat : n < Len(fields) /\ ServerSoFar(fields, n, c) =>
         ServerSoFar(fields, n + 1, ServerStep(c, fields[n + 1]))
  <2> SUFFICES ASSUME NEW c, NEW n \in Nat, n < Len(fields), ServerSoFar(fields, n, c)
               PROVE  ServerSoFar(fields, n + 1, ServerStep(c, fields[n + 1]))
    OBVIOUS
  <2>1. n + 1 \in DOMAIN fields
    BY <1>2
  <2>2. IsArray(fields[n + 1].val) => IsList(fields[n + 1].val.elements)
    BY <2>1 DEF fields
  <2> QED BY <1>2, <2>2, ServerSoFarStep
<1>5. ServerSoFar(fields, Len(fields), whole)
  BY <1>1, <1>2, <1>3, <1>4, ServerReads!ResultGood
<1>6. PICK run : /\ RootsGiven!Steps(fields, Len(fields), run)
                 /\ RootsGiven!Result(fields) = run[Len(fields)]
  BY <1>2, RootsGiven!ResultOfRun
<1>7. Described(names, ones, run, ServerDefault, "documentRoots", Len(fields), whole)
  BY <1>5, <1>6 DEF ServerSoFar
<1>8. \A i \in DOMAIN fields :
         /\ names[i] = fields[i].name
         /\ ones[i] = Parse(Alone(fields[i]), ServerDefault, ReadServer)
  BY ServerAlone
<1> HIDE DEF names, ones
<1>9. /\ whole = Refused <=> \E i \in DOMAIN fields :
            Parse(Alone(fields[i]), ServerDefault, ReadServer) = Refused
      /\ whole # Refused => whole["documentRoots"] = RootsGiven!Result(fields)
  BY <1>2, <1>6, <1>7, <1>8 DEF Described
<1>10. ASSUME whole # Refused, NEW name \in DOMAIN ServerDefault \ {"documentRoots"}
       PROVE  LET given == {i \in DOMAIN fields : fields[i].name = name} IN
              \/ given = {} /\ whole[name] = ServerDefault[name]
              \/ \E i \in given :
                    /\ \A j \in given : j <= i
                    /\ whole[name] =
                          Parse(Alone(fields[i]), ServerDefault, ReadServer)[name]
  <2>1. \/ (\A i \in 1 .. Len(fields) : names[i] # name) /\ whole[name] = ServerDefault[name]
        \/ \E i \in 1 .. Len(fields) :
              /\ names[i] = name
              /\ \A j \in 1 .. Len(fields) : names[j] = name => j <= i
              /\ whole[name] = ones[i][name]
    BY <1>7, <1>10 DEF Described
  <2> QED BY <1>2, <1>8, <2>1
<1> QED BY <1>9, <1>10 DEF FieldByField, RootsGiven!Result, AddRoots, fields, whole
RootStep(c, fi) == IF c = Refused THEN Refused ELSE ReadRoot(c, fi)

(* The types that the fields of a root give one after the other.            *)
AddMimes(roots, fi) ==
    IF fi.name = "mimeTypes"
    THEN roots \o SubSeq(Parse(Alone(fi), RootDefault, ReadRoot)["mimeTypes"],
                         Len(RootDefault["mimeTypes"]) + 1,
                         Len(Parse(Alone(fi), RootDefault, ReadRoot)["mimeTypes"]))
    ELSE roots

MimesGiven == INSTANCE FoldProofs WITH
    Step <- AddMimes, default <- RootDefault["mimeTypes"], Good <- Anything

RootSoFar(fields, n, c) ==
    /\ c # Refused => DOMAIN c = DOMAIN RootDefault /\ IsList(c.mimeTypes)
    /\ \A run : MimesGiven!Steps(fields, Len(fields), run) =>
          Described([i \in DOMAIN fields |-> fields[i].name],
                    [i \in DOMAIN fields |-> ReadRoot(RootDefault, fields[i])],
                    run, RootDefault, "mimeTypes", n, c)

RootReads == INSTANCE FoldProofs WITH
    Step <- RootStep, default <- RootDefault, Good <- RootSoFar

LEMMA RootDefaultList ==
    RootDefault # Refused /\ "mimeTypes" \in DOMAIN RootDefault /\ IsList(RootDefault.mimeTypes)
<1>1. "refused" \notin DOMAIN RootDefault /\ "refused" \in DOMAIN Refused
  BY DEF RootDefault, Refused
<1>2. ASSUME NEW a, NEW b PROVE IsList(<<a, b>>)
  <2>1. <<a, b>> \in Seq({a, b})
    OBVIOUS
  <2> QED BY <2>1, SeqIsList
<1>3. IsList(DefaultMimes)
  BY <1>2 DEF DefaultMimes
<1>4. RootDefault.mimeTypes = DefaultMimes /\ "mimeTypes" \in DOMAIN RootDefault
  BY DEF RootDefault
<1> QED BY <1>1, <1>3, <1>4

LEMMA RootAlone ==
    ASSUME NEW fi
    PROVE  Parse(Alone(fi), RootDefault, ReadRoot) = ReadRoot(RootDefault, fi)
<1>1. Fields(Alone(fi)) = <<fi>>
  BY DEF Fields, Alone
<1>2. Parse(Alone(fi), RootDefault, ReadRoot) = RootReads!Result(<<fi>>)
  BY <1>1 DEF Parse, RootReads!Result, RootStep
<1>3. RootReads!Result(<<fi>>) = RootStep(RootDefault, fi)
  BY RootReads!ResultOfOne
<1> QED BY <1>2, <1>3, RootDefaultList DEF RootStep

LEMMA MimesGrow ==
    ASSUME NEW fields, NEW run, Len(fields) \in Nat,
           MimesGiven!Steps(fields, Len(fields), run)
    PROVE  /\ run[0] = RootDefault.mimeTypes
           /\ \A n \in Nat : n < Len(fields) => run[n + 1] = AddMimes(run[n], fields[n + 1])
<1>1. \A i \in 0 .. Len(fields) : run[i] = IF i = 0 THEN RootDefault["mimeTypes"]
                                           ELSE AddMimes(run[i - 1], fields[i])
  BY DEF MimesGiven!Steps
<1> QED BY <1>1

LEMMA RootSoFarStep ==
    ASSUME NEW fields, Len(fields) \in Nat, DOMAIN fields = 1 .. Len(fields),
           NEW c, NEW n \in Nat, n < Len(fields),
           IsArray(fields[n + 1].val) => IsList(fields[n + 1].val.elements),
           RootSoFar(fields, n, c)
    PROVE  RootSoFar(fields, n + 1, RootStep(c, fields[n + 1]))
<1> DEFINE fi == fields[n + 1]
           new == RootStep(c, fi)
           one == ReadRoot(RootDefault, fi)
           names == [i \in DOMAIN fields |-> fields[i].name]
           ones == [i \in DOMAIN fields |-> ReadRoot(RootDefault, fields[i])]
<1>1. n + 1 \in DOMAIN fields
  OBVIOUS
<1>2. names[n + 1] = fi.name /\ ones[n + 1] = one
  BY <1>1
<1>3. c = Refused => new = Refused
  BY DEF RootStep
<1>4. c # Refused => new = ReadRoot(c, fi)
  BY DEF RootStep
<1>5. c # Refused => DOMAIN c = DOMAIN RootDefault /\ IsList(c.mimeTypes)
  BY DEF RootSoFar
<1>7. ASSUME c # Refused
      PROVE  AsAlone(fi, c, new, one, RootDefault, "mimeTypes")
  <2>1. DOMAIN c = DOMAIN RootDefault /\ IsList(c.mimeTypes)
    BY <1>5, <1>7
  <2>2. IsArray(fi.val) => IsList(fi.val.elements)
    OBVIOUS
  <2>3. new = ReadRoot(c, fi) /\ one = ReadRoot(RootDefault, fi)
    BY <1>4, <1>7
  <2> HIDE DEF new, one, fi, names, ones
  <2> QED BY <2>1, <2>2, <2>3, RootFieldAlone
<1>6. new # Refused => DOMAIN new = DOMAIN RootDefault /\ IsList(new.mimeTypes)
  <2> SUFFICES ASSUME new # Refused
               PROVE  DOMAIN new = DOMAIN RootDefault /\ IsList(new.mimeTypes)
    OBVIOUS
  <2>1. c # Refused /\ new = ReadRoot(c, fi)
    BY <1>3, <1>4
  <2>2. IsArray(fi.val) => IsList(fi.val.elements)
    OBVIOUS
  <2>3. AsAlone(fi, c, new, one, RootDefault, "mimeTypes")
    BY <1>7, <2>1
  <2> HIDE DEF new, one, fi, names, ones
  <2>4. DOMAIN new = DOMAIN RootDefault
    BY <1>5, <2>1, <2>2, RootFieldAlone
  <2>5. CASE fi.name # "mimeTypes"
    BY <1>5, <2>1, <2>3, <2>4, <2>5 DEF AsAlone
  <2>6. CASE fi.name = "mimeTypes"
    <3>1. PICK l : IsList(l) /\ new["mimeTypes"] = c["mimeTypes"] \o l
      BY <2>3, <2>6 DEF AsAlone
    <3> QED BY <1>5, <2>1, <2>4, <3>1, ConcatLists
  <2> QED BY <2>4, <2>5, <2>6
<1> HIDE DEF new, one, names, ones, fi
<1>8. ASSUME NEW run, MimesGiven!Steps(fields, Len(fields), run), new # Refused,
             c["mimeTypes"] = run[n]
      PROVE  new["mimeTypes"] = run[n + 1]
  <2>1. run[n + 1] = AddMimes(run[n], fi)
    BY <1>8, MimesGrow DEF fi
  <2>2. CASE fi.name # "mimeTypes"
    BY <1>3, <1>7, <1>8, <2>1, <2>2 DEF AddMimes, AsAlone
  <2>3. CASE fi.name = "mimeTypes"
    <3>1. PICK l : /\ IsList(l) /\ new.mimeTypes = c.mimeTypes \o l
                   /\ one.mimeTypes = RootDefault.mimeTypes \o l
      BY <1>3, <1>7, <1>8, <2>3 DEF AsAlone
    <3>2. SubSeq(one.mimeTypes, Len(RootDefault.mimeTypes) + 1,
                 Len(one.mimeTypes)) = l
      BY <3>1, CutOff, RootDefaultList
    <3>3. run[n + 1] = run[n] \o l
      BY <2>1, <2>3, <3>2, RootAlone DEF AddMimes, one
    <3> QED BY <1>8, <3>1, <3>3
  <2> QED BY <2>2, <2>3
<1>9. ASSUME NEW run, MimesGiven!Steps(fields, Len(fields), run)
      PROVE  Described(names, ones, run, RootDefault, "mimeTypes", n + 1, new)
  <2>1. Described(names, ones, run, RootDefault, "mimeTypes", n, c)
    BY <1>9 DEF RootSoFar, names, ones
  <2>2. /\ c # Refused => (new = Refused <=> ones[n + 1] = Refused)
        /\ new # Refused =>
              OwnField(names[n + 1], c, new, ones[n + 1], RootDefault, "mimeTypes")
    BY <1>2, <1>3, <1>7 DEF AsAlone
  <2>3. new # Refused /\ c["mimeTypes"] = run[n] =>
           new["mimeTypes"] = run[n + 1]
    BY <1>8, <1>9
  <2> QED BY <1>3, <2>1, <2>2, <2>3, NextDescribed
<1> QED BY <1>6, <1>9 DEF RootSoFar, new, names, ones, fi

LEMMA RootByField ==
    ASSUME NEW json, IsList(Fields(json)),
           \A i \in DOMAIN Fields(json) : IsArray(Fields(json)[i].val) =>
              IsList(Fields(json)[i].val.elements)
    PROVE  FieldByField(json, RootDefault, ReadRoot, "mimeTypes")
<1> DEFINE fields == Fields(json)
           whole == Parse(json, RootDefault, ReadRoot)
           names == [i \in DOMAIN fields |-> fields[i].name]
           ones == [i \in DOMAIN fields |-> ReadRoot(RootDefault, fields[i])]
<1>1. whole = RootReads!Result(fields)
  BY DEF Parse, RootReads!Result, RootStep
<1>2. Len(fields) \in Nat /\ DOMAIN fields = 1 .. Len(fields)
  BY ListType
<1> HIDE DEF fields, whole
<1>3. RootSoFar(fields, 0, RootDefault)
  <2>1. ASSUME NEW run, MimesGiven!Steps(fields, Len(fields), run)
        PROVE  Described(names, ones, run, RootDefault, "mimeTypes", 0, RootDefault)
    <3>1. run[0] = RootDefault.mimeTypes
      BY <1>2, <2>1, MimesGrow
    <3>2. 1 .. 0 = {}
      OBVIOUS
    <3> QED BY <3>1, <3>2, RootDefaultList DEF Described
  <2> QED BY <2>1, RootDefaultList DEF RootSoFar
<1>4. \A c : \A n \in Nat : n < Len(fields) /\ RootSoFar(fields, n, c) =>
         RootSoFar(fields, n + 1, RootStep(c, fields[n + 1]))
  <2> SUFFICES ASSUME NEW c, NEW n \in Nat, n < Len(fields), RootSoFar(fields, n, c)
               PROVE  RootSoFar(fields, n + 1, RootStep(c, fields[n + 1]))
    OBVIOUS
  <2>1. n + 1 \in DOMAIN fields
    BY <1>2
  <2>2. IsArray(fields[n + 1].val) => IsList(fields[n + 1].val.elements)
    BY <2>1 DEF fields
  <2> QED BY <1>2, <2>2, RootSoFarStep
<1>5. RootSoFar(fields, Len(fields), whole)
  BY <1>1, <1>2, <1>3, <1>4, RootReads!ResultGood
<1>6. PICK run : /\ MimesGiven!Steps(fields, Len(fields), run)
                 /\ MimesGiven!Result(fields) = run[Len(fields)]
  BY <1>2, MimesGiven!ResultOfRun
<1>7. Described(names, ones, run, RootDefault, "mimeTypes", Len(fields), whole)
  BY <1>5, <1>6 DEF RootSoFar
<1>8. \A i \in DOMAIN fields :
         /\ names[i] = fields[i].name
         /\ ones[i] = Parse(Alone(fields[i]), RootDefault, ReadRoot)
  BY RootAlone
<1> HIDE DEF names, ones
<1>9. /\ whole = Refused <=> \E i \in DOMAIN fields :
            Parse(Alone(fields[i]), RootDefault, ReadRoot) = Refused
      /\ whole # Refused => whole["mimeTypes"] = MimesGiven!Result(fields)
  BY <1>2, <1>6, <1>7, <1>8 DEF Described
<1>10. ASSUME whole # Refused, NEW name \in DOMAIN RootDefault \ {"mimeTypes"}
       PROVE  LET given == {i \in DOMAIN fields : fields[i].name = name} IN
              \/ given = {} /\ whole[name] = RootDefault[name]
              \/ \E i \in given :
                    /\ \A j \in given : j <= i
                    /\ whole[name] =
                          Parse(Alone(fields[i]), RootDefault, ReadRoot)[name]
  <2>1. \/ (\A i \in 1 .. Len(fields) : names[i] # name) /\ whole[name] = RootDefault[name]
        \/ \E i \in 1 .. Len(fields) :
              /\ names[i] = name
              /\ \A j \in 1 .. Len(fields) : names[j] = name => j <= i
              /\ whole[name] = ones[i][name]
    BY <1>7, <1>10 DEF Described
  <2> QED BY <1>2, <1>8, <2>1
<1> QED BY <1>9, <1>10 DEF FieldByField, MimesGiven!Result, AddMimes, fields, whole
(* An array of a configuration is a list, and so are the arrays that stand *)
(* in the objects it holds.                                                *)
ArrayFits(v) == IsArray(v) =>
    /\ IsList(v.elements)
    /\ \A j \in DOMAIN v.elements :
          /\ IsList(Fields(v.elements[j]))
          /\ \A k \in DOMAIN Fields(v.elements[j]) :
                IsArray(Fields(v.elements[j])[k].val) =>
                   IsList(Fields(v.elements[j])[k].val.elements)

(* What extract_and_delete_views leaves of a configuration is read as its  *)
(* fields describe it, and so is each document root in it: the order of    *)
(* the fields and what stands beside them change nothing, the last of      *)
(* several fields of a name counts, lists are joined after the default,    *)
(* and one field that does not fit refuses the whole.                      *)
THEOREM ReadAsDescribed == Spec => []ConfigAsDescribed
<1>1. ASSUME Given, Shapes PROVE ConfigAsDescribed
  <2> SUFFICES ASSUME pc = "server"
               PROVE  /\ FieldByField(conf, ServerDefault, ReadServer, "documentRoots")
                      /\ \A root \in Roots(conf) :
                            FieldByField(root, RootDefault, ReadRoot, "mimeTypes")
    BY DEF ConfigAsDescribed
  <2>1. PICK i \in DOMAIN Fields(data) :
           conf = [type |-> "object", fields |-> RemoveAt(Fields(data), i)]
    BY <1>1 DEF Shapes, ConfGiven
  <2>2. Fields(conf) = RemoveAt(Fields(data), i)
    BY <2>1 DEF Fields
  <2>3. /\ IsList(Fields(data))
        /\ \A k \in DOMAIN Fields(data) : ArrayFits(Fields(data)[k].val)
    BY <1>1, ListsAssumption DEF Given, ArrayFits
  <2>4. IsList(Fields(conf)) /\ \A j \in DOMAIN Fields(conf) :
            \E k \in DOMAIN Fields(data) : Fields(conf)[j] = Fields(data)[k]
    BY <2>2, <2>3, RemovedAt
  <2>5. \A j \in DOMAIN Fields(conf) : ArrayFits(Fields(conf)[j].val)
    BY <2>3, <2>4
  <2>6. FieldByField(conf, ServerDefault, ReadServer, "documentRoots")
    <3>1. \A j \in DOMAIN Fields(conf) : IsArray(Fields(conf)[j].val) =>
             IsList(Fields(conf)[j].val.elements)
      BY <2>5 DEF ArrayFits
    <3> QED BY <2>4, <3>1, ServerByField
  <2>7. ASSUME NEW root \in Roots(conf)
        PROVE  FieldByField(root, RootDefault, ReadRoot, "mimeTypes")
    <3>1. PICK j \in DOMAIN Fields(conf) :
             /\ IsArray(Fields(conf)[j].val)
             /\ root \in Range(Fields(conf)[j].val.elements)
      BY <2>7 DEF Roots, RootFields, Range
    <3>2. PICK e \in DOMAIN Fields(conf)[j].val.elements :
             root = Fields(conf)[j].val.elements[e]
      BY <3>1 DEF Range
    <3>3. /\ IsList(Fields(root))
          /\ \A k \in DOMAIN Fields(root) : IsArray(Fields(root)[k].val) =>
                IsList(Fields(root)[k].val.elements)
      BY <2>5, <3>1, <3>2 DEF ArrayFits
    <3> QED BY <3>3, RootByField
  <2> QED BY <2>6, <2>7
<1> QED BY <1>1, ShapesReachable, PTL

-----------------------------------------------------------------------------
(* What a server listens with.                                             *)

(* Every path was made of the next view, which has a method and a path.    *)
PathsMade ==
    /\ Len(paths) <= Len(views)
    /\ \A i \in DOMAIN paths :
          paths[i].view = i /\ views[i].method # "" /\ views[i].path # ""
    /\ pc \in {"server", "partials", "native", "handlers", "roots", "register"}
          => Len(paths) = Len(views)
    /\ pc \in {"server"} \cup Configured =>
          \A i \in DOMAIN views : views[i].method # "" /\ views[i].path # ""

(* The routes are the handlers of the views, then the redirect, then the   *)
(* document roots, each of which fits the disk.                            *)
RouteAt(n, r) ==
    /\ n <= Len(views) => r.kind = KindOf(views[n]) /\ r.view = n
    /\ n > Len(views) /\ n <= Len(views) + Len(Redirect) => r.kind = "redirect" /\ r.view = 0
    /\ n > Len(views) + Len(Redirect) =>
          /\ r.kind = RootKind(conf.documentRoots[n - Len(views) - Len(Redirect)])
          /\ RootFits(conf.documentRoots[n - Len(views) - Len(Redirect)])
          /\ r.view = 0

RootCount == Len(conf.documentRoots)
AllRoutes == Len(views) + Len(Redirect) + RootCount

RoutesMade ==
    /\ pc = "handlers" => Len(routes) <= Len(views)
    /\ pc = "roots" => Len(views) + Len(Redirect) <= Len(routes) /\ Len(routes) <= AllRoutes
    /\ pc \in {"register", "return", "done"} => Len(routes) = AllRoutes
    /\ \A n \in DOMAIN routes : RouteAt(n, routes[n])

PartialsLoaded ==
    pc \in Configured \ {"partials"} => \A i \in DOMAIN conf.mustache.partialsDirs :
        LET dir == conf.mustache.partialsDirs[i] IN
        dir \in disk.dirs /\ \A f \in Templates(dir) : f.name \in partials

Listened == PathsMade /\ RoutesMade /\ PartialsLoaded

(* The numbers the steps count with.                                       *)
LEMMA Counts ==
    ASSUME CreateInv, Shapes
    PROVE  /\ Len(views) \in Nat /\ DOMAIN views = 1 .. Len(views)
           /\ Len(paths) \in Nat /\ DOMAIN paths = 1 .. Len(paths)
           /\ Len(routes) \in Nat /\ DOMAIN routes = 1 .. Len(routes)
           /\ Len(Redirect) \in Nat
           /\ pc \in Configured => /\ RootCount \in Nat
                                   /\ DOMAIN conf.documentRoots = 1 .. RootCount
<1>1. Len(views) \in Nat /\ DOMAIN views = 1 .. Len(views)
  BY DEF CreateInv, ViewsOK
<1>2. Len(paths) \in Nat /\ DOMAIN paths = 1 .. Len(paths)
  BY LenProperties DEF CreateInv, PathsOK
<1>3. Len(routes) \in Nat /\ DOMAIN routes = 1 .. Len(routes)
  BY LenProperties DEF CreateInv, RoutesOK
<1>4. Len(Redirect) \in Nat
  <2>1. Len(<<>>) = 0 /\ Len(<< Route("redirect", 0, 0) >>) = 1
    OBVIOUS
  <2> QED BY <2>1 DEF Redirect
<1>5. pc \in Configured => RootCount \in Nat /\ DOMAIN conf.documentRoots = 1 .. RootCount
  BY ListType, LenProperties DEF Shapes, ConfShaped, RootCount
<1> QED BY <1>1, <1>2, <1>3, <1>4, <1>5

(* What a route must be does not change while the configuration, the views *)
(* and the disk stay as they are.                                          *)
LEMMA RouteStays ==
    ASSUME UNCHANGED <<views, conf, disk>>
    PROVE  /\ Redirect' = Redirect /\ AllRoutes' = AllRoutes
           /\ \A n, e : RouteAt(n, e)' <=> RouteAt(n, e)
<1>1. Redirect' = Redirect
  BY DEF Redirect
<1>2. AllRoutes' = AllRoutes
  BY <1>1 DEF AllRoutes, RootCount
<1>3. \A n, e : RouteAt(n, e)' <=> RouteAt(n, e)
  <2> TAKE n, e
  <2> DEFINE dr == conf.documentRoots[n - Len(views) - Len(Redirect)]
  <2>1. dr' = dr
    BY <1>1
  <2> HIDE DEF dr
  <2>2. RootFits(dr)' <=> RootFits(dr)
    BY <2>1 DEF RootFits, RootKind
  <2>3. RootKind(dr)' = RootKind(dr)
    BY <2>1 DEF RootKind
  <2>4. KindOf(views[n])' = KindOf(views[n])
    BY DEF KindOf
  <2> QED BY <1>1, <2>2, <2>3, <2>4 DEF RouteAt, dr
<1> QED BY <1>1, <1>2, <1>3

(* A step that adds the route the list lacks next keeps the routes.        *)
LEMMA RouteMade ==
    ASSUME CreateInv, Shapes, \A n \in DOMAIN routes : RouteAt(n, routes[n]), NEW r,
           r \in Handlers, RouteAt(Len(routes) + 1, r), routes' = Append(routes, r),
           UNCHANGED <<views, conf, disk>>
    PROVE  /\ Len(routes') = Len(routes) + 1
           /\ \A n \in DOMAIN routes' : RouteAt(n, routes[n])'
<1>1. routes \in Seq(Handlers) /\ Len(routes) \in Nat
  BY Counts DEF CreateInv, RoutesOK
<1>2. /\ Len(routes') = Len(routes) + 1
      /\ DOMAIN routes' = 1 .. Len(routes) + 1
      /\ \A n \in 1 .. Len(routes) : routes'[n] = routes[n]
      /\ routes'[Len(routes) + 1] = r
  BY <1>1, AppendProperties, LenProperties
<1>3. \A n \in DOMAIN routes' : RouteAt(n, routes'[n])
  <2>1. \A n \in DOMAIN routes' : n \in 1 .. Len(routes) \/ n = Len(routes) + 1
    BY <1>1, <1>2
  <2>2. DOMAIN routes = 1 .. Len(routes)
    BY Counts
  <2> QED BY <1>2, <2>1, <2>2
<1> QED BY <1>2, <1>3, RouteStays

(* While nothing is added, the routes stay as they were made.              *)
LEMMA RoutesStay ==
    ASSUME \A n \in DOMAIN routes : RouteAt(n, routes[n]), UNCHANGED <<views, conf, disk>>,
           routes' = routes
    PROVE  \A n \in DOMAIN routes' : RouteAt(n, routes[n])'
<1>1. \A n \in DOMAIN routes' : RouteAt(n, routes'[n])
  OBVIOUS
<1> QED BY <1>1, RouteStays

LEMMA PathsMadeStep ==
    CreateInv /\ CreateInv' /\ Shapes /\ PathsMade /\ CreateStep => PathsMade'
<1> SUFFICES ASSUME CreateInv, CreateInv', Shapes, PathsMade, CreateStep PROVE PathsMade'
  OBVIOUS
<1> USE DEF Configured
<1>e. DOMAIN <<>> = {} /\ Len(<<>>) = 0
  OBVIOUS
<1>1. ASSUME UNCHANGED views,
             paths' = paths \/ (paths' = <<>> /\ pc' \in {"unwind scripts", "done"}),
             \/ pc' \in {"unwind", "unwind scripts", "failed"}
             \/ pc \in {"server", "partials", "native", "handlers", "roots"}
                   /\ pc' \in Configured
             \/ pc \in Configured /\ pc' \in {"return", "done"}
      PROVE  PathsMade'
  <2>1. Len(paths') <= Len(views')
    <3>1. Len(paths) <= Len(views)
      BY Zenon DEF PathsMade
    <3>2. 0 <= Len(views)
      <4>1. Len(views) \in Nat
        BY Zenon, Counts
      <4> QED BY <4>1
    <3>3. views' = views /\ (paths' = paths \/ paths' = <<>>)
      BY Zenon, <1>1
    <3> QED BY Zenon, <1>e, <3>1, <3>2, <3>3
  <2>2. \A i \in DOMAIN paths' :
          paths'[i].view = i /\ views'[i].method # "" /\ views'[i].path # ""
    BY <1>1, <1>e DEF PathsMade
  <2>3. pc' \in {"server", "partials", "native", "handlers", "roots", "register"}
          => Len(paths') = Len(views')
    BY <1>1 DEF PathsMade
  <2>4. pc' \in {"server"} \cup Configured =>
          \A i \in DOMAIN views' : views'[i].method # "" /\ views'[i].path # ""
    BY <1>1 DEF PathsMade
  <2> QED BY <2>1, <2>2, <2>3, <2>4 DEF PathsMade
<1>2. CASE Extract
  <2>1. paths' = <<>> /\ pc' = "paths"
    BY <1>2 DEF Extract, CreateInv, Owned
  <2>2. Len(views') \in Nat
    BY DEF CreateInv, ViewsOK
  <2>3. Len(paths') <= Len(views')
    BY <1>e, <2>1, <2>2
  <2> QED BY <1>e, <2>1, <2>3 DEF PathsMade
<1>3. CASE CreatePath
  <2>1. /\ pc = "paths" /\ pc' = "paths" /\ views' = views /\ Len(paths) + 1 <= Len(views)
        /\ views[Len(paths) + 1].method # "" /\ views[Len(paths) + 1].path # ""
        /\ \E a : paths' = Append(paths, [view |-> Len(paths) + 1, script |-> a])
    BY <1>3 DEF CreatePath, NextPath
  <2>2. \E r : paths' = Append(paths, r) /\ r.view = Len(paths) + 1
    <3>1. PICK a : paths' = Append(paths, [view |-> Len(paths) + 1, script |-> a])
      BY <2>1
    <3>2. [view |-> Len(paths) + 1, script |-> a].view = Len(paths) + 1
      OBVIOUS
    <3> QED BY <3>1, <3>2
  <2> PICK r : paths' = Append(paths, r) /\ r.view = Len(paths) + 1
    BY <2>2
  <2>3. Len(paths) \in Nat /\ DOMAIN paths = 1 .. Len(paths)
    BY Counts
  <2>4. paths \in Seq(Range(paths) \cup {r})
    BY ListType, SeqIsList, SeqMonotonic DEF CreateInv, PathsOK
  <2>5. /\ Len(paths') = Len(paths) + 1
        /\ DOMAIN paths' = 1 .. Len(paths) + 1
        /\ \A i \in 1 .. Len(paths) : paths'[i] = paths[i]
        /\ paths'[Len(paths) + 1] = r
    BY <2>4, AppendProperties, LenProperties
  <2>6. \A i \in DOMAIN paths' : i \in DOMAIN paths \/ i = Len(paths) + 1
    BY <2>3, <2>5
  <2>7. \A i \in DOMAIN paths' :
          paths'[i].view = i /\ views[i].method # "" /\ views[i].path # ""
    BY <2>1, <2>2, <2>3, <2>5, <2>6 DEF PathsMade
  <2> QED BY <2>1, <2>5, <2>7 DEF PathsMade
<1>4. CASE PathsDone
  <2>1. /\ pc' = "server" /\ UNCHANGED <<views, paths>> /\ ~(Len(paths) + 1 <= Len(views))
    <3>1. NextPath > Len(views) /\ Len(paths) \in Nat /\ Len(views) \in Nat
      BY <1>4, Counts DEF PathsDone
    <3> QED BY <1>4, <3>1 DEF PathsDone, NextPath
  <2>2. Len(paths) = Len(views) /\ DOMAIN paths = DOMAIN views
    <3>1. Len(paths) <= Len(views) /\ ~(Len(paths) + 1 <= Len(views))
      BY <2>1 DEF PathsMade
    <3>2. /\ Len(views) \in Nat /\ DOMAIN views = 1 .. Len(views)
          /\ Len(paths) \in Nat /\ DOMAIN paths = 1 .. Len(paths)
      BY Counts
    <3>3. Len(views) \in Nat /\ Len(paths) \in Nat
      BY <3>2
    <3>4. Len(paths) = Len(views)
      BY <3>1, <3>3
    <3> QED BY <3>2, <3>4
  <2> QED BY <2>1, <2>2 DEF PathsMade
<1>5. CASE ExtractFails
  BY <1>1, <1>5 DEF ExtractFails, Fails
<1>6. CASE PathFails
  BY <1>1, <1>6 DEF PathFails
<1>7. CASE ReadConf \/ LoadPartials \/ BuildNative \/ AddHandler \/ AddRedirect \/ AddRoot
           \/ Start
  BY <1>1, <1>7 DEF ReadConf, LoadPartials, BuildNative, AddHandler, AddRedirect, AddRoot, Start
<1>8. CASE ConfRefused \/ BuildFails
  BY <1>1, <1>8 DEF ConfRefused, BuildFails, Unwinds
<1>9. CASE UnwindStep
  BY <1>1, <1>9 DEF UnwindStep, UnwindPaths, UnwindScripts
<1>10. CASE Register \/ Return
  BY <1>1, <1>10 DEF Register, Return
<1> QED BY <1>2, <1>3, <1>4, <1>5, <1>6, <1>7, <1>8, <1>9, <1>10
    DEF CreateStep, PathStep, NativeStep

LEMMA RoutesMadeStep ==
    CreateInv /\ CreateInv' /\ Shapes /\ PathsMade /\ RoutesMade /\ CreateStep => RoutesMade'
<1> SUFFICES ASSUME CreateInv, CreateInv', Shapes, PathsMade, RoutesMade, CreateStep
             PROVE  RoutesMade'
  OBVIOUS
<1> USE DEF Configured
<1>e. DOMAIN <<>> = {} /\ Len(<<>>) = 0
  OBVIOUS
<1>d. disk' = disk
  BY DEF CreateStep
<1>1. ASSUME routes' = <<>>, pc' \notin {"handlers", "roots", "register", "return", "done"}
      PROVE  RoutesMade'
  BY <1>1, <1>e DEF RoutesMade
<1>2. ASSUME UNCHANGED <<routes, conf, views>>,
             pc \in {"register", "return", "done"}, pc' \in {"register", "return", "done"}
      PROVE  RoutesMade'
  <2>1. \A n \in DOMAIN routes' : RouteAt(n, routes[n])'
    BY <1>2, <1>d, RoutesStay DEF RoutesMade
  <2>2. AllRoutes' = AllRoutes
    BY <1>2, <1>d, RouteStays
  <2>3. Len(routes) = AllRoutes /\ Len(routes') = Len(routes)
    BY <1>2 DEF RoutesMade
  <2>4. Len(routes') = AllRoutes'
    BY <2>2, <2>3
  <2> QED BY <1>2, <2>1, <2>4 DEF RoutesMade
<1>3. CASE BuildNative
  <2>1. pc' = "handlers" /\ routes' = <<>> /\ Len(views') \in Nat
    BY <1>3 DEF BuildNative, CreateInv, NativeOwned, ViewsOK
  <2>2. Len(routes') <= Len(views')
    BY <1>e, <2>1
  <2> QED BY <1>e, <2>1, <2>2 DEF RoutesMade
<1>4. CASE AddHandler
  <2> DEFINE n == Len(routes) + 1
             pa == paths[n]
             r == Route(KindOf(views[pa.view]), pa.view, pa.script)
  <2>1. /\ pc = "handlers" /\ pc' = "handlers" /\ Len(routes) < Len(paths)
        /\ routes' = Append(routes, r) /\ UNCHANGED <<views, conf>>
    BY <1>4 DEF AddHandler
  <2>2. Len(paths) = Len(views)
    BY <2>1 DEF PathsMade
  <2>3. n \in Nat /\ n <= Len(views) /\ n \in DOMAIN paths
    BY <2>1, <2>2, Counts
  <2>4. pa.view = n
    BY <2>3 DEF PathsMade
  <2>5. r.kind = KindOf(views[n]) /\ r.view = n
    BY <2>4 DEF Route
  <2>6. r \in Handlers
    <3>1. pa \in [view : Nat, script : Nat]
      BY <2>3, ElementOfSeq, LenProperties DEF CreateInv, PathsOK
    <3>2. KindOf(views[pa.view]) \in {"http", "websocket", "redirect", "dir", "zip", "loader"}
      BY DEF KindOf
    <3> QED BY <3>1, <3>2, RouteType
  <2> HIDE DEF r, pa
  <2>7. RouteAt(n, r)
    BY <2>3, <2>5, Counts DEF RouteAt
  <2>8. Len(routes') = n /\ \A m \in DOMAIN routes' : RouteAt(m, routes[m])'
    BY <1>d, <2>1, <2>6, <2>7, RouteMade DEF RoutesMade
  <2>9. Len(routes') <= Len(views')
    BY <2>1, <2>3, <2>8
  <2> QED BY <2>1, <2>8, <2>9 DEF RoutesMade
<1>5. CASE AddRedirect
  <2>1. /\ pc = "handlers" /\ pc' = "roots" /\ Len(routes) = Len(views)
        /\ routes' = routes \o Redirect /\ UNCHANGED <<views, conf>>
    BY <1>5 DEF AddRedirect, PathsMade
  <2>2. AllRoutes' = AllRoutes /\ Redirect' = Redirect
    BY <1>d, <2>1, RouteStays
  <2>3. /\ RootCount \in Nat /\ Len(routes) \in Nat /\ Len(views) \in Nat
        /\ Len(Redirect) \in Nat
    BY <2>1, Counts
  <2>4. /\ Len(routes') = Len(views) + Len(Redirect)
        /\ \A m \in DOMAIN routes' : RouteAt(m, routes[m])'
    <3>e. Len(<<>>) = 0 /\ Len(<< Route("redirect", 0, 0) >>) = 1
      OBVIOUS
    <3>1. CASE Redirect = <<>>
      <4>0. Len(Redirect) = 0
        BY <3>1, <3>e
      <4>1. routes' = routes
        BY <2>1, <3>1, ConcatEmptySeq DEF CreateInv, RoutesOK
      <4>2. Len(routes') = Len(views) + Len(Redirect)
        BY <2>1, <2>3, <4>0, <4>1
      <4> QED BY <1>d, <2>1, <4>1, <4>2, RoutesStay DEF RoutesMade
    <3>2. CASE Redirect = << Route("redirect", 0, 0) >>
      <4> DEFINE r == Route("redirect", 0, 0)
      <4>0. Len(Redirect) = 1
        BY <3>2, <3>e
      <4>1. r \in Handlers /\ r.kind = "redirect" /\ r.view = 0
        BY RouteType
      <4>2. routes' = Append(routes, r)
        BY <2>1, <3>2, <4>1, AppendIsConcat DEF CreateInv, RoutesOK
      <4> HIDE DEF r
      <4>3. RouteAt(Len(routes) + 1, r)
        <5>1. ~(Len(routes) + 1 <= Len(views)) /\ ~(Len(routes) + 1 > Len(views) + Len(Redirect))
          BY <2>1, <2>3, <4>0
        <5> QED BY <4>1, <5>1 DEF RouteAt
      <4>4. Len(routes') = Len(routes) + 1 /\ \A m \in DOMAIN routes' : RouteAt(m, routes[m])'
        BY <1>d, <2>1, <4>1, <4>2, <4>3, RouteMade DEF RoutesMade
      <4>5. Len(routes') = Len(views) + Len(Redirect)
        BY <2>1, <2>3, <4>0, <4>4
      <4> QED BY <4>4, <4>5
    <3> QED BY <3>1, <3>2 DEF Redirect
  <2>5. Len(routes') <= AllRoutes
    <3>1. Len(routes') = Len(views) + Len(Redirect)
      BY <2>4
    <3>2. Len(views) + Len(Redirect) <= Len(views) + Len(Redirect) + RootCount
      BY <2>3
    <3> QED BY <3>1, <3>2 DEF AllRoutes
  <2>6. Len(views) + Len(Redirect) <= Len(routes')
    BY <2>3, <2>4
  <2>7. Len(views') = Len(views) /\ Len(Redirect)' = Len(Redirect)
    BY <2>1, <2>2
  <2>8. Len(views') + Len(Redirect)' <= Len(routes') /\ Len(routes') <= AllRoutes'
    BY <2>2, <2>5, <2>6, <2>7
  <2> QED BY <2>1, <2>4, <2>8 DEF RoutesMade
<1>6. CASE AddRoot
  <2> DEFINE n == Len(routes) + 1
             dr == conf.documentRoots[n - Len(views) - Len(Redirect)]
             r == Route(RootKind(dr), 0, 0)
  <2>1. /\ pc = "roots" /\ pc' = "roots" /\ Len(paths) = Len(views)
        /\ UNCHANGED <<views, conf>>
    BY <1>6 DEF AddRoot, PathsMade
  <2>2. /\ RootCount \in Nat /\ Len(routes) \in Nat /\ Len(views) \in Nat
        /\ Len(Redirect) \in Nat
    BY <2>1, Counts
  <2>3. NextRoot = n - Len(views) - Len(Redirect)
    <3>1. NextRoot = Len(routes) - Len(views) - Len(Redirect) + 1
      BY <2>1 DEF NextRoot
    <3> QED BY <2>2, <3>1
  <2>4. /\ n - Len(views) - Len(Redirect) <= RootCount
        /\ RootFits(dr) /\ routes' = Append(routes, r)
    BY <1>6, <2>3 DEF AddRoot, RootCount
  <2>5. Len(views) + Len(Redirect) <= Len(routes) /\ Len(routes) <= AllRoutes
    BY <2>1 DEF RoutesMade
  <2>6. r \in Handlers /\ r.kind = RootKind(dr) /\ r.view = 0
    <3>1. RootKind(dr) \in {"http", "websocket", "redirect", "dir", "zip", "loader"}
      BY DEF RootKind
    <3>2. ASSUME NEW k \in {"http", "websocket", "redirect", "dir", "zip", "loader"}
          PROVE  /\ Route(k, 0, 0) \in Handlers /\ Route(k, 0, 0).kind = k
                 /\ Route(k, 0, 0).view = 0
      BY RouteType
    <3> QED BY Zenon, <3>1, <3>2
  <2> HIDE DEF r
  <2>7. ~(n <= Len(views)) /\ ~(n <= Len(views) + Len(Redirect))
    BY <2>2, <2>5
  <2>8. RouteAt(n, r)
    BY <2>4, <2>6, <2>7 DEF RouteAt
  <2>9. Len(routes') = n /\ \A m \in DOMAIN routes' : RouteAt(m, routes[m])'
    BY <1>d, <2>1, <2>4, <2>6, <2>8, RouteMade DEF RoutesMade
  <2>10. AllRoutes' = AllRoutes /\ Redirect' = Redirect
    BY <1>d, <2>1, RouteStays
  <2>11. Len(views) + Len(Redirect) <= n /\ n <= AllRoutes
    <3>1. n - Len(views) - Len(Redirect) <= RootCount
      BY <2>4
    <3>2. n <= Len(views) + Len(Redirect) + RootCount
      BY <2>2, <3>1
    <3>3. Len(views) + Len(Redirect) <= n
      BY <2>2, <2>5
    <3> QED BY <3>2, <3>3 DEF AllRoutes
  <2>12. Len(views') = Len(views) /\ Len(Redirect)' = Len(Redirect)
    BY <2>1, <2>10
  <2> HIDE DEF n
  <2>13. Len(views') + Len(Redirect)' <= Len(routes') /\ Len(routes') <= AllRoutes'
    BY <2>9, <2>10, <2>11, <2>12
  <2> QED BY <2>1, <2>9, <2>13 DEF RoutesMade
<1>7. CASE Start
  <2>1. /\ pc = "roots" /\ pc' = "register" /\ Len(paths) = Len(views)
        /\ NextRoot > RootCount /\ UNCHANGED <<views, conf, routes>>
    BY <1>7 DEF Start, PathsMade, RootCount
  <2>2. /\ RootCount \in Nat /\ Len(routes) \in Nat /\ Len(views) \in Nat
        /\ Len(Redirect) \in Nat
    BY <2>1, Counts
  <2>3. Len(routes) = AllRoutes
    <3>1. Len(routes) <= Len(views) + Len(Redirect) + RootCount
      BY <2>1 DEF RoutesMade, AllRoutes
    <3>2. Len(routes) - Len(views) - Len(Redirect) + 1 > RootCount
      BY <2>1 DEF NextRoot
    <3>3. Len(routes) = Len(views) + Len(Redirect) + RootCount
      BY <2>2, <3>1, <3>2
    <3> QED BY <3>3 DEF AllRoutes
  <2>4. AllRoutes' = AllRoutes
    BY <1>d, <2>1, RouteStays
  <2>5. \A m \in DOMAIN routes' : RouteAt(m, routes[m])'
    BY <1>d, <2>1, RoutesStay DEF RoutesMade
  <2>6. Len(routes') = AllRoutes'
    <3>1. Len(routes') = Len(routes)
      BY <2>1
    <3> QED BY <2>3, <2>4, <3>1
  <2> QED BY <2>1, <2>5, <2>6 DEF RoutesMade
<1>8. CASE Register \/ Return
  BY <1>2, <1>8 DEF Register, Return, CreateInv, Owned
<1>9. CASE Extract \/ ExtractFails \/ PathStep \/ ReadConf \/ LoadPartials
  <2>1. routes' = <<>>
    BY <1>9 DEF Extract, ExtractFails, Fails, PathStep, CreatePath, PathFails, PathsDone,
       ReadConf, LoadPartials, CreateInv, NativeOwned
  <2>2. pc' \in {"paths", "failed", "unwind", "server", "partials", "native"}
    BY <1>9 DEF Extract, ExtractFails, Fails, PathStep, CreatePath, PathFails, PathsDone,
       ReadConf, LoadPartials
  <2> QED BY <1>1, <2>1, <2>2
<1>10. CASE ConfRefused \/ BuildFails
  BY <1>1, <1>10 DEF ConfRefused, BuildFails, Unwinds
<1>11. CASE UnwindStep
  BY <1>1, <1>11 DEF UnwindStep, UnwindPaths, UnwindScripts, CreateInv, NativeOwned, Unwinding
<1> QED BY <1>3, <1>4, <1>5, <1>6, <1>7, <1>8, <1>9, <1>10, <1>11 DEF CreateStep, NativeStep

LEMMA PartialsStep == CreateInv /\ PartialsLoaded /\ CreateStep => PartialsLoaded'
<1> SUFFICES ASSUME CreateInv, PartialsLoaded, CreateStep PROVE PartialsLoaded'
  OBVIOUS
<1> USE DEF Configured
<1>d. disk' = disk
  BY DEF CreateStep
<1>1. ASSUME pc' \notin Configured \ {"partials"} PROVE PartialsLoaded'
  BY <1>1 DEF PartialsLoaded
<1>2. ASSUME pc \in Configured \ {"partials"}, UNCHANGED <<conf, partials>>
      PROVE  PartialsLoaded'
  BY <1>2, <1>d DEF PartialsLoaded, Templates
<1>3. CASE LoadPartials
  <2>1. PartialsLoaded'
    BY <1>3, <1>d DEF LoadPartials, PartialsFit, PartialsLoaded, Templates
  <2> QED BY <2>1
<1>4. CASE Extract \/ ExtractFails \/ PathStep \/ ReadConf \/ ConfRefused \/ BuildFails
           \/ UnwindStep
  BY <1>1, <1>4 DEF Extract, ExtractFails, Fails, PathStep, CreatePath, PathFails, PathsDone,
     ReadConf, ConfRefused, BuildFails, Unwinds, UnwindStep, UnwindPaths, UnwindScripts
<1>5. CASE BuildNative \/ AddHandler \/ AddRedirect \/ AddRoot \/ Start \/ Register \/ Return
  BY <1>2, <1>5 DEF BuildNative, AddHandler, AddRedirect, AddRoot, Start, Register, Return
<1> QED BY <1>3, <1>4, <1>5 DEF CreateStep, NativeStep

LEMMA ListenedStep ==
    CreateInv /\ CreateInv' /\ Shapes /\ Listened /\ [Next]_vars => Listened'
<1> SUFFICES ASSUME CreateInv, CreateInv', Shapes, Listened, [Next]_vars PROVE Listened'
  OBVIOUS
<1>1. CASE CreateStep
  BY <1>1, PathsMadeStep, RoutesMadeStep, PartialsStep DEF Listened
<1>2. ASSUME UNCHANGED <<disk, creation>> PROVE Listened'
  <2>1. UNCHANGED <<disk, pc, views, conf, scripts, paths, partials, routes>>
    BY <1>2 DEF creation
  <2>2. \A m \in DOMAIN routes' : RouteAt(m, routes[m])'
    BY <2>1, RoutesStay DEF Listened, RoutesMade
  <2>3. AllRoutes' = AllRoutes /\ Redirect' = Redirect
    BY <2>1, RouteStays
  <2>4. Len(views)' = Len(views) /\ Len(Redirect)' = Len(Redirect) /\ Len(routes)' = Len(routes)
    BY <2>1, <2>3
  <2>5. RoutesMade'
    BY <2>1, <2>2, <2>3, <2>4 DEF Listened, RoutesMade
  <2> QED BY <2>1, <2>5 DEF Listened, PathsMade, PartialsLoaded, Templates, Configured
<1>3. ASSUME NEW w \in Workers,
             Served(w) \/ ServedThrows(w) \/ \E i \in DOMAIN routes : Serve(w, i)
      PROVE  UNCHANGED <<disk, creation>>
  BY <1>3 DEF Served, ServedThrows, Serve
<1>4. CASE UNCHANGED vars
  BY <1>2, <1>4 DEF vars
<1> QED BY <1>1, <1>2, <1>3, <1>4 DEF Next

(* A server listens only with everything it was configured with: each      *)
(* view, the redirect and each document root has its handler, in this      *)
(* order, the roots fit the disk, and the partials of all directories are  *)
(* loaded: for every configuration and every disk.                         *)
THEOREM ListensComplete == Spec => []ListeningComplete
<1>1. Init => Listened
  <2>1. DOMAIN <<>> = {} /\ Len(<<>>) = 0
    OBVIOUS
  <2> QED BY <2>1 DEF Init, Listened, PathsMade, RoutesMade, PartialsLoaded, Configured
<1>2. CreateInv /\ Shapes /\ Listened => ListeningComplete
  <2> SUFFICES ASSUME CreateInv, Shapes, Listened, native = "listening"
               PROVE  ListeningComplete
    BY DEF ListeningComplete
  <2> DEFINE V == Len(views)
             R == Len(Redirect)
             D == RootCount
             made == [i \in DOMAIN routes |-> <<routes[i].kind, routes[i].view>>]
             forViews == [i \in DOMAIN views |-> <<KindOf(views[i]), i>>]
             forRedirect == IF conf.rootRedirectLocation = "" THEN <<>>
                            ELSE << <<"redirect", 0>> >>
             forRoots == [i \in DOMAIN conf.documentRoots |->
                             <<RootKind(conf.documentRoots[i]), 0>>]
  <2>1. pc \in {"register", "return", "done"}
    BY DEF CreateInv, NativeOwned
  <2>2. V \in Nat /\ D \in Nat /\ R \in Nat
    BY <2>1, Counts DEF Configured
  <2>3. Len(routes) = V + R + D /\ \A n \in DOMAIN routes : RouteAt(n, routes[n])
    BY <2>1 DEF Listened, RoutesMade, AllRoutes
  <2>4. /\ DOMAIN views = 1 .. V /\ DOMAIN conf.documentRoots = 1 .. D
        /\ DOMAIN routes = 1 .. V + R + D
    BY <2>1, <2>3, Counts DEF Configured
  <2>5. IsList(made) /\ Len(made) = V + R + D
    <3>1. DOMAIN made = 1 .. V + R + D /\ V + R + D \in Nat
      BY <2>2, <2>4
    <3> QED BY <3>1, MappedList
  <2>6. IsList(forViews) /\ Len(forViews) = V
    BY <2>2, <2>4, MappedList
  <2>7. IsList(forRoots) /\ Len(forRoots) = D
    BY <2>2, <2>4, MappedList
  <2>8. /\ IsList(forRedirect) /\ Len(forRedirect) = R
        /\ \A i \in 1 .. R : forRedirect[i] = <<"redirect", 0>>
    <3>1. CASE conf.rootRedirectLocation = ""
      <4>1. R = 0 /\ forRedirect = <<>>
        BY <3>1, EmptySeq DEF Redirect
      <4>2. <<>> \in Seq({}) /\ Len(<<>>) = 0 /\ 1 .. 0 = {}
        BY EmptySeq
      <4>3. IsList(<<>>)
        BY <4>2, SeqIsList
      <4> QED BY <4>1, <4>2, <4>3
    <3>2. CASE conf.rootRedirectLocation # ""
      <4>1. R = 1 /\ forRedirect = << <<"redirect", 0>> >>
        <5>1. Len(<< Route("redirect", 0, 0) >>) = 1
          OBVIOUS
        <5> QED BY <3>2, <5>1 DEF Redirect
      <4> DEFINE one == <<"redirect", 0>>
      <4> HIDE DEF one
      <4>2. <<one>> \in Seq({one}) /\ Len(<<one>>) = 1 /\ <<one>>[1] = one
        OBVIOUS
      <4>3. \A i \in 1 .. 1 : <<one>>[i] = one
        BY <4>2
      <4> QED BY <4>1, <4>2, <4>3, SeqIsList DEF one
    <3> QED BY <3>1, <3>2
  <2> HIDE DEF V, R, D
  <2>9. \A n \in 1 .. V : made[n] = forViews[n]
    <3> TAKE n \in 1 .. V
    <3>1. n \in 1 .. V + R + D /\ n <= V
      BY <2>2
    <3>2. RouteAt(n, routes[n])
      BY <2>3, <2>4, <3>1
    <3>3. routes[n].kind = KindOf(views[n]) /\ routes[n].view = n
      BY <3>1, <3>2 DEF RouteAt, V
    <3> QED BY <2>4, <3>1, <3>3
  <2>10. \A n \in 1 .. R : made[V + n] = forRedirect[n]
    <3> TAKE n \in 1 .. R
    <3>1. V + n \in 1 .. V + R + D /\ V + n > V /\ V + n <= V + R
      BY <2>2
    <3>2. RouteAt(V + n, routes[V + n])
      BY <2>3, <2>4, <3>1
    <3>3. routes[V + n].kind = "redirect" /\ routes[V + n].view = 0
      BY <3>1, <3>2 DEF RouteAt, V, R
    <3> QED BY <2>4, <2>8, <3>1, <3>3
  <2>11. \A n \in 1 .. D : /\ made[V + R + n] = forRoots[n]
                           /\ RootFits(conf.documentRoots[n])
    <3> TAKE n \in 1 .. D
    <3>1. V + R + n \in 1 .. V + R + D /\ V + R + n > V + R /\ V + R + n - V - R = n
      BY <2>2
    <3>2. RouteAt(V + R + n, routes[V + R + n])
      BY <2>3, <2>4, <3>1
    <3>3. /\ routes[V + R + n].kind = RootKind(conf.documentRoots[n])
          /\ routes[V + R + n].view = 0
          /\ RootFits(conf.documentRoots[n])
      BY <3>1, <3>2 DEF RouteAt, V, R
    <3> QED BY <2>4, <3>1, <3>3
  <2> HIDE DEF made, forViews, forRedirect, forRoots
  <2>12. Len(made) = Len(forViews) + Len(forRedirect) + Len(forRoots)
    BY <2>5, <2>6, <2>7, <2>8
  <2>13. made = forViews \o forRedirect \o forRoots
    <3>1. \A i \in 1 .. D : made[V + R + i] = forRoots[i]
      BY <2>11
    <3>2. /\ \A i \in 1 .. Len(forViews) : made[i] = forViews[i]
          /\ \A i \in 1 .. Len(forRedirect) : made[Len(forViews) + i] = forRedirect[i]
          /\ \A i \in 1 .. Len(forRoots) :
                made[Len(forViews) + Len(forRedirect) + i] = forRoots[i]
      BY <2>6, <2>7, <2>8, <2>9, <2>10, <3>1
    <3>3. IsList(made) /\ IsList(forViews) /\ IsList(forRedirect) /\ IsList(forRoots)
      BY <2>5, <2>6, <2>7, <2>8
    <3>4. OfThree(made, forViews, forRedirect, forRoots)
      BY <2>12, <3>2 DEF OfThree
    <3> QED BY <3>3, <3>4, ThreeLists
  <2>14. ASSUME NEW i \in DOMAIN conf.documentRoots
         PROVE  LET dr == conf.documentRoots[i] IN
                CASE dr.dirPath # "" -> dr.dirPath \in disk.dirs
                  [] dr.dirPath = "" /\ dr.zipPath # "" -> dr.zipPath \in disk.files
                  [] OTHER -> dr.useResourceLoader
    <3>1. RootFits(conf.documentRoots[i])
      BY <2>4, <2>11
    <3> QED BY <3>1 DEF RootFits, RootKind
  <2>15. \A i \in DOMAIN views : views[i].method # "" /\ views[i].path # ""
    BY <2>1 DEF Listened, PathsMade, Configured
  <2> QED BY <2>1, <2>13, <2>14, <2>15
      DEF ListeningComplete, Listened, PartialsLoaded, Configured, made, forViews,
          forRedirect, forRoots
<1> QED BY <1>1, <1>2, ListenedStep, CreateReachable, ShapesReachable, PTL DEF Spec

-----------------------------------------------------------------------------
(* Seen from the registry of servers: the steps of ServerRegistry that the *)
(* steps of the call are.                                                  *)
LEMMA CreateBegins ==
    ASSUME ctx = "none", ctx' = "call", CallPc = "script", CallPc' = "create",
           native # "listening", native' # "listening", serving' = serving
    PROVE  Registry!Create(app, entry)
BY AppAssumption DEF Registry!Create, Registry!At, Registry!Go, Registry!Alive,
   Registry!NoFault, Registry!Fault

LEMMA CreateStarted ==
    ASSUME ctx \in {"call", "entry"}, ctx' = ctx, CallPc = "create", CallPc' = "register",
           native # "listening", native' = "listening", serving' = serving
    PROVE  Registry!CreateStarts(app)
BY AppAssumption DEF Registry!CreateStarts, Registry!At, Registry!Go, Registry!Alive,
   Registry!NoFault, Registry!Fault

LEMMA CreateFailed ==
    ASSUME ctx = "call", ctx' = "none", CallPc = "create", CallPc' = "script",
           native # "listening", native' # "listening", serving' = serving
    PROVE  Registry!CreateFails(app)
BY AppAssumption DEF Registry!CreateFails, Registry!At, Registry!Go, Registry!Done,
   Registry!NoFault, Registry!Fault

LEMMA CreateRegistered ==
    ASSUME ctx = "call", ctx' = "entry", CallPc = "register", CallPc' = "script",
           native' = native, serving' = serving
    PROVE  Registry!CreateRegisters(app)
BY AppAssumption DEF Registry!CreateRegisters, Registry!Looks, Registry!At, Registry!Go,
   Registry!Done, Registry!Put, Registry!NoFault, Registry!Fault

LEMMA WorkerServes ==
    ASSUME NEW w \in Workers, serving[w] = NoRoute, NEW i, i # NoRoute, native = "listening",
           serving \in [Workers -> Nat],
           serving' = [serving EXCEPT ![w] = i], UNCHANGED <<ctx, pc, native>>
    PROVE  Registry!Serve(w, entry)
BY AppAssumption DEF Registry!Serve, Registry!NoFault, Registry!Fault, CallPc

LEMMA WorkerServed ==
    ASSUME NEW w \in Workers, serving[w] # NoRoute, serving \in [Workers -> Nat],
           serving' = [serving EXCEPT ![w] = NoRoute], UNCHANGED <<ctx, pc, native>>
    PROVE  Registry!Served(w)
BY AppAssumption DEF Registry!Served, Registry!At, Registry!NoFault, Registry!Fault, CallPc

LEMMA NothingSeen ==
    ASSUME ctx' = ctx, CallPc' = CallPc, serving' = serving,
           (native' = "listening") <=> (native = "listening")
    PROVE  UNCHANGED Registry!vars
BY DEF Registry!vars

LEMMA RegistryStep ==
    CreateInv /\ CreateInv' /\ WorkersOK /\ [Next]_vars
        => [Registry!Next]_(Registry!vars)
<1> SUFFICES ASSUME CreateInv, CreateInv', WorkersOK, [Next]_vars
             PROVE  [Registry!Next]_(Registry!vars)
  OBVIOUS
<1> DEFINE Early == {"paths", "server", "partials", "native", "handlers", "roots"} \cup Unwinding
<1>1. /\ pc \in Early => CallPc = "create" /\ ctx = "call" /\ native # "listening"
      /\ pc \in {"extract", "failed"} => CallPc = "script" /\ ctx = "none" /\ native # "listening"
      /\ pc = "register" => CallPc = "register" /\ ctx = "call" /\ native = "listening"
      /\ pc \in {"return", "done"} => CallPc = "script" /\ ctx = "entry" /\ native = "listening"
      /\ pc \in Early \cup {"extract", "failed", "register", "return", "done"}
  BY DEF CreateInv, Owned, NativeOwned, CallPc, Building, Unwinding
<1>2. /\ pc' \in Early => CallPc' = "create" /\ ctx' = "call" /\ native' # "listening"
      /\ pc' \in {"extract", "failed"} => CallPc' = "script" /\ ctx' = "none"
            /\ native' # "listening"
      /\ pc' = "register" => CallPc' = "register" /\ ctx' = "call" /\ native' = "listening"
      /\ pc' \in {"return", "done"} => CallPc' = "script" /\ ctx' = "entry" /\ native' = "listening"
  BY DEF CreateInv, Owned, NativeOwned, CallPc, Building, Unwinding
<1>3. ASSUME serving' = serving, pc \in Early, pc' \in Early PROVE UNCHANGED Registry!vars
  BY <1>1, <1>2, <1>3, NothingSeen
<1>4. ASSUME \/ Registry!Create(app, entry)
             \/ Registry!CreateStarts(app) \/ Registry!CreateFails(app)
             \/ Registry!CreateRegisters(app)
             \/ \E w \in Workers : Registry!Serve(w, entry) \/ Registry!Served(w)
      PROVE  Registry!Next
  BY <1>4 DEF Registry!Next, Registry!Callers, Registry!CreateStep
<1>5. CASE CreateStep
  <2>1. serving' = serving
    BY <1>5 DEF CreateStep
  <2>2. CASE Extract
    BY <1>1, <1>2, <1>4, <2>1, <2>2, CreateBegins DEF Extract
  <2>3. CASE ExtractFails
    BY <1>1, <1>2, <2>1, <2>3, NothingSeen DEF ExtractFails, Fails
  <2>4. CASE PathStep
    BY <1>3, <2>1, <2>4 DEF PathStep, CreatePath, PathFails, PathsDone, Unwinding
  <2>5. CASE Start
    BY <1>1, <1>2, <1>4, <2>1, <2>5, CreateStarted DEF Start
  <2>6. CASE NativeStep /\ ~Start
    BY <1>3, <2>1, <2>6 DEF NativeStep, ReadConf, ConfRefused, LoadPartials, BuildNative,
       AddHandler, AddRedirect, AddRoot, BuildFails, Unwinds, Unwinding
  <2>7. CASE UnwindPaths
    BY <1>3, <2>1, <2>7 DEF UnwindPaths, Unwinding
  <2>8. CASE UnwindScripts
    BY <1>1, <1>2, <1>4, <2>1, <2>8, CreateFailed DEF UnwindScripts, Unwinding
  <2>9. CASE Register
    BY <1>1, <1>2, <1>4, <2>1, <2>9, CreateRegistered DEF Register
  <2>10. CASE Return
    BY <1>1, <1>2, <2>1, <2>10, NothingSeen DEF Return
  <2> QED BY <1>5, <2>2, <2>3, <2>4, <2>5, <2>6, <2>7, <2>8, <2>9, <2>10
      DEF CreateStep, UnwindStep
<1>6. ASSUME NEW w \in Workers, NEW i \in DOMAIN routes, Serve(w, i) PROVE Registry!Next
  <2>1. i # NoRoute
    BY LenProperties DEF CreateInv, RoutesOK, NoRoute
  <2>2. Registry!Serve(w, entry)
    BY <1>6, <2>1, WorkerServes DEF Serve, creation, WorkersOK
  <2> QED BY <1>4, <2>2
<1>7. ASSUME NEW w \in Workers, Served(w) \/ ServedThrows(w) PROVE Registry!Next
  <2>1. Registry!Served(w)
    BY <1>7, WorkerServed DEF Served, ServedThrows, creation, WorkersOK
  <2> QED BY <1>4, <2>1
<1>8. CASE UNCHANGED vars
  <2>1. UNCHANGED <<ctx, pc, serving, native>>
    BY <1>8 DEF vars, creation
  <2> QED BY <2>1, NothingSeen DEF CallPc
<1> QED BY <1>5, <1>6, <1>7, <1>8 DEF Next

(* Seen from the registry of servers, server_create with all its steps is  *)
(* one create, with the workers that serve meanwhile.                      *)
THEOREM CreateRefinesRegistry == Spec => RegistryCreate
<1>1. Init => Registry!Init
  BY AppAssumption DEF Init, Registry!Init, Registry!Empty, Registry!NoOp, Registry!NoFault,
     Registry!Fault, Registry!Callers, CallPc
<1>2. Init => WorkersOK
  BY DEF Init, WorkersOK, NoRoute
<1> QED BY <1>1, <1>2, WorkersStep, RegistryStep, CreateReachable, PTL
    DEF Spec, RegistryCreate, Registry!Spec
=============================================================================
