---------------------------- MODULE MustacheCache -----------------------------
(***************************************************************************)
(* mustache_cache::get, called by pool threads that answer with a          *)
(* template, while the template files change.  The lock is held from the   *)
(* search to the insertion, the read of the file included; the caller gets *)
(* a reference into the map and renders from it after the lock is gone.    *)
(* A file is read in two parts and may be rewritten in between.            *)
(***************************************************************************)
EXTENDS Naturals

CONSTANTS
    Threads,
    Paths,
    MaxVersion,     \* bound: versions of a file
    None            \* no file, no text, no thread, no path

ASSUME VersionAssumption == MaxVersion \in Nat \ {0}
ASSUME NoneAssumption ==
    None \notin Threads /\ None \notin Paths /\ None \notin (1 .. MaxVersion) /\
    None \notin (1 .. MaxVersion) \X (1 .. MaxVersion)

VARIABLES
    disk,       \* the version of each file, or None
    cache,      \* the map: path -> text
    mutex,      \* the thread that holds it
    pc,         \* "idle", "get", "read", "rest", "render"
    path,       \* the argument of the call
    part,       \* what the thread has read of the file
    text        \* the text when the thread got its reference (history)

vars == <<disk, cache, mutex, pc, path, part, text>>

Versions == 1 .. MaxVersion
Texts == Versions \X Versions

Init ==
    /\ disk \in [Paths -> Versions \cup {None}]
    /\ cache = [p \in Paths |-> None]
    /\ mutex = None
    /\ pc = [t \in Threads |-> "idle"]
    /\ path = [t \in Threads |-> None]
    /\ part = [t \in Threads |-> None]
    /\ text = [t \in Threads |-> None]

Go(t, p) == pc' = [pc EXCEPT ![t] = p]

(* Somebody writes, rewrites or removes a template file.                   *)
FileChanges(p) ==
    /\ disk' \in {[disk EXCEPT ![p] = v] :
                     v \in {None} \cup {w \in Versions : disk[p] = None \/ w > disk[p]}}
    /\ UNCHANGED <<cache, mutex, pc, path, part, text>>

-----------------------------------------------------------------------------
Call(t, p) ==
    /\ pc[t] = "idle"
    /\ Go(t, "get")
    /\ path' = [path EXCEPT ![t] = p]
    /\ UNCHANGED <<disk, cache, mutex, part, text>>

Lock(t) ==
    /\ pc[t] = "get"
    /\ mutex = None
    /\ mutex' = t
    /\ Go(t, "read")
    /\ UNCHANGED <<disk, cache, path, part, text>>

Unlock(t) == mutex' = None

(* The reference leads into the map, which keeps its nodes in their place. *)
Reference(t) ==
    /\ text' = [text EXCEPT ![t] = cache'[path[t]]]
    /\ part' = [part EXCEPT ![t] = None]
    /\ Go(t, "render")

(* Mutant: a file that was rewritten is read again.                        *)
HitRefreshes(t) ==
    LET p == path[t] IN
    /\ pc[t] = "read"
    /\ cache[p] # None
    /\ cache' = [cache EXCEPT ![p] = IF disk[p] = None THEN @ ELSE <<disk[p], disk[p]>>]
    /\ Reference(t)
    /\ Unlock(t)
    /\ UNCHANGED <<disk, path>>

Hit(t) ==
    /\ pc[t] = "read"
    /\ cache[path[t]] # None
    /\ UNCHANGED cache
    /\ Reference(t)
    /\ Unlock(t)
    /\ UNCHANGED <<disk, path>>

Miss(t) == pc[t] = "read" /\ cache[path[t]] = None

(* Mutant: the lock is dropped while the file is read.                     *)
ReadFileUnlocked(t) ==
    /\ Miss(t)
    /\ disk[path[t]] # None
    /\ part' = [part EXCEPT ![t] = disk[path[t]]]
    /\ Unlock(t)
    /\ Go(t, "rest")
    /\ UNCHANGED <<disk, cache, path, text>>

ReadFile(t) ==
    /\ Miss(t)
    /\ disk[path[t]] # None
    /\ part' = [part EXCEPT ![t] = disk[path[t]]]
    /\ Go(t, "rest")
    /\ UNCHANGED <<disk, cache, mutex, path, text>>

(* An open file can be read to its end though its name is gone; insert     *)
(* leaves a text that is there.                                            *)
ReadRest(t) ==
    LET rest == IF disk[path[t]] = None THEN part[t] ELSE disk[path[t]] IN
    /\ pc[t] = "rest"
    /\ cache' = [cache EXCEPT ![path[t]] = IF @ = None THEN <<part[t], rest>> ELSE @]
    /\ Reference(t)
    /\ Unlock(t)
    /\ UNCHANGED <<disk, path>>

(* Mutant: an exception leaves the mutex locked.                           *)
ReadFailsLocked(t) ==
    /\ Miss(t) \/ pc[t] = "rest"
    /\ part' = [part EXCEPT ![t] = None]
    /\ path' = [path EXCEPT ![t] = None]
    /\ Go(t, "idle")
    /\ UNCHANGED <<disk, cache, mutex, text>>

(* The file is missing or cannot be read: the guard unlocks, the caller    *)
(* gets the exception, nothing is inserted.                                *)
ReadFails(t) ==
    /\ Miss(t) \/ pc[t] = "rest"
    /\ part' = [part EXCEPT ![t] = None]
    /\ path' = [path EXCEPT ![t] = None]
    /\ Unlock(t)
    /\ Go(t, "idle")
    /\ UNCHANGED <<disk, cache, text>>

(* The last chunk of the response has been made from the template.         *)
Render(t) ==
    /\ pc[t] = "render"
    /\ Go(t, "idle")
    /\ path' = [path EXCEPT ![t] = None]
    /\ text' = [text EXCEPT ![t] = None]
    /\ UNCHANGED <<disk, cache, mutex, part>>

-----------------------------------------------------------------------------
GetStep(t) == Hit(t) \/ ReadFile(t) \/ ReadRest(t) \/ ReadFails(t)

Next ==
    \/ \E p \in Paths : FileChanges(p)
    \/ \E t \in Threads : Lock(t) \/ GetStep(t) \/ Render(t) \/ \E p \in Paths : Call(t, p)

(* A thread with the lock goes on: reading a file ends, well or not.  One  *)
(* that waits for the lock gets it in the end.                             *)
Spec ==
    /\ Init /\ [][Next]_vars
    /\ \A t \in Threads : WF_vars(GetStep(t)) /\ SF_vars(Lock(t))

-----------------------------------------------------------------------------
(* Properties.                                                             *)

(* Every variable keeps to the values the code gives it, a call has its    *)
(* path, and a thread is between the lock and the end of get exactly when  *)
(* it has the mutex.                                                       *)
TypeOK ==
    /\ disk \in [Paths -> Versions \cup {None}]
    /\ cache \in [Paths -> Texts \cup {None}]
    /\ pc \in [Threads -> {"idle", "get", "read", "rest", "render"}]
    /\ path \in [Threads -> Paths \cup {None}]
    /\ part \in [Threads -> Versions \cup {None}]
    /\ text \in [Threads -> Texts \cup {None}]
    /\ \A t \in Threads : pc[t] # "idle" => path[t] \in Paths
    /\ \A t \in Threads : pc[t] = "rest" => part[t] # None
    /\ \A t \in Threads : pc[t] \in {"read", "rest"} <=> mutex = t

(* The text behind the reference a thread renders from does not change     *)
(* under it, though it no longer holds the lock.                           *)
RenderedTextStable ==
    \A t \in Threads :
        IF pc[t] = "render" THEN text[t] # None /\ cache[path[t]] = text[t]
                            ELSE text[t] = None

(* A call of get returns, whatever file others read and whatever fails.    *)
GetReturns ==
    \A t \in Threads : pc[t] = "get" ~> pc[t] \in {"render", "idle"}

(* The cache is the write-once store of TemplateStore.                     *)
Store == INSTANCE TemplateStore WITH store <- cache, got <- text

ImplementsStore == Store!Spec
=============================================================================
