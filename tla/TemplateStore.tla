---------------------------- MODULE TemplateStore -----------------------------
(***************************************************************************)
(* What mustache_cache promises to the pool threads that render templates: *)
(* one text for each path, the same for everybody and for ever, whatever   *)
(* happens to the file; only the first use of a path can fail.             *)
(***************************************************************************)
CONSTANTS
    Threads,
    Paths,
    Texts,      \* texts a file may be read as
    None        \* no text, and not one of Texts

VARIABLES
    store,      \* the text of each path
    got         \* the text a thread renders

Init ==
    /\ store = [p \in Paths |-> None]
    /\ got = [t \in Threads |-> None]

Get(t, p) ==
    /\ got[t] = None
    /\ \/ /\ store[p] = None
          /\ \E x \in Texts : store' = [store EXCEPT ![p] = x]
       \/ /\ store[p] # None
          /\ UNCHANGED store
    /\ got' = [got EXCEPT ![t] = store'[p]]

Rendered(t) ==
    /\ got[t] # None
    /\ got' = [got EXCEPT ![t] = None]
    /\ UNCHANGED store

Next == \E t \in Threads : Rendered(t) \/ \E p \in Paths : Get(t, p)

Spec == Init /\ [][Next]_<<store, got>>
=============================================================================
