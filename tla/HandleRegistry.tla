--------------------------- MODULE HandleRegistry ---------------------------
(***************************************************************************)
(* wilton core's unique_handle_registry, as this repository uses it: a     *)
(* mutex-protected set of raw pointers.  The handle a script is given is   *)
(* the pointer itself, so putting the same pointer back yields the same    *)
(* handle and a freed and reallocated address yields an old handle again.  *)
(* The class lives in another repository; this is its use in               *)
(* wiltoncall_server.cpp.                                                  *)
(***************************************************************************)

Empty == {}

(* put(ptr): the caller gives the pointer to the registry. *)
Put(registry, ptr) == registry \cup {ptr}

(* remove(handle): the caller takes the pointer out of the registry; a     *)
(* handle that is not there yields nullptr, which Found tells apart.       *)
Remove(registry, handle) == registry \ {handle}

Found(registry, handle) == handle \in registry
=============================================================================
