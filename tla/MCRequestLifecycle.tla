------------------------- MODULE MCRequestLifecycle -------------------------
(***************************************************************************)
(* Small instances of RequestLifecycle for TLC.                            *)
(***************************************************************************)
EXTENDS RequestInvariant, TLC

CONSTANTS h1, s1, c1, b1

(* An HTTP request, a WebSocket message, a close notification, and an HTTP *)
(* request for a view without a callbackScript, or all but the close.      *)
MixedKind == (h1 :> "http") @@ (s1 :> "ws") @@ (c1 :> "wsclose")
                 @@ (b1 :> "http")
ScriptlessKind == (h1 :> "http") @@ (s1 :> "ws") @@ (b1 :> "http")

(* An HTTP request, a close notification, and a WebSocket message for a    *)
(* view without a script, which only another thread can answer.            *)
SharedKind == (h1 :> "http") @@ (b1 :> "ws") @@ (c1 :> "wsclose")

(* The two that a script of theirs can answer.                             *)
AnswerableKind == (h1 :> "http") @@ (s1 :> "ws")

Interchangeable == Permutations(Pool) \cup Permutations(Apps)
                       \cup Permutations(Holders)
=============================================================================
