-------------------------- MODULE ResponseContract --------------------------
(***************************************************************************)
(* What wilton_server promises the client of one request, whatever threads *)
(* and scripts do: an open request can have its status line edited until   *)
(* somebody begins to answer it; then it is answered, deferred to a writer *)
(* or lost, and never goes back; a deferred one can be edited again until  *)
(* it is answered or lost.  Only a request nobody serves may be lost       *)
(* before anybody began to answer it.                                      *)
(***************************************************************************)
CONSTANTS
    Requests,
    Kind,
    Unserved    \* requests for which no callback script runs

VARIABLES
    phase,   \* of each request
    line     \* the status line the client will see

Phases == {"new", "open", "answering", "deferred", "answered", "lost"}
Lines == {"200", "script", "500"}

Init ==
    /\ phase = [r \in Requests |-> "new"]
    /\ line = [r \in Requests |-> "200"]

Move(r, from, to) ==
    /\ phase[r] = from
    /\ phase' = [phase EXCEPT ![r] = to]
    /\ UNCHANGED line

Receive(r) ==
    Move(r, "new", IF Kind[r] = "wsclose" THEN "answering" ELSE "open")

Begin(r) == Move(r, "open", "answering")

Defer(r) == Kind[r] # "wsclose" /\ Move(r, "answering", "deferred")

Answer(r) ==
    /\ Kind[r] # "wsclose"
    /\ \/ Move(r, "answering", "answered")
       \/ Move(r, "deferred", "answered")

Lose(r) ==
    \/ Move(r, "answering", "lost")
    \/ Move(r, "deferred", "lost")
    \/ r \in Unserved /\ Move(r, "open", "lost")

Edit(r) ==
    /\ phase[r] \in {"open", "deferred"}
    /\ Kind[r] = "http"
    /\ \E l \in Lines : line' = [line EXCEPT ![r] = l]
    /\ UNCHANGED phase

Next ==
    \E r \in Requests :
        \/ Receive(r) \/ Begin(r) \/ Defer(r) \/ Answer(r) \/ Lose(r) \/ Edit(r)

Spec == Init /\ [][Next]_<<phase, line>>
=============================================================================
