--------------------------- MODULE ResponseStream ---------------------------
(***************************************************************************)
(* response_stream_sender: a file or a rendered template sent as HTTP      *)
(* chunks, one buffer at a time, from the completion callbacks of the      *)
(* native server, and the finalizer that removes a temporary file.  The    *)
(* native server's asynchronous write and the client's connection are the  *)
(* environment.  The content is the sequence of its bytes, from 1.         *)
(***************************************************************************)
EXTENDS Naturals, Sequences

CONSTANTS
    MaxLength,  \* bound: bytes of the content
    BufSize     \* size of the sender's buffer (4096 in the code)

ASSUME BoundAssumption == MaxLength \in Nat
ASSUME BufAssumption == BufSize \in Nat \ {0}

VARIABLES
    length,    \* of the content
    source,    \* of the answer: one of Sources
    sender,    \* "ready", "chunk" (a write is under way), "gone"
    pos,       \* bytes read from the stream
    payload,   \* what the native writer holds, to be sent next
    final,     \* the last chunk: "no", "under way", "sent", "failed"
    wire,      \* bytes the client was sent
    told,      \* what the finalizer was called with, call by call
    keep       \* the connection may be kept open

vars == <<length, source, sender, pos, payload, final, wire, told, keep>>

(* A temporary file is removed by the finalizer; the file and zip handlers *)
(* and send_mustache give none.                                            *)
Sources == {"temp_file", "template", "file", "zip"}

Init ==
    /\ length \in 0 .. MaxLength
    /\ source \in Sources
    /\ sender = "ready"
    /\ pos = 0
    /\ payload = <<>>
    /\ final = "no"
    /\ wire = <<>>
    /\ told = <<>>
    /\ keep = TRUE

Content(m, n) == [i \in 1 .. (n - m) |-> m + i]

Tell(success) ==
    told' = IF source = "temp_file" THEN Append(told, success) ELSE told

(* How many bytes one read_all gets.                                       *)
ReadLength == IF length - pos < BufSize THEN length - pos ELSE BufSize

-----------------------------------------------------------------------------
(* handle_write with no error: the writer is cleared, the next buffer read *)
(* and written.  A full buffer goes out as a chunk that calls back; less   *)
(* is the end, and the finalizer is told at once.                          *)

(* Mutant: the last buffer is taken to be empty.                           *)
SendFinalChunkEmpty ==
    /\ ReadLength < BufSize
    /\ payload' = <<>>
    /\ pos' = length
    /\ sender' = "gone"
    /\ final' = "under way"
    /\ Tell(TRUE)

(* Mutant: the last buffer is sent whole, with the tail of the one before. *)
SendFinalChunkStale ==
    /\ ReadLength < BufSize
    /\ payload' = Content(pos, length) \o SubSeq(payload, ReadLength + 1, Len(payload))
    /\ pos' = length
    /\ sender' = "gone"
    /\ final' = "under way"
    /\ Tell(TRUE)

(* Mutants: clear() is forgotten; a last buffer that is full tells the     *)
(* finalizer although its chunk calls back.                                *)
SendChunkUncleared ==
    /\ ReadLength = BufSize
    /\ payload' = payload \o Content(pos, pos + BufSize)
    /\ pos' = pos + BufSize
    /\ sender' = "chunk"
    /\ UNCHANGED <<final, told>>

SendChunkTells ==
    /\ ReadLength = BufSize
    /\ payload' = Content(pos, pos + BufSize)
    /\ pos' = pos + BufSize
    /\ sender' = "chunk"
    /\ UNCHANGED final
    /\ IF pos' = length THEN Tell(TRUE) ELSE UNCHANGED told

SendChunk ==
    /\ ReadLength = BufSize
    /\ payload' = Content(pos, pos + BufSize)
    /\ pos' = pos + BufSize
    /\ sender' = "chunk"
    /\ UNCHANGED <<final, told>>

SendFinalChunk ==
    /\ ReadLength < BufSize
    /\ payload' = Content(pos, length)
    /\ pos' = length
    /\ sender' = "gone"
    /\ final' = "under way"
    /\ Tell(TRUE)

(* Reading throws: the sender is destroyed as the stack unwinds, with the  *)
(* native writer inside, and the finalizer is never told.                  *)
ReadFails ==
    /\ sender' = "gone"
    /\ UNCHANGED <<pos, payload, final, told>>

HandleNext == SendChunk \/ SendFinalChunk \/ ReadFails

(* response_stream_sender::send: the first buffer.                         *)
Send ==
    /\ sender = "ready"
    /\ HandleNext
    /\ UNCHANGED <<length, source, wire, keep>>

(* The native server wrote the chunk and calls back.                       *)
ChunkSent ==
    /\ sender = "chunk"
    /\ wire' = wire \o payload
    /\ HandleNext
    /\ UNCHANGED <<length, source, keep>>

(* Mutant: the sender is taken back from the callback only without error.  *)
ChunkFailsLeaks ==
    /\ sender = "chunk"
    /\ \E n \in 0 .. (Len(payload) - 1) : wire' = wire \o SubSeq(payload, 1, n)
    /\ sender' = "leaked"
    /\ keep' = FALSE
    /\ Tell(FALSE)
    /\ UNCHANGED <<length, source, pos, payload, final>>

(* It could not: the connection is to be closed, the finalizer is told.    *)
ChunkFails ==
    /\ sender = "chunk"
    /\ \E n \in 0 .. (Len(payload) - 1) : wire' = wire \o SubSeq(payload, 1, n)
    /\ sender' = "gone"
    /\ keep' = FALSE
    /\ Tell(FALSE)
    /\ UNCHANGED <<length, source, pos, payload, final>>

(* The native server is done with the last chunk, one way or the other;    *)
(* nobody in this code is called back.                                     *)
FinalChunkSent ==
    /\ final = "under way"
    /\ wire' = wire \o payload
    /\ final' = "sent"
    /\ UNCHANGED <<length, source, sender, pos, payload, told, keep>>

FinalChunkFails ==
    /\ final = "under way"
    /\ \E n \in 0 .. Len(payload) : wire' = wire \o SubSeq(payload, 1, n)
    /\ final' = "failed"
    /\ keep' = FALSE
    /\ UNCHANGED <<length, source, sender, pos, payload, told>>

Next == Send \/ ChunkSent \/ ChunkFails \/ FinalChunkSent \/ FinalChunkFails

(* The native server completes every write it was given.                   *)
Spec == Init /\ [][Next]_vars /\ WF_vars(Next)

-----------------------------------------------------------------------------
(* Properties.                                                             *)

(* Every variable keeps to the values the code gives it.                   *)
TypeOK ==
    /\ length \in 0 .. MaxLength
    /\ source \in Sources
    /\ sender \in {"ready", "chunk", "gone"}
    /\ pos \in 0 .. length
    /\ payload \in Seq(1 .. length) /\ Len(payload) <= BufSize
    /\ final \in {"no", "under way", "sent", "failed"}
    /\ wire \in Seq(1 .. length)
    /\ told \in {<<>>, <<TRUE>>, <<FALSE>>}
    /\ keep \in BOOLEAN

(* The client gets the content from its start, in order, no byte twice and *)
(* none left out, up to wherever the response stops.                       *)
WireIsPrefix == wire = Content(0, Len(wire))

(* A response the client sees completed holds the whole content; one that  *)
(* was cut by a failed write is not followed by another on its connection. *)
CompleteOrClosed ==
    /\ final = "sent" => wire = Content(0, length)
    /\ told = <<FALSE>> \/ final = "failed" => ~keep

(* The finalizer, which removes the temporary file and frees its context,  *)
(* runs at most once, and only when the sender will not read again.        *)
ToldAtTheEnd ==
    told # <<>> => /\ Len(told) = 1 /\ sender = "gone"
                   /\ told = <<TRUE>> => pos = length
=============================================================================
