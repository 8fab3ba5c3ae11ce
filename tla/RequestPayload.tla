--------------------------- MODULE RequestPayload ---------------------------
(***************************************************************************)
(* request_payload_handler: the body of one HTTP request, kept in memory   *)
(* while it stays under memoryLimitBytes, moved to a temporary file when   *)
(* it does not, and turned from one form to the other by the two getters   *)
(* its callback script may call in any order.  The disk may fail at any    *)
(* moment.  The body is the sequence of its bytes, numbered from 1.        *)
(***************************************************************************)
EXTENDS Naturals, Sequences

CONSTANTS
    MaxBody,          \* bound: bytes a client sends
    MaxReads,         \* bound: getter calls of the script
    Limits            \* values of requestPayload.memoryLimitBytes

ASSUME BoundsAssumption == MaxBody \in Nat /\ MaxReads \in Nat
ASSUME LimitsAssumption == Limits \subseteq Nat

VARIABLES
    conf,      \* memoryLimitBytes, and whether tmpDirPath is configured
    phase,     \* of the request: "receiving", "rejected", "handling", "gone",
               \* or "left": gone, but for a file that could not be removed
    fed,       \* bytes of the body that have arrived
    state,     \* payload_data::state
    buffer,    \* payload_data::buffer
    named,     \* payload_data::filename is not empty
    open,      \* payload_data::file holds an open file
    disk,      \* [exists, data] of the file of that name
    answer,    \* what the last getter gave the script
    reads,     \* getter calls so far
    failures   \* disk failures so far (history)

vars == <<conf, phase, fed, state, buffer, named, open, disk, answer, reads, failures>>

(* Mutant: one byte too many is taken from the server's buffer.            *)
BytesOneMore(m, n) == [i \in 1 .. (n - m + 1) |-> m + i]

Bytes(m, n) == [i \in 1 .. (n - m) |-> m + i]    \* bytes m+1 .. n of the body
Body == Bytes(0, fed)

NoFile == [exists |-> FALSE, data |-> <<>>]
File(data) == [exists |-> TRUE, data |-> data]
NoAnswer == [kind |-> "none", data |-> <<>>]
Error == [kind |-> "error", data |-> <<>>]
Text(data) == [kind |-> "text", data |-> data]
Name == [kind |-> "filename", data |-> <<>>]

Init ==
    /\ conf \in [memoryLimitBytes : Limits, tmpDirPath : BOOLEAN]
    /\ phase = "receiving"
    /\ fed = 0
    /\ state = "memory"
    /\ buffer = <<>>
    /\ named = FALSE
    /\ open = FALSE
    /\ disk = NoFile
    /\ answer = NoAnswer
    /\ reads = 0
    /\ failures = 0

Fails == failures' = failures + 1
Works == UNCHANGED failures

-----------------------------------------------------------------------------
(* operator(): the server hands over the next n bytes of the body.  After  *)
(* an exception the server gives the request up and no handler runs.       *)

(* Mutant: a body of exactly the limit stays in memory.                    *)
FitsAtLimit(n) == Len(buffer) + n <= conf.memoryLimitBytes

Fits(n) == Len(buffer) + n < conf.memoryLimitBytes

FeedMemory(n) ==
    /\ state = "memory" /\ Fits(n)
    /\ buffer' = buffer \o Bytes(fed, fed + n)
    /\ Works
    /\ UNCHANGED <<phase, state, named, open, disk>>

FeedRejected(n) ==
    /\ state = "memory" /\ ~Fits(n) /\ ~conf.tmpDirPath
    /\ phase' = "rejected"
    /\ Works
    /\ UNCHANGED <<state, buffer, named, open, disk>>

(* Mutant: the bytes kept in memory so far are not written first.          *)
FeedSpillsNewOnly(n) ==
    /\ state = "memory" /\ ~Fits(n) /\ conf.tmpDirPath
    /\ state' = "file"
    /\ named' = TRUE
    /\ open' = TRUE
    /\ disk' = File(Bytes(fed, fed + n))
    /\ buffer' = <<>>
    /\ Works
    /\ UNCHANGED phase

(* The switch to a file falls through to the write of the new bytes; the   *)
(* file does not open, or the write of the kept or of the new bytes fails  *)
(* (what a partial write leaves is of no use to anybody and is left out).  *)
FeedSpills(n) ==
    /\ state = "memory" /\ ~Fits(n) /\ conf.tmpDirPath
    /\ state' = "file"
    /\ named' = TRUE
    /\ \/ /\ open' = TRUE
          /\ disk' = File(buffer \o Bytes(fed, fed + n))
          /\ buffer' = <<>>
          /\ Works
          /\ UNCHANGED phase
       \/ /\ phase' = "rejected"
          /\ Fails
          /\ \/ open' = FALSE /\ UNCHANGED <<disk, buffer>>
             \/ open' = TRUE /\ disk' = File(<<>>) /\ UNCHANGED buffer
             \/ open' = TRUE /\ disk' = File(buffer) /\ buffer' = <<>>

FeedFile(n) ==
    /\ state = "file" /\ open
    /\ \/ /\ disk' = File(disk.data \o Bytes(fed, fed + n))
          /\ Works
          /\ UNCHANGED phase
       \/ /\ phase' = "rejected"
          /\ Fails
          /\ UNCHANGED disk
    /\ UNCHANGED <<state, buffer, named, open>>

Feed(n) ==
    /\ phase = "receiving"
    /\ fed + n <= MaxBody
    /\ fed' = fed + n
    /\ FeedMemory(n) \/ FeedRejected(n) \/ FeedSpills(n) \/ FeedFile(n)
    /\ UNCHANGED <<conf, answer, reads>>

(* The body is complete: the handler of RequestLifecycle runs.             *)
Handle ==
    /\ phase = "receiving"
    /\ phase' = "handling"
    /\ UNCHANGED <<conf, fed, state, buffer, named, open, disk, answer, reads,
                   failures>>

-----------------------------------------------------------------------------
(* The two getters.  Both close the file first; both switch the state      *)
(* before the disk is touched, and a failure leaves it switched.           *)

Reading ==
    /\ phase = "handling" /\ reads < MaxReads
    /\ reads' = reads + 1
    /\ open' = FALSE
    /\ UNCHANGED <<conf, phase, fed>>

GetDataAsString ==
    /\ Reading
    /\ state' = "memory"
    /\ \/ /\ state = "memory"
          /\ answer' = Text(buffer)
          /\ Works
          /\ UNCHANGED buffer
       \/ /\ state = "file" /\ disk.exists
          /\ buffer' = disk.data
          /\ answer' = Text(disk.data)
          /\ Works
       \/ /\ state = "file"
          /\ answer' = Error
          /\ Fails
          /\ UNCHANGED buffer
    /\ UNCHANGED <<named, disk>>

(* A file that already has a name was written before and still is whole.   *)
GetDataAsFilename ==
    /\ Reading
    /\ state' = "file"
    /\ \/ /\ state = "file" \/ named
          /\ answer' = Name
          /\ Works
          /\ UNCHANGED <<named, disk>>
       \/ /\ state = "memory" /\ ~named
          /\ named' = TRUE
          /\ \/ answer' = Name /\ disk' = File(buffer) /\ Works
             \/ /\ answer' = Error /\ Fails
                /\ \/ UNCHANGED disk
                   \/ \E n \in 0 .. Len(buffer) :
                         disk' = File(SubSeq(buffer, 1, n))
    /\ UNCHANGED buffer

(* Mutant: only the file of a payload still in file state is removed.      *)
DestroyByState ==
    /\ phase \in {"receiving", "rejected", "handling"}
    /\ phase' = "gone"
    /\ IF state = "file" THEN open' = FALSE /\ disk' = NoFile
                         ELSE UNCHANGED <<open, disk>>
    /\ Works
    /\ UNCHANGED <<conf, fed, state, buffer, named, answer, reads>>

(* ~request_payload_handler: when the request is over, was rejected, or is *)
(* given up by the server before the body is complete.  A file that cannot *)
(* be removed is left where it is, without a word.                         *)
Destroy ==
    /\ phase \in {"receiving", "rejected", "handling"}
    /\ \/ /\ named
          /\ phase' = "gone"
          /\ open' = FALSE
          /\ disk' = NoFile
          /\ Works
       \/ /\ named /\ disk.exists
          /\ phase' = "left"
          /\ open' = FALSE
          /\ Fails
          /\ UNCHANGED disk
       \/ /\ ~named
          /\ phase' = "gone"
          /\ Works
          /\ UNCHANGED <<open, disk>>
    /\ UNCHANGED <<conf, fed, state, buffer, named, answer, reads>>

Next ==
    \/ \E n \in 1 .. MaxBody : Feed(n)
    \/ Handle
    \/ GetDataAsString
    \/ GetDataAsFilename
    \/ Destroy

Spec == Init /\ [][Next]_vars

-----------------------------------------------------------------------------
(* Properties.                                                             *)

(* Every variable keeps to the values the code gives it.                   *)
TypeOK ==
    /\ conf \in [memoryLimitBytes : Limits, tmpDirPath : BOOLEAN]
    /\ phase \in {"receiving", "rejected", "handling", "gone", "left"}
    /\ fed \in 0 .. MaxBody
    /\ state \in {"memory", "file"}
    /\ buffer \in Seq(1 .. MaxBody)
    /\ named \in BOOLEAN
    /\ open \in BOOLEAN
    /\ disk.exists \in BOOLEAN /\ disk.data \in Seq(1 .. MaxBody)
    /\ answer.kind \in {"none", "error", "text", "filename"}
    /\ reads \in 0 .. MaxReads
    /\ failures \in 0 .. (MaxReads + 2)

(* While the disk works, whatever the script asks for, in whatever order   *)
(* and however the body was cut and spilled on its way in, it gets the     *)
(* whole body: as text, or as the name of a file that holds it.            *)
AnswersAreWhole ==
    failures = 0 /\ phase = "handling" =>
        /\ answer.kind # "error"
        /\ answer.kind = "text" => answer.data = Body
        /\ answer.kind = "filename" => disk.exists /\ disk.data = Body

(* memoryLimitBytes is a limit of the body, not of the pieces it arrives   *)
(* in: however the body is cut, as many bytes as the limit or more are in  *)
(* the file, or rejected where there is no directory for one, and fewer    *)
(* are in memory.                                                          *)
LimitIsOfTheBody ==
    failures = 0 /\ reads = 0 =>
        /\ phase \in {"receiving", "handling"} =>
              \/ state = "memory" /\ (fed < conf.memoryLimitBytes \/ fed = 0)
              \/ /\ state = "file" /\ conf.tmpDirPath
                 /\ fed >= conf.memoryLimitBytes
        /\ phase = "rejected" => fed >= conf.memoryLimitBytes /\ ~conf.tmpDirPath

(* Wherever the request was given up, while the body arrived or later, and *)
(* whatever failed before, no file outlives it and none stays open, even   *)
(* when a getter has brought the body back into memory; only a file that   *)
(* the last remove itself could not delete stays on the disk.              *)
NoFileLeftBehind ==
    phase \in {"gone", "left"} => ~open /\ (disk.exists => phase = "left")
=============================================================================
