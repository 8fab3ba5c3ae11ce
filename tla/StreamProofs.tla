----------------------------- MODULE StreamProofs -----------------------------
(***************************************************************************)
(* Machine-checked proofs about the response stream sender, in whatever    *)
(* response it is used, for contents of any length and buffers of any      *)
(* size; about temporary files; and about static requests, for any roots   *)
(* and paths.                                                              *)
(***************************************************************************)
EXTENDS Responses, SequenceTheorems, TLAPS

-----------------------------------------------------------------------------
(* Bytes of the content.                                                   *)

LEMMA ContentSeq ==
    ASSUME NEW m \in Nat, NEW n \in Nat, NEW k \in Nat, m <= n, n <= k
    PROVE  Content(m, n) \in Seq(1 .. k) /\ Len(Content(m, n)) = n - m
<1>1. n - m \in Nat /\ \A i \in 1 .. (n - m) : m + i \in 1 .. k
  OBVIOUS
<1> QED BY <1>1 DEF Content

LEMMA ContentJoin ==
    ASSUME NEW m \in Nat, NEW n \in Nat
    PROVE  Content(0, m) \o Content(m, m + n) = Content(0, m + n)
<1>1. /\ Content(0, m) \in Seq(Nat) /\ Len(Content(0, m)) = m
      /\ Content(m, m + n) \in Seq(Nat) /\ Len(Content(m, m + n)) = n
      /\ Content(0, m + n) \in Seq(Nat) /\ Len(Content(0, m + n)) = m + n
  BY DEF Content
<1>2. \A i \in 1 .. (m + n) :
         (Content(0, m) \o Content(m, m + n))[i] = Content(0, m + n)[i]
  BY <1>1 DEF Content
<1>3. /\ Content(0, m) \o Content(m, m + n) \in Seq(Nat)
      /\ Len(Content(0, m) \o Content(m, m + n)) = m + n
  BY <1>1, ConcatProperties
<1> HIDE DEF Content
<1> QED BY <1>1, <1>2, <1>3, SeqEqual

(* A write that fails has sent some first bytes of what it was given.      *)
LEMMA ContentCut ==
    ASSUME NEW m \in Nat, NEW n \in Nat, m <= n, NEW k \in 0 .. (n - m)
    PROVE  SubSeq(Content(m, n), 1, k) = Content(m, m + k)
<1>1. \A i \in 1 .. k : Content(m, n)[i] = m + i /\ m + i \in Nat
  BY DEF Content
<1>2. /\ SubSeq(Content(m, n), 1, k) \in Seq(Nat)
      /\ Len(SubSeq(Content(m, n), 1, k)) = k
      /\ \A i \in 1 .. k : SubSeq(Content(m, n), 1, k)[i] = m + i
  BY <1>1, SubSeqProperties
<1>3. /\ Content(m, m + k) \in Seq(Nat) /\ Len(Content(m, m + k)) = k
      /\ \A i \in 1 .. k : Content(m, m + k)[i] = m + i
  BY DEF Content
<1> HIDE DEF Content
<1> QED BY <1>2, <1>3, SeqEqual

-----------------------------------------------------------------------------
(* The invariant.                                                          *)

RestOK ==
    /\ length \in 0 .. MaxLength
    /\ source \in Sources
    /\ sender \in {"ready", "chunk", "gone"}
    /\ pos \in 0 .. length
    /\ final \in {"no", "under way", "sent", "failed"}
    /\ keep \in BOOLEAN

PayloadOK == payload \in Seq(1 .. length) /\ Len(payload) <= BufSize

ToldOK == told \in {<<>>, <<TRUE>>, <<FALSE>>}

(* What the client has are the first bytes; what the native writer holds   *)
(* while it writes are the next ones, up to where the stream was read.     *)
Writing == sender = "chunk" \/ final = "under way"

WireOK ==
    \E w \in 0 .. length :
        /\ wire = Content(0, w)
        /\ sender = "ready" => w = 0 /\ pos = 0
        /\ Writing => w <= pos /\ payload = Content(w, pos)

(* Where the sender and its finalizer are when.                            *)
Order ==
    /\ sender # "gone" => final = "no" /\ told = <<>>
    /\ final # "no" => pos = length /\ told # <<FALSE>>
    /\ told = <<TRUE>> => pos = length

SenderInv == RestOK /\ PayloadOK /\ ToldOK /\ WireOK /\ Order /\ CompleteOrClosed

LEMMA Lengths ==
    ASSUME RestOK
    PROVE  /\ length \in Nat /\ pos \in Nat /\ pos <= length /\ length <= MaxLength
           /\ BufSize \in Nat /\ 0 < BufSize
<1>1. length \in 0 .. MaxLength /\ pos \in 0 .. length
  BY DEF RestOK
<1>2. length \in Nat /\ length <= MaxLength
  BY <1>1, BoundAssumption
<1>3. pos \in Nat /\ pos <= length
  BY <1>1, <1>2
<1> QED BY <1>2, <1>3, BufAssumption

LEMMA TypeParts == RestOK /\ PayloadOK /\ ToldOK /\ WireOK => TypeOK
<1> SUFFICES ASSUME RestOK, PayloadOK, ToldOK, WireOK PROVE TypeOK
  OBVIOUS
<1>1. PICK w \in 0 .. length : wire = Content(0, w)
  BY DEF WireOK
<1>2. length \in Nat /\ w \in Nat /\ w <= length
  BY <1>1, Lengths
<1>3. wire \in Seq(1 .. length)
  BY <1>1, <1>2, ContentSeq
<1> QED BY <1>3 DEF RestOK, PayloadOK, ToldOK, TypeOK

LEMMA ToldFacts ==
    /\ <<TRUE>> # <<FALSE>> /\ <<>> # <<TRUE>> /\ <<>> # <<FALSE>>
    /\ Append(<<>>, TRUE) = <<TRUE>> /\ Append(<<>>, FALSE) = <<FALSE>>
    /\ Len(<<TRUE>>) = 1 /\ Len(<<FALSE>>) = 1
OBVIOUS

LEMMA SenderInit == Init => SenderInv
<1> SUFFICES ASSUME Init PROVE SenderInv
  OBVIOUS
<1>1. length \in Nat /\ BufSize \in Nat /\ Content(0, 0) = <<>>
  BY BoundAssumption, BufAssumption DEF Init, Content
<1>2. RestOK
  BY <1>1 DEF Init, RestOK
<1>3. PayloadOK
  BY <1>1 DEF Init, PayloadOK
<1>4. WireOK
  BY <1>1 DEF Init, WireOK, Writing
<1> QED BY <1>2, <1>3, <1>4, ToldFacts DEF Init, SenderInv, ToldOK, Order, CompleteOrClosed

(* The next buffer, when the one before is on the wire.                    *)
LEMMA HandleKeeps ==
    ASSUME SenderInv, sender # "gone", HandleNext, wire' = Content(0, pos),
           UNCHANGED <<length, source, keep>>
    PROVE  SenderInv'
<1>1. /\ length \in Nat /\ pos \in Nat /\ pos <= length /\ length <= MaxLength
      /\ BufSize \in Nat /\ 0 < BufSize
  BY Lengths DEF SenderInv
<1>a. final = "no" /\ told = <<>> /\ keep \in BOOLEAN /\ source \in Sources /\ length' = length
      /\ length \in 0 .. MaxLength
  BY DEF SenderInv, RestOK, Order
<1>2. CASE SendChunk
  <2>1. /\ payload' = Content(pos, pos + BufSize) /\ pos' = pos + BufSize
        /\ sender' = "chunk" /\ final' = "no" /\ told' = <<>>
    BY <1>2, <1>a DEF SendChunk
  <2>2. pos + BufSize <= length /\ pos + BufSize \in Nat
    BY <1>1, <1>2 DEF SendChunk, ReadLength
  <2>3. RestOK'
    <3>1. pos + BufSize \in 0 .. length
      BY <1>1, <2>2
    <3> QED BY <1>a, <2>1, <3>1 DEF RestOK
  <2>4. PayloadOK'
    <3>1. /\ Content(pos, pos + BufSize) \in Seq(1 .. length)
          /\ Len(Content(pos, pos + BufSize)) = pos + BufSize - pos
      <4>1. PICK end : end = pos + BufSize
        OBVIOUS
      <4>2. end \in Nat /\ pos <= end /\ end <= length
        BY <1>1, <2>2, <4>1
      <4>3. Content(pos, end) \in Seq(1 .. length) /\ Len(Content(pos, end)) = end - pos
        BY <1>1, <4>2, ContentSeq
      <4> QED BY <1>1, <4>1, <4>3
    <3>2. pos + BufSize - pos <= BufSize
      BY <1>1
    <3> QED BY <1>a, <2>1, <3>1, <3>2 DEF PayloadOK
  <2>5. WireOK'
    <3>1. pos \in 0 .. length /\ pos <= pos + BufSize
      BY <1>1
    <3> QED BY <1>a, <2>1, <3>1 DEF WireOK, Writing
  <2> QED BY <1>a, <2>1, <2>3, <2>4, <2>5, ToldFacts DEF SenderInv, ToldOK,
     Order, CompleteOrClosed
<1>3. CASE SendFinalChunk
  <2>1. /\ payload' = Content(pos, length) /\ pos' = length
        /\ sender' = "gone" /\ final' = "under way"
        /\ told' = <<>> \/ told' = <<TRUE>>
    BY <1>3, <1>a, ToldFacts DEF SendFinalChunk, Tell
  <2>2. length - pos < BufSize
    <3>1. ReadLength < BufSize
      BY <1>3 DEF SendFinalChunk
    <3> QED BY <1>1, <3>1 DEF ReadLength
  <2>3. RestOK'
    <3>1. length \in 0 .. length
      BY <1>1
    <3> QED BY <1>a, <2>1, <3>1 DEF RestOK
  <2>4. PayloadOK'
    <3>1. /\ Content(pos, length) \in Seq(1 .. length)
          /\ Len(Content(pos, length)) = length - pos
      BY <1>1, ContentSeq
    <3>2. length - pos <= BufSize
      BY <1>1, <2>2
    <3> QED BY <1>a, <2>1, <3>1, <3>2 DEF PayloadOK
  <2>5. WireOK'
    <3>1. pos \in 0 .. length /\ pos <= length
      BY <1>1
    <3> QED BY <1>a, <2>1, <3>1 DEF WireOK, Writing
  <2> QED BY <1>a, <2>1, <2>3, <2>4, <2>5, ToldFacts DEF SenderInv, ToldOK,
     Order, CompleteOrClosed
<1>4. CASE ReadFails
  <2>1. sender' = "gone" /\ UNCHANGED <<pos, payload, final, told>>
    BY <1>4 DEF ReadFails
  <2>2. RestOK' /\ PayloadOK'
    BY <1>a, <2>1 DEF SenderInv, RestOK, PayloadOK
  <2>3. WireOK'
    <3>1. pos \in 0 .. length
      BY <1>1
    <3> QED BY <1>a, <2>1, <3>1 DEF WireOK, Writing
  <2> QED BY <1>a, <2>1, <2>2, <2>3, ToldFacts DEF SenderInv, ToldOK,
     Order, CompleteOrClosed
<1> QED BY <1>2, <1>3, <1>4 DEF HandleNext

LEMMA CutLength ==
    ASSUME NEW n \in Nat, NEW p \in Nat, p <= n, NEW w \in Nat, w <= p, NEW k \in 0 .. (p - w)
    PROVE  k \in Nat /\ w + k \in Nat /\ w + k \in 0 .. n
OBVIOUS

LEMMA WritingFacts ==
    ASSUME SenderInv, Writing
    PROVE  \E w \in Nat :
              /\ wire = Content(0, w) /\ payload = Content(w, pos) /\ w <= pos
              /\ pos \in Nat /\ length \in Nat /\ pos <= length
              /\ Len(payload) = pos - w
<1>1. PICK w \in 0 .. length :
         wire = Content(0, w) /\ w <= pos /\ payload = Content(w, pos)
  BY DEF SenderInv, WireOK
<1>2. length \in Nat /\ pos \in Nat /\ pos <= length
  BY Lengths DEF SenderInv
<1>3. w \in Nat /\ w <= pos
  BY <1>1, <1>2
<1>4. Len(Content(w, pos)) = pos - w
  BY <1>2, <1>3, ContentSeq
<1> QED BY <1>1, <1>2, <1>3, <1>4

(* A write that failed sent some first bytes of what it was given.         *)
LEMMA CutWire ==
    ASSUME SenderInv, Writing
    PROVE  \A k \in 0 .. Len(payload) :
              \E x \in 0 .. length : wire \o SubSeq(payload, 1, k) = Content(0, x)
<1>1. PICK w \in Nat :
              /\ wire = Content(0, w) /\ payload = Content(w, pos) /\ w <= pos
              /\ pos \in Nat /\ length \in Nat /\ pos <= length
              /\ Len(payload) = pos - w
  BY WritingFacts
<1>2. SUFFICES ASSUME NEW k \in 0 .. (pos - w)
               PROVE  \E x \in 0 .. length : wire \o SubSeq(payload, 1, k) = Content(0, x)
  BY <1>1
<1>3. k \in Nat /\ w + k \in Nat /\ w + k \in 0 .. length
  BY <1>1, CutLength
<1>4. SubSeq(payload, 1, k) = Content(w, w + k)
  BY <1>1, ContentCut
<1>5. wire \o SubSeq(payload, 1, k) = Content(0, w + k)
  BY <1>1, <1>3, <1>4, ContentJoin
<1> QED BY <1>3, <1>5

(* A write that was done sent all of it.                                   *)
LEMMA WholeWire ==
    ASSUME SenderInv, Writing PROVE wire \o payload = Content(0, pos)
<1>1. PICK w \in Nat :
              /\ wire = Content(0, w) /\ payload = Content(w, pos) /\ w <= pos
              /\ pos \in Nat
  BY WritingFacts
<1>2. pos - w \in Nat /\ w + (pos - w) = pos
  BY <1>1
<1>3. Content(0, w) \o Content(w, w + (pos - w)) = Content(0, w + (pos - w))
  BY <1>1, <1>2, ContentJoin
<1> QED BY <1>1, <1>2, <1>3

LEMMA SenderStep == SenderInv /\ [Next]_vars => SenderInv'
<1> SUFFICES ASSUME SenderInv, [Next]_vars PROVE SenderInv'
  OBVIOUS
<1>1. CASE Send
  <2>1. wire = Content(0, pos)
    BY <1>1 DEF Send, SenderInv, WireOK
  <2> QED BY <1>1, <2>1, HandleKeeps DEF Send
<1>2. CASE ChunkSent
  <2>1. wire' = Content(0, pos)
    BY <1>2, WholeWire DEF ChunkSent, Writing
  <2> QED BY <1>2, <2>1, HandleKeeps DEF ChunkSent
<1>3. CASE ChunkFails
  <2>1. final = "no" /\ told = <<>> /\ Len(payload) \in Nat
    BY <1>3, LenProperties DEF ChunkFails, SenderInv, Order, PayloadOK
  <2>2. PICK k \in 0 .. (Len(payload) - 1) : wire' = wire \o SubSeq(payload, 1, k)
    BY <1>3 DEF ChunkFails
  <2>a. k \in 0 .. Len(payload)
    BY <2>1, <2>2
  <2>3. WireOK'
    <3>1. PICK x \in 0 .. length : wire' = Content(0, x)
      BY <1>3, <2>2, <2>a, CutWire DEF ChunkFails, Writing
    <3>2. length' = length /\ sender' = "gone" /\ final' = "no"
      BY <1>3, <2>1 DEF ChunkFails
    <3> QED BY <3>1, <3>2 DEF WireOK, Writing
  <2>4. told' = <<>> \/ told' = <<FALSE>>
    BY <1>3, <2>1, ToldFacts DEF ChunkFails, Tell
  <2>5. RestOK' /\ PayloadOK'
    BY <1>3 DEF ChunkFails, SenderInv, RestOK, PayloadOK
  <2> QED BY <1>3, <2>1, <2>3, <2>4, <2>5, ToldFacts DEF ChunkFails, SenderInv, ToldOK,
     Order, CompleteOrClosed
<1>4. CASE FinalChunkSent
  <2>1. sender = "gone" /\ pos = length
    BY <1>4 DEF FinalChunkSent, SenderInv, Order
  <2>2. wire' = Content(0, length)
    BY <1>4, <2>1, WholeWire DEF FinalChunkSent, Writing
  <2>3. WireOK'
    <3>1. length' = length /\ RestOK
      BY <1>4 DEF FinalChunkSent, SenderInv
    <3>2. length \in 0 .. length
      BY <3>1, Lengths
    <3> QED BY <1>4, <2>1, <2>2, <3>1, <3>2 DEF FinalChunkSent, WireOK, Writing
  <2>4. RestOK' /\ PayloadOK'
    BY <1>4 DEF FinalChunkSent, SenderInv, RestOK, PayloadOK
  <2> QED BY <1>4, <2>1, <2>2, <2>3, <2>4 DEF FinalChunkSent, SenderInv, ToldOK,
     Order, CompleteOrClosed
<1>5. CASE FinalChunkFails
  <2>1. sender = "gone" /\ pos = length
    BY <1>5 DEF FinalChunkFails, SenderInv, Order
  <2>2. WireOK'
    <3>1. PICK x \in 0 .. length : wire' = Content(0, x)
      BY <1>5, CutWire DEF FinalChunkFails, Writing
    <3>2. length' = length /\ sender' = "gone" /\ final' = "failed"
      BY <1>5, <2>1 DEF FinalChunkFails
    <3> QED BY <3>1, <3>2 DEF WireOK, Writing
  <2>3. RestOK' /\ PayloadOK'
    BY <1>5 DEF FinalChunkFails, SenderInv, RestOK, PayloadOK
  <2> QED BY <1>5, <2>1, <2>2, <2>3 DEF FinalChunkFails, SenderInv, ToldOK,
     Order, CompleteOrClosed
<1>6. CASE UNCHANGED vars
  BY <1>6 DEF vars, SenderInv, RestOK, PayloadOK, ToldOK, WireOK, Writing, Order,
     CompleteOrClosed
<1> QED BY <1>1, <1>2, <1>3, <1>4, <1>5, <1>6 DEF Next

-----------------------------------------------------------------------------
(* Whatever starts a response, the sender's part of every step of it is a  *)
(* step of the sender.                                                     *)
LEMMA StartLeavesSender == Start => UNCHANGED vars
BY DEF Start, FileAnswers, FileNotFound, FileThrows, ZipAnswers, ZipNotFound,
   LoaderAnswers, LoaderNotFound, RedirectAnswers, ScriptStreams, SendRefused,
   TemplateRefused, StartStream, Reply, Throw

LEMMA SenderReachable == StartSpec => []SenderInv
<1>1. StartInit => SenderInv
  BY SenderInit DEF StartInit
<1>2. [Start \/ Stream]_<<vars, startVars>> => [Next]_vars
  BY StartLeavesSender DEF Stream
<1>3. SenderInv /\ [Start \/ Stream]_<<vars, startVars>> => SenderInv'
  BY <1>2, SenderStep
<1> QED BY <1>1, <1>3, PTL DEF StartSpec

(* The client gets the content from its start, in order, no byte twice and *)
(* none left out.                                                          *)
THEOREM WireIsAlwaysPrefix == StartSpec => []WireIsPrefix
<1>1. SenderInv => WireIsPrefix
  <2> SUFFICES ASSUME SenderInv PROVE wire = Content(0, Len(wire))
    BY DEF WireIsPrefix
  <2>1. PICK w \in 0 .. length : wire = Content(0, w)
    BY DEF SenderInv, WireOK
  <2>2. w \in Nat /\ 0 \in Nat /\ 0 <= w /\ w <= w
    BY <2>1, Lengths DEF SenderInv
  <2>3. Len(wire) = w - 0
    BY <2>1, <2>2, ContentSeq
  <2>4. w - 0 = w
    BY <2>2
  <2> QED BY <2>1, <2>3, <2>4
<1> QED BY <1>1, SenderReachable, PTL

(* A completed response is whole, a cut one ends its connection.           *)
THEOREM CompletedIsWhole == StartSpec => []CompleteOrClosed
<1>1. SenderInv => CompleteOrClosed
  BY DEF SenderInv
<1> QED BY <1>1, SenderReachable, PTL

(* The finalizer runs at most once, when the sender reads no more.         *)
THEOREM FinalizerToldOnce == StartSpec => []ToldAtTheEnd
<1>1. SenderInv => ToldAtTheEnd
  BY ToldFacts DEF SenderInv, ToldOK, Order, ToldAtTheEnd
<1> QED BY <1>1, SenderReachable, PTL

-----------------------------------------------------------------------------
(* Every variable of a response keeps to the values the code gives it.     *)
LEMMA StartTypeStep ==
    StartTypeOK /\ TypeOK' /\ [Start \/ Stream]_<<vars, startVars>> => StartTypeOK'
<1> SUFFICES ASSUME StartTypeOK, TypeOK', [Start \/ Stream]_<<vars, startVars>>
             PROVE  StartTypeOK'
  OBVIOUS
<1>1. ASSUME asked' = asked, answer' = "direct", tmp' = tmp,
             status'.code \in {200, 303, 404}
      PROVE  StartTypeOK'
  BY <1>1 DEF StartTypeOK
<1>4. ASSUME NEW type, StartStream(type) PROVE StartTypeOK'
  BY <1>4 DEF StartStream, StartTypeOK
<1>5. ASSUME asked' = asked, answer' \in {"refused", "thrown"}, status' = status, tmp' = tmp
      PROVE  StartTypeOK'
  BY <1>5 DEF StartTypeOK
<1>6. CASE Start
  <2>1. CASE FileAnswers
    BY <2>1, <1>4 DEF FileAnswers
  <2>2. CASE FileNotFound
    BY <2>2, <1>1 DEF FileNotFound, Reply
  <2>3. CASE FileThrows
    BY <2>3, <1>5 DEF FileThrows, Throw
  <2>4. CASE ZipAnswers
    BY <2>4, <1>4, <1>5 DEF ZipAnswers, Throw
  <2>5. CASE ZipNotFound
    BY <2>5, <1>1 DEF ZipNotFound, Reply
  <2>6. CASE LoaderAnswers
    BY <2>6, <1>1 DEF LoaderAnswers, Reply
  <2>7. CASE LoaderNotFound
    BY <2>7, <1>1 DEF LoaderNotFound, Reply
  <2>8. CASE RedirectAnswers
    BY <2>8, <1>1 DEF RedirectAnswers, Reply
  <2>9. CASE ScriptStreams
    BY <2>9, <1>4 DEF ScriptStreams
  <2>10. CASE SendRefused \/ TemplateRefused
    BY <2>10, <1>5 DEF SendRefused, TemplateRefused
  <2> QED BY <1>6, <2>1, <2>2, <2>3, <2>4, <2>5, <2>6, <2>7, <2>8, <2>9, <2>10 DEF Start
<1>2. CASE Stream
  <2>1. asked' = asked /\ answer' = answer /\ status' = status
        /\ (tmp' = tmp \/ tmp' = [file |-> FALSE, context |-> FALSE])
    BY <1>2 DEF Stream, Finalize, Gone
  <2>2. tmp' \in [file : BOOLEAN, context : BOOLEAN]
    <3>1. tmp \in [file : BOOLEAN, context : BOOLEAN]
      BY DEF StartTypeOK
    <3>2. [file |-> FALSE, context |-> FALSE] \in [file : BOOLEAN, context : BOOLEAN]
      OBVIOUS
    <3> QED BY <2>1, <3>1, <3>2
  <2> QED BY <2>1, <2>2 DEF StartTypeOK
<1>3. CASE UNCHANGED <<vars, startVars>>
  <2>1. asked' = asked /\ answer' = answer /\ status' = status /\ tmp' = tmp
    BY <1>3 DEF startVars
  <2> QED BY <2>1 DEF StartTypeOK
<1> QED BY <1>2, <1>3, <1>6

(* Type correctness of responses, however they start.                      *)
THEOREM ResponseTypeCorrect == StartSpec => []StartTypeOK
<1>1. StartInit => StartTypeOK
  <2> SUFFICES ASSUME StartInit PROVE StartTypeOK
    OBVIOUS
  <2>1. TypeOK
    BY SenderInit, TypeParts DEF StartInit, SenderInv
  <2>2. asked.handler \in Static \cup {"redirect", "temp_file", "template"}
    BY DEF StartInit
  <2>3. status.code = 0 /\ answer = "none"
    BY DEF StartInit, NoStatus
  <2>4. tmp \in [file : BOOLEAN, context : BOOLEAN]
    BY DEF StartInit, Gone
  <2> QED BY <2>1, <2>2, <2>3, <2>4 DEF StartTypeOK
<1>2. SenderInv => TypeOK
  BY TypeParts DEF SenderInv
<1>3. /\ StartTypeOK /\ TypeOK' /\ [Start \/ Stream]_<<vars, startVars>>
      => StartTypeOK'
  BY StartTypeStep
<1> QED BY <1>1, <1>2, <1>3, SenderReachable, PTL DEF StartSpec

-----------------------------------------------------------------------------
(* Temporary files: the file and the context go with the one call of the   *)
(* finalizer, and the sender of a temporary file calls it by the time it   *)
(* gives the last chunk away.                                              *)
Whole == [file |-> TRUE, context |-> TRUE]

TempInv ==
    /\ answer # "stream" => sender = "ready"
    /\ asked.handler = "temp_file" =>
          /\ source = "temp_file"
          /\ answer \in {"none", "stream", "refused"}
          /\ told = <<>> => final = "no" /\ tmp = Whole
          /\ told # <<>> => tmp = Gone

LEMMA ToldStep ==
    ASSUME SenderInv, Next, source = "temp_file", told = <<>> => final = "no"
    PROVE  /\ source' = source
           /\ told' = <<>> => told = <<>> /\ final' = "no"
           /\ told' # told => told' # <<>>
           /\ told' = told \/ told = <<>>
<1>1. CASE HandleNext /\ sender # "gone" /\ source' = source
  <2>1. told = <<>> /\ final = "no"
    BY <1>1 DEF SenderInv, Order
  <2>2. CASE SendFinalChunk
    <3>1. told' = <<TRUE>>
      BY <2>1, <2>2, ToldFacts DEF SendFinalChunk, Tell
    <3> QED BY <1>1, <2>1, <3>1, ToldFacts
  <2>3. CASE SendChunk \/ ReadFails
    BY <1>1, <2>1, <2>3 DEF SendChunk, ReadFails
  <2> QED BY <1>1, <2>2, <2>3 DEF HandleNext
<1>2. CASE ChunkFails
  <2>1. told = <<>>
    BY <1>2 DEF ChunkFails, SenderInv, Order
  <2>2. told' = <<FALSE>> /\ source' = source
    BY <1>2, <2>1, ToldFacts DEF ChunkFails, Tell
  <2> QED BY <2>1, <2>2, ToldFacts
<1>3. CASE FinalChunkSent \/ FinalChunkFails
  <2>1. told # <<>> /\ told' = told /\ source' = source
    BY <1>3 DEF FinalChunkSent, FinalChunkFails
  <2> QED BY <2>1
<1> QED BY <1>1, <1>2, <1>3 DEF Next, Send, ChunkSent

LEMMA TempStart == StartInit => TempInv
<1> SUFFICES ASSUME StartInit PROVE TempInv
  OBVIOUS
<1>1. asked.handler = "temp_file" => source = "temp_file" /\ tmp = Whole
  BY DEF StartInit, Whole
<1> QED BY <1>1 DEF StartInit, Init, TempInv

LEMMA TempStep ==
    TempInv /\ SenderInv /\ [Start \/ Stream]_<<vars, startVars>> => TempInv'
<1> SUFFICES ASSUME TempInv, SenderInv, [Start \/ Stream]_<<vars, startVars>> PROVE TempInv'
  OBVIOUS
<1>1. CASE Start
  <2>1. UNCHANGED vars /\ asked' = asked /\ tmp' = tmp /\ answer = "none"
    <3>1. asked' = asked /\ tmp' = tmp /\ answer = "none"
      BY <1>1 DEF Start, FileAnswers, FileNotFound, FileThrows, ZipAnswers, ZipNotFound,
         LoaderAnswers, LoaderNotFound, RedirectAnswers, ScriptStreams, SendRefused,
         TemplateRefused, StartStream, Reply, Throw, Runs
    <3> QED BY <1>1, <3>1, StartLeavesSender
  <2>2. asked.handler = "temp_file" => answer' \in {"stream", "refused"}
    BY <1>1 DEF Start, FileAnswers, FileNotFound, FileThrows, ZipAnswers, ZipNotFound,
       LoaderAnswers, LoaderNotFound, RedirectAnswers, ScriptStreams, SendRefused,
       TemplateRefused, StartStream, Runs
  <2>3. sender' = "ready" /\ source' = source /\ told' = told /\ final' = final
    BY <2>1 DEF TempInv, vars
  <2> QED BY <2>1, <2>2, <2>3 DEF TempInv
<1>2. CASE Stream
  <2>1. /\ Next /\ asked' = asked /\ answer' = answer /\ answer = "stream"
        /\ tmp' = IF told' # told THEN Gone ELSE tmp
    BY <1>2 DEF Stream, Finalize
  <2>2. SUFFICES ASSUME asked.handler = "temp_file" PROVE TempInv'
    BY <2>1 DEF TempInv
  <2>3. source = "temp_file" /\ (told = <<>> => final = "no")
    BY <2>2 DEF TempInv
  <2>4. /\ source' = source
        /\ told' = <<>> => told = <<>> /\ final' = "no"
        /\ told' # told => told' # <<>>
        /\ told' = told \/ told = <<>>
    BY <2>1, <2>3, ToldStep
  <2> QED BY <2>1, <2>2, <2>3, <2>4 DEF TempInv
<1>3. CASE UNCHANGED <<vars, startVars>>
  BY <1>3 DEF vars, startVars, TempInv
<1> QED BY <1>1, <1>2, <1>3

(* A temporary file outlives every read of its sender and is gone, with    *)
(* the finalizer's context, when its response is over, unless the send was *)
(* refused or a read threw.                                                *)
THEOREM TempFilesGo == StartSpec => []TempFileRemoved
<1>1. TempInv /\ SenderInv => TempFileRemoved
  <2> SUFFICES ASSUME TempInv, SenderInv, asked.handler = "temp_file" PROVE TempFileRemoved
    BY DEF TempFileRemoved
  <2>1. sender # "gone" => told = <<>>
    BY DEF SenderInv, Order
  <2>2. Whole.file /\ Whole.context
    BY DEF Whole
  <2>3. sender # "gone" => tmp.file /\ tmp.context
    BY <2>1, <2>2 DEF TempInv
  <2>4. ASSUME Ended, answer = "refused" \/ ReadThrew PROVE tmp.file /\ tmp.context
    <3>1. told = <<>>
      BY <2>1, <2>4 DEF TempInv, ReadThrew
    <3> QED BY <2>2, <3>1 DEF TempInv
  <2>5. ASSUME Ended, ~(answer = "refused" \/ ReadThrew) PROVE tmp = Gone
    <3>1. sender = "gone"
      BY <2>5 DEF Ended, TempInv
    <3>2. told # <<>>
      BY <2>5, <3>1 DEF ReadThrew, TempInv
    <3> QED BY <3>2 DEF TempInv
  <2> QED BY <2>3, <2>4, <2>5 DEF TempFileRemoved
<1> QED BY <1>1, TempStart, TempStep, SenderReachable, PTL DEF StartSpec

-----------------------------------------------------------------------------
(* Static requests.  What the operating system opens for a path that has   *)
(* no slashes doubled is the path with its first slash cut off, which is   *)
(* what the handlers of zip files and of the loader look for: by induction *)
(* over the path.                                                          *)
Slash(name) == name = "/"

(* The first n names of a path, without a slash at the start.              *)
CutTo(path, n) ==
    IF Slash(path[1]) THEN [i \in 1 .. (n - 1) |-> path[i + 1]] ELSE [i \in 1 .. n |-> path[i]]

CutSoFar(path, n, found) == Plain(path) => found = CutTo(path, n)

Opening == INSTANCE FoldProofs WITH Step <- Adds, default <- <<>>, Good <- CutSoFar

LEMMA LastOfCut ==
    ASSUME NEW S, NEW path \in Seq(S), NEW n \in Nat, n < Len(path), n # 0
    PROVE  /\ CutTo(path, n) = <<>> <=> Slash(path[1]) /\ n = 1
           /\ CutTo(path, n) # <<>> => Last(CutTo(path, n)) = path[n]
           /\ CutTo(path, n) \in Seq(S)
           /\ Append(CutTo(path, n), path[n + 1]) = CutTo(path, n + 1)
<1> DEFINE k == IF Slash(path[1]) THEN 1 ELSE 0
           cut(m) == [i \in 1 .. (m - k) |-> path[i + k]]
<1>1. k \in {0, 1} /\ n - k \in Nat /\ (n + 1) - k = (n - k) + 1
  OBVIOUS
<1>2. \A m \in Nat : CutTo(path, m) = cut(m)
  <2> SUFFICES ASSUME NEW m \in Nat PROVE CutTo(path, m) = cut(m)
    OBVIOUS
  <2>1. CASE Slash(path[1])
    BY <2>1 DEF CutTo
  <2>2. CASE ~Slash(path[1])
    <3>1. k = 0 /\ m - 0 = m
      BY <2>2
    <3>2. \A i \in 1 .. m : i + 0 = i
      OBVIOUS
    <3>3. cut(m) = [i \in 1 .. m |-> path[i]]
      BY <3>1, <3>2
    <3> QED BY <2>2, <3>3 DEF CutTo
  <2> QED BY <2>1, <2>2
<1>3. k = 1 <=> Slash(path[1])
  OBVIOUS
<1> HIDE DEF k
<1>4. \A i \in 1 .. (n - k) : i + k \in 1 .. Len(path)
  BY <1>1
<1>5. cut(n) \in Seq(S) /\ Len(cut(n)) = n - k
  BY <1>1, <1>4
<1>6. \A i \in 1 .. ((n + 1) - k) : i + k \in 1 .. Len(path)
  BY <1>1
<1>7. cut(n + 1) \in Seq(S) /\ Len(cut(n + 1)) = (n - k) + 1
  BY <1>1, <1>6
<1>8. path[n + 1] \in S
  OBVIOUS
<1>9. Append(cut(n), path[n + 1]) = cut(n + 1)
  <2>1. /\ Append(cut(n), path[n + 1]) \in Seq(S)
        /\ Len(Append(cut(n), path[n + 1])) = (n - k) + 1
        /\ \A i \in 1 .. (n - k) : Append(cut(n), path[n + 1])[i] = cut(n)[i]
        /\ Append(cut(n), path[n + 1])[(n - k) + 1] = path[n + 1]
    <3>1. PICK c \in Seq(S) : c = cut(n)
      BY <1>5
    <3>2. Len(c) = n - k
      BY <1>5, <3>1
    <3>3. /\ Append(c, path[n + 1]) \in Seq(S)
          /\ Len(Append(c, path[n + 1])) = Len(c) + 1
          /\ \A i \in 1 .. Len(c) : Append(c, path[n + 1])[i] = c[i]
          /\ Append(c, path[n + 1])[Len(c) + 1] = path[n + 1]
      BY <1>8, AppendProperties
    <3> HIDE DEF cut
    <3> QED BY <3>1, <3>2, <3>3
  <2>2. \A i \in 1 .. (n - k) : cut(n)[i] = cut(n + 1)[i]
    BY <1>1
  <2>3. cut(n + 1)[(n - k) + 1] = path[n + 1]
    BY <1>1
  <2>4. \A i \in 1 .. ((n - k) + 1) : i \in 1 .. (n - k) \/ i = (n - k) + 1
    BY <1>1
  <2> HIDE DEF cut
  <2> QED BY <2>1, <2>2, <2>3, <2>4, <1>7, SeqEqual
<1>10. cut(n) # <<>> => Last(cut(n)) = path[n]
  <2>1. ASSUME cut(n) # <<>> PROVE Last(cut(n)) = path[n]
    <3>1. n - k # 0
      BY <1>5, <2>1, EmptySeq
    <3>2. n - k \in 1 .. (n - k) /\ (n - k) + k = n
      BY <1>1, <3>1
    <3>3. cut(n)[n - k] = path[n]
      BY <3>2
    <3> QED BY <1>5, <3>3 DEF Last
  <2> QED BY <2>1
<1>11. cut(n) = <<>> <=> n = k
  BY <1>1, <1>5, EmptySeq
<1> HIDE DEF cut
<1>12. cut(n) = <<>> <=> Slash(path[1]) /\ n = 1
  BY <1>1, <1>3, <1>11
<1>13. n + 1 \in Nat
  OBVIOUS
<1> QED BY <1>2, <1>5, <1>9, <1>10, <1>12, <1>13

LEMMA SqueezePlain ==
    ASSUME NEW S, NEW path \in Seq(S), Plain(path)
    PROVE  Squeeze(path) = StripSlash(path)
<1>1. Len(path) \in Nat
  BY LenProperties
<1>2. Squeeze(path) = Opening!Result(path)
  BY DEF Squeeze, Opening!Result
<1>3. CutSoFar(path, 0, <<>>)
  <2>1. /\ [i \in 1 .. 0 |-> path[i]] = <<>>
        /\ [i \in 1 .. (0 - 1) |-> path[i + 1]] = <<>>
    OBVIOUS
  <2> QED BY <2>1 DEF CutSoFar, CutTo
<1>4. ASSUME NEW found, NEW n \in Nat, n < Len(path), CutSoFar(path, n, found)
      PROVE  CutSoFar(path, n + 1, Adds(found, path[n + 1]))
  <2>1. found = CutTo(path, n)
    BY <1>4 DEF CutSoFar
  <2>2. CASE n = 0
    <3>1. found = <<>>
      BY <1>3, <2>1, <2>2 DEF CutSoFar
    <3>2. /\ [i \in 1 .. 1 |-> path[i]] = <<path[1]>> /\ Append(<<>>, path[1]) = <<path[1]>>
          /\ [i \in 1 .. (1 - 1) |-> path[i + 1]] = <<>> /\ 0 + 1 = 1
      OBVIOUS
    <3>3. CutTo(path, 1) = IF Slash(path[1]) THEN <<>> ELSE <<path[1]>>
      BY <3>2 DEF CutTo
    <3>4. Adds(<<>>, path[1]) = IF Slash(path[1]) THEN <<>> ELSE <<path[1]>>
      BY <3>2 DEF Adds, Slash
    <3> QED BY <2>2, <3>1, <3>2, <3>3, <3>4 DEF CutSoFar
  <2>3. CASE n # 0
    <3>1. /\ CutTo(path, n) = <<>> <=> Slash(path[1]) /\ n = 1
          /\ CutTo(path, n) # <<>> => Last(CutTo(path, n)) = path[n]
          /\ Append(CutTo(path, n), path[n + 1]) = CutTo(path, n + 1)
      BY <1>4, <2>3, LastOfCut
    <3>2. Slash(path[n + 1]) => ~Slash(path[n])
      <4>1. n + 1 \in 2 .. Len(path) /\ (n + 1) - 1 = n
        BY <1>1, <1>4, <2>3
      <4> QED BY <4>1 DEF Plain, Slash
    <3>3. Slash(path[n + 1]) => found # <<>> /\ ~Slash(Last(found))
      BY <2>1, <3>1, <3>2
    <3>4. Adds(found, path[n + 1]) = Append(found, path[n + 1])
      BY <3>3 DEF Adds, Slash
    <3> QED BY <2>1, <3>1, <3>4 DEF CutSoFar
  <2> QED BY <2>2, <2>3
<1>5. CutSoFar(path, Len(path), Opening!Result(path))
  <2>1. \A found : \A n \in Nat : n < Len(path) /\ CutSoFar(path, n, found) =>
           CutSoFar(path, n + 1, Adds(found, path[n + 1]))
    BY <1>4
  <2> QED BY <1>1, <1>3, <2>1, Opening!ResultGood
<1>6. CutTo(path, Len(path)) = StripSlash(path)
  <2>1. CASE path = <<>>
    <3>1. Len(path) = 0
      BY <2>1
    <3> QED BY <1>3, <2>1, <3>1 DEF CutSoFar, StripSlash
  <2>2. CASE path # <<>> /\ Slash(path[1])
    <3>1. StripSlash(path) = Tail(path)
      BY <2>2 DEF StripSlash, Slash
    <3>2. Tail(path) = [i \in 1 .. (Len(path) - 1) |-> path[i + 1]]
      <4> DEFINE rest == [i \in 1 .. (Len(path) - 1) |-> path[i + 1]]
      <4>1. Len(path) - 1 \in Nat
        BY <1>1, <2>2, EmptySeq
      <4>2. \A i \in 1 .. (Len(path) - 1) : i + 1 \in 1 .. Len(path)
        BY <1>1
      <4>3. rest \in Seq(S) /\ Len(rest) = Len(path) - 1
        BY <4>1, <4>2
      <4>4. /\ Tail(path) \in Seq(S) /\ Len(Tail(path)) = Len(path) - 1
            /\ \A i \in 1 .. (Len(path) - 1) : Tail(path)[i] = path[i + 1]
        BY <2>2, HeadTailProperties
      <4>5. \A i \in 1 .. (Len(path) - 1) : Tail(path)[i] = rest[i]
        BY <4>4
      <4> HIDE DEF rest
      <4>6. Tail(path) = rest
        BY <4>3, <4>4, <4>5, SeqEqual
      <4> QED BY <4>6 DEF rest
    <3> QED BY <2>2, <3>1, <3>2 DEF CutTo
  <2>3. CASE path # <<>> /\ ~Slash(path[1])
    <3>1. StripSlash(path) = path
      BY <2>3 DEF StripSlash, Slash
    <3>2. path = [i \in 1 .. Len(path) |-> path[i]]
      OBVIOUS
    <3> QED BY <2>3, <3>1, <3>2 DEF CutTo
  <2> QED BY <2>1, <2>2, <2>3
<1> QED BY <1>2, <1>5, <1>6 DEF CutSoFar

(* The names that were asked for are a path.                               *)
AskedOK == asked.handler \in Static => asked.rest = Short \/ asked.rest \in Seq(STRING)

LEMMA AskedSame ==
    [Start \/ Stream]_<<vars, startVars>> => UNCHANGED asked
BY DEF Start, FileAnswers, FileNotFound, FileThrows, ZipAnswers, ZipNotFound,
   LoaderAnswers, LoaderNotFound, RedirectAnswers, ScriptStreams, SendRefused,
   TemplateRefused, StartStream, Reply, Throw, Stream, startVars

(* What the handlers of zip files and of the loader look up for a path is  *)
(* what the operating system would open for it.                            *)
LEMMA LookedUp ==
    ASSUME AskedOK, asked.handler \in {"zip", "loader"}, ~Unasked, Plain(asked.rest)
    PROVE  Something /\ Squeeze(asked.rest) = StripSlash(asked.rest)
<1>1. asked.rest # Short /\ asked.rest # <<>>
  BY DEF Unasked
<1>2. asked.rest \in Seq(STRING)
  BY <1>1 DEF AskedOK, Static
<1> QED BY <1>1, <1>2, SqueezePlain DEF Something

LEMMA StaticStep ==
    ASSUME StaticAnswered, AskedOK, [Start \/ Stream]_<<vars, startVars>>
    PROVE  StaticAnswered'
<1>a. asked' = asked
  BY AskedSame
<1>b. /\ Unasked' <=> Unasked
      /\ Holds(Squeeze(asked.rest))' <=> Holds(Squeeze(asked.rest))
      /\ Plain(asked.rest)' <=> Plain(asked.rest)
  BY <1>a DEF Unasked, Holds
<1> DEFINE Known == ~Unasked /\ (asked.handler = "file" \/ Plain(asked.rest))
<1>1. ASSUME status'.code = 200, ~Unasked, Known => Holds(Squeeze(asked.rest)),
             answer' # "thrown"
      PROVE  StaticAnswered'
  BY <1>1, <1>a, <1>b DEF StaticAnswered
<1>2. ASSUME status'.code = 404, Known => ~Holds(Squeeze(asked.rest)), answer' # "thrown"
      PROVE  StaticAnswered'
  BY <1>2, <1>a, <1>b DEF StaticAnswered
<1>3. ASSUME Throw, (asked.handler = "file" /\ asked.rest = Short) \/ asked.handler = "zip"
      PROVE  StaticAnswered'
  BY <1>3, <1>a DEF Throw, StaticAnswered
<1>4. CASE FileAnswers
  <2>1. status'.code = 200 /\ answer' = "stream" /\ asked.handler = "file"
    BY <1>4 DEF FileAnswers, StartStream, Runs
  <2>2. ~Unasked /\ Holds(Squeeze(asked.rest))
    BY <1>4, <2>1 DEF FileAnswers, Opens, Unasked, Holds
  <2> QED BY <1>1, <2>1, <2>2
<1>5. CASE FileNotFound
  <2>1. status'.code = 404 /\ answer' = "direct" /\ asked.handler = "file"
    BY <1>5 DEF FileNotFound, Reply, Runs
  <2>2. ~Unasked => ~Holds(Squeeze(asked.rest))
    BY <1>5, <2>1 DEF FileNotFound, Opens, Unasked, Holds
  <2> QED BY <1>2, <2>1, <2>2
<1>6. CASE FileThrows
  BY <1>3, <1>6 DEF FileThrows, Runs
<1>7. CASE ZipAnswers
  <2>1. asked.handler = "zip" /\ InZip
    BY <1>7 DEF ZipAnswers, Runs
  <2>2. CASE Throw
    BY <1>3, <2>1, <2>2
  <2>3. CASE StartStream(ContentType(ZipPath))
    <3>1. status'.code = 200 /\ answer' = "stream"
      BY <2>3 DEF StartStream
    <3>2. ~Unasked
      BY <2>1 DEF InZip, Something, Unasked
    <3>3. Known => Holds(Squeeze(asked.rest))
      BY <2>1, LookedUp DEF InZip, ZipPath, Holds
    <3> QED BY <1>1, <3>1, <3>2, <3>3
  <2> QED BY <1>7, <2>2, <2>3 DEF ZipAnswers
<1>8. CASE ZipNotFound
  <2>1. asked.handler = "zip" /\ ~InZip /\ status'.code = 404 /\ answer' = "direct"
    BY <1>8 DEF ZipNotFound, Reply, Runs
  <2>2. Known => ~Holds(Squeeze(asked.rest))
    BY <2>1, LookedUp DEF InZip, ZipPath, Holds
  <2> QED BY <1>2, <2>1, <2>2
<1>9. CASE LoaderAnswers
  <2>1. asked.handler = "loader" /\ Loads /\ status'.code = 200 /\ answer' = "direct"
    BY <1>9 DEF LoaderAnswers, Reply, Runs
  <2>2. ~Unasked
    BY <2>1 DEF Loads, Something, Unasked
  <2>3. Known => Holds(Squeeze(asked.rest))
    BY <2>1, LookedUp DEF Loads, Holds
  <2> QED BY <1>1, <2>1, <2>2, <2>3
<1>10. CASE LoaderNotFound
  <2>1. asked.handler = "loader" /\ ~Loads /\ status'.code = 404 /\ answer' = "direct"
    BY <1>10 DEF LoaderNotFound, Reply, Runs
  <2>2. Known => ~Holds(Squeeze(asked.rest))
    BY <2>1, LookedUp DEF Loads, Holds
  <2> QED BY <1>2, <2>1, <2>2
<1>11. CASE RedirectAnswers \/ ScriptStreams \/ SendRefused \/ TemplateRefused
  <2>1. asked.handler \notin Static
    BY <1>11 DEF RedirectAnswers, ScriptStreams, SendRefused, TemplateRefused, Runs, Static
  <2> QED BY <1>a, <2>1 DEF StaticAnswered
<1>12. CASE Stream \/ UNCHANGED <<vars, startVars>>
  <2>1. answer' = answer /\ status' = status
    BY <1>12 DEF Stream, startVars
  <2> QED BY <1>a, <1>b, <2>1 DEF StaticAnswered
<1> QED BY <1>4, <1>5, <1>6, <1>7, <1>8, <1>9, <1>10, <1>11, <1>12 DEF Start

(* A static request is answered with what its root holds under the path it *)
(* asked for, or told that nothing was found, or is one of the two that    *)
(* throw: of any length and for any contents of the roots.                 *)
THEOREM StaticIsAnswered == StartSpec => []StaticAnswered
<1>1. StartInit => StaticAnswered /\ AskedOK
  <2> SUFFICES ASSUME StartInit PROVE StaticAnswered /\ AskedOK
    OBVIOUS
  <2>1. answer = "none"
    BY DEF StartInit
  <2>2. asked.handler \in Static => asked.rest \in Rests \cup {Short}
    BY DEF StartInit, Static
  <2> QED BY <2>1, <2>2, RestsAssumption DEF StaticAnswered, AskedOK
<1>2. AskedOK /\ [Start \/ Stream]_<<vars, startVars>> => AskedOK'
  BY AskedSame DEF AskedOK
<1>3. StaticAnswered /\ AskedOK /\ [Start \/ Stream]_<<vars, startVars>> => StaticAnswered'
  BY StaticStep
<1> QED BY <1>1, <1>2, <1>3, PTL DEF StartSpec
=============================================================================
