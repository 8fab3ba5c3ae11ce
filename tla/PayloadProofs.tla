---------------------------- MODULE PayloadProofs -----------------------------
(***************************************************************************)
(* Machine-checked proofs about RequestPayload, for bodies of any length,  *)
(* cut in any way, every memory limit and any number of getter calls.      *)
(***************************************************************************)
EXTENDS RequestPayload, SequenceTheorems, TLAPS

-----------------------------------------------------------------------------
(* Bytes of the body.                                                      *)

LEMMA BytesType ==
    ASSUME NEW m \in Nat, NEW n \in Nat, m <= n, n <= MaxBody
    PROVE  Bytes(m, n) \in Seq(1 .. MaxBody) /\ Len(Bytes(m, n)) = n - m
<1>1. n - m \in Nat /\ \A i \in 1 .. (n - m) : m + i \in 1 .. MaxBody
  BY BoundsAssumption
<1> QED BY <1>1 DEF Bytes

(* What comes next to what was there is the body so far.                   *)
LEMMA BytesJoin ==
    ASSUME NEW m \in Nat, NEW n \in Nat
    PROVE  Bytes(0, m) \o Bytes(m, m + n) = Bytes(0, m + n)
<1>1. /\ Bytes(0, m) \in Seq(Nat) /\ Len(Bytes(0, m)) = m
      /\ Bytes(m, m + n) \in Seq(Nat) /\ Len(Bytes(m, m + n)) = n
      /\ Bytes(0, m + n) \in Seq(Nat) /\ Len(Bytes(0, m + n)) = m + n
  BY DEF Bytes
<1>2. \A i \in 1 .. (m + n) :
         (Bytes(0, m) \o Bytes(m, m + n))[i] = Bytes(0, m + n)[i]
  BY <1>1 DEF Bytes
<1>3. /\ Bytes(0, m) \o Bytes(m, m + n) \in Seq(Nat)
      /\ Len(Bytes(0, m) \o Bytes(m, m + n)) = m + n
  BY <1>1, ConcatProperties
<1> HIDE DEF Bytes
<1> QED BY <1>1, <1>2, <1>3, SeqEqual

LEMMA FileFields ==
    /\ <<>> \in Seq(1 .. MaxBody)
    /\ NoFile.exists = FALSE /\ NoFile.data = <<>>
    /\ \A s : File(s).exists = TRUE /\ File(s).data = s
    /\ Error.kind = "error" /\ Name.kind = "filename" /\ NoAnswer.kind = "none"
    /\ \A s : Text(s).kind = "text" /\ Text(s).data = s
BY DEF NoFile, File, Error, Name, NoAnswer, Text

-----------------------------------------------------------------------------
(* The invariant.                                                          *)

(* TypeOK in three parts: what is stored, whether a file is there, and the *)
(* rest.                                                                   *)
DataOK == buffer \in Seq(1 .. MaxBody) /\ disk.data \in Seq(1 .. MaxBody)

ExistsOK == disk.exists \in BOOLEAN

RestOK ==
    /\ conf \in [memoryLimitBytes : Limits, tmpDirPath : BOOLEAN]
    /\ phase \in {"receiving", "rejected", "handling", "gone", "left"}
    /\ fed \in 0 .. MaxBody
    /\ state \in {"memory", "file"}
    /\ named \in BOOLEAN
    /\ open \in BOOLEAN
    /\ answer.kind \in {"none", "error", "text", "filename"}
    /\ reads \in 0 .. MaxReads
    /\ failures \in 0 .. (MaxReads + 2)

LEMMA TypeParts == TypeOK <=> DataOK /\ ExistsOK /\ RestOK
BY DEF TypeOK, DataOK, ExistsOK, RestOK

(* Only a payload that has a name has a file, and a payload in file state  *)
(* has one.                                                                *)
FilesAreNamed ==
    /\ disk.exists \/ open => named
    /\ state = "file" => named
    /\ phase \in {"gone", "left"} => ~open
    /\ phase = "gone" => ~disk.exists

(* The disk fails once while the body arrives, in a getter, or at the end. *)
FailureCount ==
    /\ phase \in {"receiving", "rejected"} => reads = 0
    /\ phase = "receiving" => failures = 0
    /\ phase = "handling" => failures <= reads
    /\ phase \notin {"gone", "left"} => failures <= reads + 1

(* While it has not failed, the body is where the state says, and in the   *)
(* file as soon as there is a name.                                        *)
BodyKept ==
    /\ phase \in {"receiving", "handling"} /\ failures = 0 =>
          /\ state = "memory" => buffer = Body
          /\ named => disk.exists /\ disk.data = Body
          /\ phase = "receiving" => (named <=> state = "file")
          /\ phase = "receiving" => answer = NoAnswer

PayloadInv ==
    /\ DataOK /\ ExistsOK /\ RestOK
    /\ FilesAreNamed
    /\ FailureCount
    /\ BodyKept
    /\ AnswersAreWhole
    /\ LimitIsOfTheBody

LEMMA PayloadInit == Init => PayloadInv
<1> SUFFICES ASSUME Init PROVE PayloadInv
  OBVIOUS
<1>1. Body = <<>> /\ fed = 0
  BY DEF Init, Body, Bytes
<1>2. disk.exists = FALSE /\ disk.data = <<>> /\ answer.kind = "none"
  BY FileFields DEF Init
<1>3. DataOK /\ ExistsOK
  BY <1>2, FileFields DEF Init, DataOK, ExistsOK
<1>4. RestOK
  <2>1. fed \in 0 .. MaxBody /\ reads \in 0 .. MaxReads /\ failures \in 0 .. (MaxReads + 2)
    BY BoundsAssumption DEF Init
  <2> QED BY <1>2, <2>1 DEF Init, RestOK
<1> QED BY <1>1, <1>2, <1>3, <1>4
  DEF Init, PayloadInv, FilesAreNamed, FailureCount, BodyKept, AnswersAreWhole,
      LimitIsOfTheBody

(* Where the next bytes of the body go.                                    *)
LEMMA FeedLimit ==
    ASSUME PayloadInv, NEW n \in 1 .. MaxBody, Feed(n) PROVE LimitIsOfTheBody'
<1> DEFINE limit == conf.memoryLimitBytes
<1>1. /\ fed \in Nat /\ n \in Nat /\ fed' = fed + n /\ limit \in Nat /\ UNCHANGED limit
      /\ conf' = conf
  <2>1. fed \in Nat /\ n \in Nat
    BY BoundsAssumption DEF PayloadInv, RestOK
  <2>2. limit \in Nat
    BY LimitsAssumption DEF PayloadInv, RestOK
  <2> QED BY <2>1, <2>2 DEF Feed
<1>2. phase = "receiving" /\ failures = 0 /\ reads = 0 /\ reads' = 0
  BY DEF Feed, PayloadInv, FailureCount
<1>3. state = "memory" => Len(buffer) = fed
  <2>1. Len(Bytes(0, fed)) = fed
    BY <1>1 DEF Bytes
  <2> QED BY <1>2, <2>1 DEF PayloadInv, BodyKept, Body
<1>4. state = "file" => conf.tmpDirPath /\ fed >= limit
  BY <1>2 DEF PayloadInv, LimitIsOfTheBody
<1>5. Len(buffer) = fed => (Fits(n) <=> fed' < limit)
  BY <1>1 DEF Fits
<1>6. /\ fed >= limit => fed' >= limit
      /\ ~(fed' < limit) => fed' >= limit
      /\ UNCHANGED limit
  BY <1>1
<1> HIDE DEF limit
<1>7. FeedMemory(n) => phase' = "receiving" /\ state' = "memory" /\ fed' < limit
  BY <1>2, <1>3, <1>5 DEF FeedMemory
<1>8. FeedRejected(n) => phase' = "rejected" /\ ~conf.tmpDirPath /\ fed' >= limit
  BY <1>3, <1>5, <1>6 DEF FeedRejected
<1>9. FeedSpills(n) => /\ state' = "file" /\ conf.tmpDirPath /\ fed' >= limit
                       /\ phase' = "receiving" \/ Fails
  BY <1>2, <1>3, <1>5, <1>6 DEF FeedSpills
<1>10. FeedFile(n) => /\ state' = "file" /\ conf.tmpDirPath /\ fed' >= limit
                      /\ phase' = "receiving" \/ Fails
  BY <1>2, <1>4, <1>6 DEF FeedFile
<1>11. Fails => failures' # 0
  BY <1>2 DEF Fails
<1>12. limit = conf.memoryLimitBytes
  BY DEF limit
<1>13. FeedMemory(n) \/ FeedRejected(n) \/ FeedSpills(n) \/ FeedFile(n)
  BY DEF Feed
<1> QED BY <1>1, <1>7, <1>8, <1>9, <1>10, <1>11, <1>12, <1>13 DEF LimitIsOfTheBody

LEMMA FeedKeeps ==
    ASSUME PayloadInv, NEW n \in 1 .. MaxBody, Feed(n) PROVE PayloadInv'
<1>1. /\ fed \in Nat /\ n \in Nat /\ fed' = fed + n /\ fed' <= MaxBody /\ fed' \in 0 .. MaxBody
      /\ phase = "receiving" /\ failures = 0 /\ reads = 0 /\ answer = NoAnswer
      /\ UNCHANGED <<conf, answer, reads>>
  BY BoundsAssumption DEF Feed, PayloadInv, RestOK, FailureCount, BodyKept
<1>2. Bytes(fed, fed + n) \in Seq(1 .. MaxBody) /\ LimitIsOfTheBody'
  BY <1>1, BytesType, FeedLimit
<1>3. Body' = Body \o Bytes(fed, fed + n)
  BY <1>1, BytesJoin DEF Body
<1>4. /\ buffer \in Seq(1 .. MaxBody) /\ disk.data \in Seq(1 .. MaxBody)
      /\ buffer \o Bytes(fed, fed + n) \in Seq(1 .. MaxBody)
      /\ disk.data \o Bytes(fed, fed + n) \in Seq(1 .. MaxBody)
  BY <1>2, ConcatProperties DEF PayloadInv, DataOK
<1>5. answer.kind = "none"
  BY <1>1, FileFields
<1>6. CASE FeedMemory(n)
  <2>1. DataOK' /\ ExistsOK'
    BY <1>4, <1>6 DEF FeedMemory, PayloadInv, DataOK, ExistsOK
  <2>2. RestOK'
    BY <1>1, <1>6 DEF FeedMemory, Works, PayloadInv, RestOK
  <2> QED BY <1>1, <1>2, <1>3, <1>5, <1>6, <2>1, <2>2 DEF FeedMemory, Works, PayloadInv,
     FilesAreNamed, FailureCount, BodyKept, AnswersAreWhole
<1>7. CASE FeedRejected(n)
  <2>1. DataOK' /\ ExistsOK'
    BY <1>7 DEF FeedRejected, PayloadInv, DataOK, ExistsOK
  <2>2. RestOK'
    BY <1>1, <1>7 DEF FeedRejected, Works, PayloadInv, RestOK
  <2> QED BY <1>1, <1>2, <1>7, <2>1, <2>2 DEF FeedRejected, Works, PayloadInv,
     FilesAreNamed, FailureCount, BodyKept, AnswersAreWhole
<1>8. CASE FeedSpills(n)
  <2>1. buffer = Body /\ state' = "file" /\ named' = TRUE /\ open' \in BOOLEAN
    BY <1>1, <1>8 DEF FeedSpills, PayloadInv, BodyKept
  <2>2. CASE /\ disk' = File(buffer \o Bytes(fed, fed + n)) /\ buffer' = <<>>
             /\ Works /\ UNCHANGED phase
    <3>1. disk'.exists = TRUE /\ disk'.data = Body' /\ disk'.data \in Seq(1 .. MaxBody)
      BY <1>3, <1>4, <2>1, <2>2, FileFields
    <3>2. DataOK' /\ ExistsOK'
      BY <2>2, <3>1, FileFields DEF DataOK, ExistsOK
    <3>3. RestOK'
      BY <1>1, <2>1, <2>2 DEF Works, PayloadInv, RestOK
    <3> QED BY <1>1, <1>2, <1>5, <2>1, <2>2, <3>1, <3>2, <3>3 DEF Works, PayloadInv,
       FilesAreNamed, FailureCount, BodyKept, AnswersAreWhole
  <2>3. CASE /\ phase' = "rejected" /\ Fails
             /\ \/ UNCHANGED <<disk, buffer>>
                \/ disk' = File(<<>>) /\ UNCHANGED buffer
                \/ disk' = File(buffer) /\ buffer' = <<>>
    <3>1. DataOK' /\ ExistsOK'
      <4>1. CASE UNCHANGED <<disk, buffer>>
        BY <4>1 DEF PayloadInv, DataOK, ExistsOK
      <4>2. CASE disk' = File(<<>>) /\ UNCHANGED buffer
        BY <1>4, <4>2, FileFields DEF DataOK, ExistsOK
      <4>3. CASE disk' = File(buffer) /\ buffer' = <<>>
        BY <1>4, <4>3, FileFields DEF DataOK, ExistsOK
      <4> QED BY <2>3, <4>1, <4>2, <4>3
    <3>2. RestOK'
      BY <1>1, <2>1, <2>3, BoundsAssumption DEF Fails, PayloadInv, RestOK
    <3> QED BY <1>1, <1>2, <2>1, <2>3, <3>1, <3>2 DEF Fails, PayloadInv, FilesAreNamed,
       FailureCount, BodyKept, AnswersAreWhole
  <2> QED BY <1>8, <2>2, <2>3 DEF FeedSpills
<1>9. CASE FeedFile(n)
  <2>1. /\ named /\ disk.exists /\ disk.data = Body /\ state = "file"
        /\ UNCHANGED <<state, buffer, named, open>>
    BY <1>1, <1>9 DEF FeedFile, PayloadInv, FilesAreNamed, BodyKept
  <2>2. CASE /\ disk' = File(disk.data \o Bytes(fed, fed + n))
             /\ Works /\ UNCHANGED phase
    <3>1. disk'.exists = TRUE /\ disk'.data = Body' /\ disk'.data \in Seq(1 .. MaxBody)
      BY <1>3, <1>4, <2>1, <2>2, FileFields
    <3>2. DataOK' /\ ExistsOK'
      BY <1>4, <2>1, <3>1 DEF DataOK, ExistsOK
    <3>3. RestOK'
      BY <1>1, <2>1, <2>2 DEF Works, PayloadInv, RestOK
    <3> QED BY <1>1, <1>2, <1>5, <2>1, <2>2, <3>1, <3>2, <3>3 DEF Works, PayloadInv,
       FilesAreNamed, FailureCount, BodyKept, AnswersAreWhole
  <2>3. CASE phase' = "rejected" /\ Fails /\ UNCHANGED disk
    <3>1. DataOK' /\ ExistsOK'
      BY <2>1, <2>3 DEF PayloadInv, DataOK, ExistsOK
    <3>2. RestOK'
      BY <1>1, <2>1, <2>3, BoundsAssumption DEF Fails, PayloadInv, RestOK
    <3> QED BY <1>1, <1>2, <2>1, <2>3, <3>1, <3>2 DEF Fails, PayloadInv, FilesAreNamed,
       FailureCount, BodyKept, AnswersAreWhole
  <2> QED BY <1>9, <2>2, <2>3 DEF FeedFile
<1> QED BY <1>6, <1>7, <1>8, <1>9 DEF Feed

LEMMA HandleKeeps == ASSUME PayloadInv, Handle PROVE PayloadInv'
<1>1. Body' = Body
  BY DEF Handle, Body
<1>2. phase = "receiving" => answer.kind = "none"
  BY FileFields DEF PayloadInv, FailureCount, BodyKept
<1>3. DataOK' /\ ExistsOK' /\ RestOK'
  BY DEF Handle, PayloadInv, DataOK, ExistsOK, RestOK
<1> QED BY <1>1, <1>2, <1>3 DEF Handle, PayloadInv, FilesAreNamed, FailureCount,
  BodyKept, AnswersAreWhole, LimitIsOfTheBody

LEMMA StringKeeps == ASSUME PayloadInv, GetDataAsString PROVE PayloadInv'
<1>1. /\ phase = "handling" /\ UNCHANGED <<conf, phase, fed, named, disk>> /\ open' = FALSE
      /\ reads \in Nat /\ reads' = reads + 1 /\ reads' \in 0 .. MaxReads
      /\ failures \in Nat /\ failures <= reads /\ state' = "memory"
  BY BoundsAssumption DEF GetDataAsString, Reading, PayloadInv, RestOK, FailureCount
<1>2. Body' = Body
  BY <1>1 DEF Body
<1>3. CASE state = "memory" /\ answer' = Text(buffer) /\ Works /\ UNCHANGED buffer
  <2>1. answer'.kind = "text" /\ answer'.data = buffer /\ UNCHANGED failures
    BY <1>3, FileFields DEF Works
  <2>2. DataOK' /\ ExistsOK' /\ RestOK'
    BY <1>1, <1>3, <2>1 DEF PayloadInv, DataOK, ExistsOK, RestOK
  <2> QED BY <1>1, <1>2, <1>3, <2>1, <2>2 DEF PayloadInv, FilesAreNamed, FailureCount,
     BodyKept, AnswersAreWhole, LimitIsOfTheBody
<1>4. CASE state = "file" /\ buffer' = disk.data /\ answer' = Text(disk.data) /\ Works
  <2>1. answer'.kind = "text" /\ answer'.data = disk.data /\ UNCHANGED failures
    BY <1>4, FileFields DEF Works
  <2>2. DataOK' /\ ExistsOK' /\ RestOK'
    BY <1>1, <1>4, <2>1 DEF PayloadInv, DataOK, ExistsOK, RestOK
  <2> QED BY <1>1, <1>2, <1>4, <2>1, <2>2 DEF PayloadInv, FilesAreNamed, FailureCount,
     BodyKept, AnswersAreWhole, LimitIsOfTheBody
<1>5. CASE state = "file" /\ answer' = Error /\ Fails /\ UNCHANGED buffer
  <2>1. answer'.kind = "error" /\ failures' = failures + 1
    BY <1>5, FileFields DEF Fails
  <2>2. DataOK' /\ ExistsOK'
    BY <1>1, <1>5 DEF PayloadInv, DataOK, ExistsOK
  <2>3. failures' \in 0 .. (MaxReads + 2)
    BY <1>1, <2>1, BoundsAssumption
  <2>4. RestOK'
    BY <1>1, <2>1, <2>3 DEF PayloadInv, RestOK
  <2> QED BY <1>1, <1>5, <2>1, <2>2, <2>4 DEF PayloadInv, FilesAreNamed, FailureCount,
     BodyKept, AnswersAreWhole, LimitIsOfTheBody
<1> QED BY <1>3, <1>4, <1>5 DEF GetDataAsString

LEMMA FilenameKeeps == ASSUME PayloadInv, GetDataAsFilename PROVE PayloadInv'
<1>1. /\ phase = "handling" /\ UNCHANGED <<conf, phase, fed, buffer>> /\ open' = FALSE
      /\ reads \in Nat /\ reads' = reads + 1 /\ reads' \in 0 .. MaxReads
      /\ failures \in Nat /\ failures <= reads /\ state' = "file"
  BY BoundsAssumption DEF GetDataAsFilename, Reading, PayloadInv, RestOK, FailureCount
<1>2. Body' = Body
  BY <1>1 DEF Body
<1>3. CASE (state = "file" \/ named) /\ answer' = Name /\ Works /\ UNCHANGED <<named, disk>>
  <2>1. answer'.kind = "filename" /\ UNCHANGED failures
    BY <1>3, FileFields DEF Works
  <2>2. DataOK' /\ ExistsOK' /\ RestOK'
    BY <1>1, <1>3, <2>1 DEF PayloadInv, DataOK, ExistsOK, RestOK
  <2> QED BY <1>1, <1>2, <1>3, <2>1, <2>2 DEF PayloadInv, FilesAreNamed, FailureCount,
     BodyKept, AnswersAreWhole, LimitIsOfTheBody
<1>4. CASE state = "memory" /\ ~named /\ named' = TRUE /\ answer' = Name
           /\ disk' = File(buffer) /\ Works
  <2>1. /\ answer'.kind = "filename" /\ UNCHANGED failures
        /\ disk'.exists = TRUE /\ disk'.data = buffer
    BY <1>4, FileFields DEF Works
  <2>2. DataOK' /\ ExistsOK' /\ RestOK'
    BY <1>1, <1>4, <2>1 DEF PayloadInv, DataOK, ExistsOK, RestOK
  <2> QED BY <1>1, <1>2, <1>4, <2>1, <2>2 DEF PayloadInv, FilesAreNamed, FailureCount,
     BodyKept, AnswersAreWhole, LimitIsOfTheBody
<1>5. CASE /\ named' = TRUE /\ answer' = Error /\ Fails
           /\ \/ UNCHANGED disk
              \/ \E n \in 0 .. Len(buffer) : disk' = File(SubSeq(buffer, 1, n))
  <2>1. DataOK' /\ ExistsOK'
    <3>1. CASE UNCHANGED disk
      BY <1>1, <3>1 DEF PayloadInv, DataOK, ExistsOK
    <3>2. ASSUME NEW n \in 0 .. Len(buffer), disk' = File(SubSeq(buffer, 1, n))
          PROVE  DataOK' /\ ExistsOK'
      <4>1. buffer \in Seq(1 .. MaxBody)
        BY DEF PayloadInv, DataOK
      <4>2. SubSeq(buffer, 1, n) \in Seq(1 .. MaxBody)
        <5>1. \A i \in 1 .. n : i \in 1 .. Len(buffer)
          BY <4>1, LenProperties
        <5>2. \A i \in 1 .. n : buffer[i] \in 1 .. MaxBody
          BY <4>1, <5>1, ElementOfSeq
        <5> QED BY <4>1, <5>2, SubSeqProperties, LenProperties
      <4>3. disk'.exists = TRUE /\ disk'.data = SubSeq(buffer, 1, n)
        BY <3>2, FileFields
      <4> QED BY <1>1, <4>1, <4>2, <4>3 DEF DataOK, ExistsOK
    <3> QED BY <1>5, <3>1, <3>2
  <2>2. answer'.kind = "error" /\ failures' = failures + 1
    BY <1>5, FileFields DEF Fails
  <2>3. failures' \in 0 .. (MaxReads + 2)
    BY <1>1, <2>2, BoundsAssumption
  <2>4. RestOK'
    BY <1>1, <1>5, <2>2, <2>3 DEF PayloadInv, RestOK
  <2> QED BY <1>1, <1>5, <2>1, <2>2, <2>4 DEF PayloadInv, FilesAreNamed, FailureCount,
     BodyKept, AnswersAreWhole, LimitIsOfTheBody
<1> QED BY <1>3, <1>4, <1>5 DEF GetDataAsFilename

LEMMA DestroyKeeps == ASSUME PayloadInv, Destroy PROVE PayloadInv'
<1>1. DataOK' /\ ExistsOK'
  <2>1. CASE disk' = NoFile
    BY <2>1, FileFields DEF Destroy, PayloadInv, DataOK, ExistsOK
  <2>2. CASE UNCHANGED disk
    BY <2>2 DEF Destroy, PayloadInv, DataOK, ExistsOK
  <2> QED BY <2>1, <2>2 DEF Destroy
<1>2. phase \notin {"gone", "left"} /\ phase' \in {"gone", "left"}
  BY DEF Destroy
<1>3. failures' \in 0 .. (MaxReads + 2)
  <2>1. failures <= reads + 1
    BY <1>2 DEF PayloadInv, FailureCount
  <2>2. failures \in Nat /\ reads \in 0 .. MaxReads /\ MaxReads \in Nat
    BY BoundsAssumption DEF PayloadInv, RestOK
  <2>3. failures' = failures \/ failures' = failures + 1
    BY DEF Destroy, Works, Fails
  <2> QED BY <2>1, <2>2, <2>3
<1>4. RestOK'
  BY <1>2, <1>3 DEF Destroy, PayloadInv, RestOK
<1>5. disk' = NoFile => disk'.exists = FALSE
  BY FileFields
<1>6. FilesAreNamed'
  BY <1>5 DEF Destroy, PayloadInv, FilesAreNamed, RestOK
<1>7. FailureCount' /\ BodyKept' /\ AnswersAreWhole' /\ LimitIsOfTheBody'
  BY <1>2 DEF FailureCount, BodyKept, AnswersAreWhole, LimitIsOfTheBody
<1> QED BY <1>1, <1>4, <1>6, <1>7 DEF PayloadInv

LEMMA PayloadReachable == Spec => []PayloadInv
<1>1. PayloadInv /\ UNCHANGED vars => PayloadInv'
  BY DEF vars, PayloadInv, DataOK, ExistsOK, RestOK, FilesAreNamed, FailureCount,
     BodyKept, AnswersAreWhole, LimitIsOfTheBody, Body
<1>2. PayloadInv /\ [Next]_vars => PayloadInv'
  BY <1>1, FeedKeeps, HandleKeeps, StringKeeps, FilenameKeeps, DestroyKeeps DEF Next
<1> QED BY PayloadInit, <1>2, PTL DEF Spec

-----------------------------------------------------------------------------
(* Every variable keeps to the values the code gives it.                   *)
THEOREM PayloadTypeCorrect == Spec => []TypeOK
<1>1. PayloadInv => TypeOK
  BY TypeParts DEF PayloadInv
<1> QED BY <1>1, PayloadReachable, PTL

(* While the disk works every getter call gives the whole body, however it *)
(* arrived and whatever calls came before.                                 *)
THEOREM WholeAnswers == Spec => []AnswersAreWhole
<1>1. PayloadInv => AnswersAreWhole
  BY DEF PayloadInv
<1> QED BY <1>1, PayloadReachable, PTL

(* However the body is cut, it is kept in memory, in a file or not at all  *)
(* as its length compares to the limit.                                    *)
THEOREM LimitOfBody == Spec => []LimitIsOfTheBody
<1>1. PayloadInv => LimitIsOfTheBody
  BY DEF PayloadInv
<1> QED BY <1>1, PayloadReachable, PTL

(* No temporary file outlives its request, wherever it was given up and    *)
(* whatever failed, unless its own removal does.                           *)
THEOREM FilesRemoved == Spec => []NoFileLeftBehind
<1>1. PayloadInv => NoFileLeftBehind
  BY DEF PayloadInv, FilesAreNamed, NoFileLeftBehind
<1> QED BY <1>1, PayloadReachable, PTL
=============================================================================
