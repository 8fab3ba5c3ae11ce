---------------------------- MODULE FieldsProofs ----------------------------
(***************************************************************************)
(* Proofs about the merging of headers and query parameters, for any       *)
(* number of fields, names and values: the loop keeps the merged fields    *)
(* those that describe the fields it has gone through.  The induction is   *)
(* over the turns of the loop, so that no fact about a fold is needed.     *)
(***************************************************************************)
EXTENDS RequestFields, FiniteSetTheorems, TLAPS

Items == Values \cup {Comma}
Field == [name : Names, value : Texts]

(* The fields of one key among the first p.                                *)
At(k, p) == {i \in 1 .. p : Key(fields[i].name) = k}

FieldsOK ==
    /\ source \in {"headers", "queries"}
    /\ fields \in Seq(Field)
    /\ pos \in Nat /\ pos <= Len(fields)

KeysOK == DOMAIN map = {Key(fields[i].name) : i \in 1 .. pos}

(* An entry of the map describes the fields of its key among the first p.  *)
Entry(k, e, p) ==
    /\ e = [name |-> e.name, value |-> e.value]
    /\ \E first \in 1 .. p :
          /\ FirstOf(first, At(k, p))
          /\ e.name = fields[first].name
          /\ Discards(k) => e.value = fields[first].value
    /\ ~Discards(k) => IsJoined(e.value, NonEmpty(At(k, p)))

FieldsInv == FieldsOK /\ KeysOK /\ \A k \in DOMAIN map : Entry(k, map[k], pos)

-----------------------------------------------------------------------------
(* Ranks.                                                                  *)

(* Indices up to a bound are finitely many.                                *)
LEMMA Indices ==
    ASSUME NEW p \in Nat, NEW is \in SUBSET (1 .. p)
    PROVE  IsFiniteSet(is) /\ Cardinality(is) \in Nat
<1>1. IsFiniteSet(1 .. p)
  BY FS_Interval
<1>2. IsFiniteSet(is)
  BY <1>1, FS_Subset
<1> QED
  BY <1>2, FS_CardinalityType

(* A rank is between one and the number of indices.                        *)
LEMMA RankBounds ==
    ASSUME NEW p \in Nat, NEW is \in SUBSET (1 .. p), NEW i \in is
    PROVE  Rank(i, is) \in Nat /\ 1 <= Rank(i, is) /\ Rank(i, is) <= Cardinality(is)
<1> DEFINE below == {j \in is : j <= i}
<1>0. is \subseteq 1 .. p /\ i \in 1 .. p /\ i <= i
  OBVIOUS
<1>1. below \subseteq is /\ i \in below
  BY <1>0
<1>2. IsFiniteSet(is) /\ IsFiniteSet(below) /\ Cardinality(below) \in Nat
  BY <1>0, <1>1, Indices
<1>3. Cardinality(below) <= Cardinality(is)
  BY <1>1, <1>2, FS_Subset
<1>4. Cardinality(below) # 0
  BY <1>1, <1>2, FS_EmptySet
<1> QED
  BY <1>2, <1>3, <1>4 DEF Rank

(* An index after all others comes last, and the others keep their ranks.  *)
LEMMA RankOfNext ==
    ASSUME NEW p \in Nat, NEW is \in SUBSET (1 .. p)
    PROVE  /\ Cardinality(is \cup {p + 1}) = Cardinality(is) + 1
           /\ Rank(p + 1, is \cup {p + 1}) = Cardinality(is) + 1
           /\ \A i \in is : Rank(i, is \cup {p + 1}) = Rank(i, is)
<1> DEFINE more == is \cup {p + 1}
<1>0. \A j \in is : j \in Int /\ j <= p /\ j <= p + 1
  OBVIOUS
<1>1. p + 1 \notin is
  BY <1>0
<1>2. Cardinality(more) = Cardinality(is) + 1
  BY <1>1, Indices, FS_AddElement
<1>3. {j \in more : j <= p + 1} = more
  <2>1. \A j \in more : j <= p + 1
    BY <1>0
  <2> QED
    BY <2>1
<1>4. ASSUME NEW i \in is PROVE {j \in more : j <= i} = {j \in is : j <= i}
  <2>1. i \in Int /\ ~(p + 1 <= i)
    BY <1>0
  <2> QED
    BY <2>1
<1> QED
  BY <1>2, <1>3, <1>4 DEF Rank

-----------------------------------------------------------------------------
(* append_with_comma.                                                      *)

(* The length of a joined text.                                            *)
LEMMA JoinedLength ==
    ASSUME NEW p \in Nat, NEW is \in SUBSET (1 .. p), NEW text, IsJoined(text, is)
    PROVE  /\ is = {} => Len(text) = 0 /\ text = <<>> /\ Cardinality(is) = 0
           /\ is # {} => /\ Cardinality(is) >= 1
                         /\ Len(text) = 2 * Cardinality(is) - 1
                         /\ text # <<>>
<1>1. text \in Seq(Items)
  BY DEF IsJoined, Items
<1>2. CASE is = {}
  <2>1. Len(text) = 0
    BY <1>2 DEF IsJoined
  <2>2. text = <<>>
    BY <1>1, <2>1
  <2> QED
    BY <1>2, <2>1, <2>2, FS_EmptySet
<1>3. CASE is # {}
  <2>1. IsFiniteSet(is) /\ Cardinality(is) \in Nat
    BY Indices
  <2>2. Cardinality(is) # 0
    BY <1>3, <2>1, FS_EmptySet
  <2>3. Len(text) = 2 * Cardinality(is) - 1
    BY <1>3 DEF IsJoined
  <2>4. Len(text) # 0
    BY <2>1, <2>2, <2>3
  <2>5. text # <<>>
    BY <2>4
  <2>6. Cardinality(is) >= 1
    BY <2>1, <2>2
  <2> QED
    BY <1>3, <2>3, <2>5, <2>6
<1> QED
  BY <1>2, <1>3

(* An empty value changes nothing.                                         *)
LEMMA AppendNothing ==
    ASSUME NEW text PROVE AppendWithComma(text, <<>>) = text
  BY DEF AppendWithComma

(* The text of the next field goes to the end, behind a comma if there is  *)
(* anything before it.                                                     *)
LEMMA AppendJoins ==
    ASSUME NEW p \in Nat, NEW is \in SUBSET (1 .. p), NEW text, IsJoined(text, is),
           NEW v \in Values, fields[p + 1].value = <<v>>
    PROVE  IsJoined(AppendWithComma(text, <<v>>), is \cup {p + 1})
<1> DEFINE more == is \cup {p + 1}
           c == Cardinality(is)
           joined == AppendWithComma(text, <<v>>)
<1>1. text \in Seq(Items) /\ v \in Items /\ Comma \in Items /\ c \in Nat /\ more # {}
  BY Indices DEF IsJoined, Items
<1>2. Cardinality(more) = c + 1 /\ Rank(p + 1, more) = c + 1
      /\ \A i \in is : Rank(i, more) = Rank(i, is)
  BY RankOfNext
<1>3. fields[p + 1].value[1] = v
  OBVIOUS
<1>4. CASE is = {}
  <2>1. text = <<>> /\ c = 0
    BY <1>4, JoinedLength
  <2>2. joined = <<v>>
    BY <2>1 DEF AppendWithComma
  <2>7. Cardinality(more) = 1
    BY <1>2, <2>1
  <2>8. <<v>> \in Seq(Items) /\ Len(<<v>>) = 1
    BY <1>1
  <2>3. joined \in Seq(Items) /\ Len(joined) = 1
    BY <2>2, <2>8
  <2>6. Len(joined) = 2 * Cardinality(more) - 1
    BY <2>3, <2>7
  <2>4. \A i \in more : joined[2 * Rank(i, more) - 1] = fields[i].value[1]
    BY <1>2, <1>3, <1>4, <2>1, <2>2
  <2>5. \A n \in 1 .. Cardinality(more) : n # Cardinality(more) => joined[2 * n] = Comma
    BY <1>2, <2>1
  <2> QED
    BY <1>1, <2>3, <2>4, <2>5, <2>6 DEF IsJoined, Items
<1>5. CASE is # {}
  <2>1. text # <<>> /\ Len(text) = 2 * c - 1 /\ c >= 1
    BY <1>5, JoinedLength
  <2>2. joined = Append(text, Comma) \o <<v>>
    BY <2>1 DEF AppendWithComma
  <2> DEFINE dotted == Append(text, Comma)
  <2>7. /\ dotted \in Seq(Items) /\ Len(dotted) = Len(text) + 1
        /\ \A n \in 1 .. Len(text) : dotted[n] = text[n]
        /\ dotted[Len(text) + 1] = Comma
    BY <1>1
  <2>8. <<v>> \in Seq(Items) /\ Len(<<v>>) = 1 /\ <<v>>[1] = v
    BY <1>1
  <2> HIDE DEF dotted
  <2>9. /\ dotted \o <<v>> \in Seq(Items) /\ Len(dotted \o <<v>>) = Len(dotted) + 1
        /\ \A n \in 1 .. Len(dotted) : (dotted \o <<v>>)[n] = dotted[n]
        /\ (dotted \o <<v>>)[Len(dotted) + 1] = v
    BY <2>7, <2>8
  <2>10. joined = dotted \o <<v>>
    BY <2>2 DEF dotted
  <2>11. Len(text) \in Nat
    BY <1>1
  <2>3. /\ joined \in Seq(Items) /\ Len(joined) = Len(text) + 2
        /\ \A n \in 1 .. Len(text) : joined[n] = text[n]
        /\ joined[Len(text) + 1] = Comma
        /\ joined[Len(text) + 2] = v
    <3>1. Len(joined) = Len(text) + 2
      BY <2>7, <2>9, <2>10, <2>11
    <3>2. ASSUME NEW n \in 1 .. Len(text) PROVE joined[n] = text[n]
      <4>1. n \in 1 .. Len(dotted)
        BY <2>7, <2>11
      <4> QED
        BY <2>7, <2>9, <2>10, <4>1
    <3>3. joined[Len(text) + 1] = Comma
      <4>1. Len(text) + 1 \in 1 .. Len(dotted)
        BY <2>7, <2>11
      <4> QED
        BY <2>7, <2>9, <2>10, <4>1
    <3>4. joined[Len(text) + 2] = v
      <4>1. Len(text) + 2 = Len(dotted) + 1
        BY <2>7, <2>11
      <4> QED
        BY <2>9, <2>10, <4>1
    <3> QED
      BY <2>9, <2>10, <3>1, <3>2, <3>3, <3>4
  <2>4. Len(joined) = 2 * Cardinality(more) - 1
    BY <1>1, <1>2, <2>1, <2>3
  <2>5. ASSUME NEW i \in more PROVE joined[2 * Rank(i, more) - 1] = fields[i].value[1]
    <3>1. CASE i = p + 1
      <4>1. 2 * Rank(i, more) - 1 = Len(text) + 2
        BY <1>1, <1>2, <2>1, <3>1
      <4> QED
        BY <1>3, <2>3, <3>1, <4>1
    <3>2. CASE i \in is
      <4>1. Rank(i, more) = Rank(i, is)
        BY <1>2, <3>2
      <4>2. Rank(i, is) \in Nat /\ 1 <= Rank(i, is) /\ Rank(i, is) <= c
        BY <3>2, RankBounds
      <4>3. 2 * Rank(i, is) - 1 \in 1 .. Len(text)
        BY <1>1, <2>1, <4>2
      <4>4. text[2 * Rank(i, is) - 1] = fields[i].value[1]
        BY <3>2 DEF IsJoined
      <4> QED
        BY <2>3, <4>1, <4>3, <4>4
    <3> QED
      BY <3>1, <3>2
  <2>6. ASSUME NEW n \in 1 .. Cardinality(more), n # Cardinality(more)
        PROVE  joined[2 * n] = Comma
    <3>1. n \in 1 .. c
      BY <1>1, <1>2, <2>6
    <3>2. CASE n = c
      <4>1. 2 * n = Len(text) + 1
        BY <1>1, <2>1, <3>2
      <4> QED
        BY <2>3, <4>1
    <3>3. CASE n # c
      <4>1. 2 * n \in 1 .. Len(text)
        BY <1>1, <2>1, <3>1, <3>3
      <4>2. text[2 * n] = Comma
        BY <3>1, <3>3 DEF IsJoined
      <4> QED
        BY <2>3, <4>1, <4>2
    <3> QED
      BY <3>2, <3>3
  <2> QED
    BY <1>1, <2>3, <2>4, <2>5, <2>6 DEF IsJoined, Items
<1> QED
  BY <1>4, <1>5

-----------------------------------------------------------------------------
(* One turn of the loop, entry by entry.                                   *)

(* The next field is one more of its key, and none of another.             *)
LEMMA NextAt ==
    ASSUME NEW p \in Nat, NEW k
    PROVE  /\ Key(fields[p + 1].name) = k => At(k, p + 1) = At(k, p) \cup {p + 1}
           /\ Key(fields[p + 1].name) # k => At(k, p + 1) = At(k, p)
<1>1. \A i : i \in 1 .. (p + 1) <=> i \in 1 .. p \/ i = p + 1
  OBVIOUS
<1> QED
  BY <1>1 DEF At

(* A text is empty or one value.                                           *)
LEMMA FieldType ==
    ASSUME fields \in Seq(Field), NEW p \in Nat, p < Len(fields)
    PROVE  /\ fields[p + 1] \in Field
           /\ \/ fields[p + 1].value = <<>>
              \/ \E v \in Values : fields[p + 1].value = <<v>> /\ <<v>> # <<>>
<1>1. p + 1 \in 1 .. Len(fields)
  BY DEF Field
<1>2. fields[p + 1] \in Field
  BY <1>1
<1>3. fields[p + 1].value \in Texts
  BY <1>2 DEF Field
<1>4. \A v : Len(<<v>>) = 1 /\ <<v>> # <<>>
  OBVIOUS
<1> QED
  BY <1>2, <1>3, <1>4 DEF Texts

(* The joined text follows, whether the next value is empty or not.        *)
LEMMA NextJoined ==
    ASSUME fields \in Seq(Field), NEW p \in Nat, p < Len(fields),
           NEW is \in SUBSET (1 .. p), NEW text, IsJoined(text, NonEmpty(is))
    PROVE  IsJoined(AppendWithComma(text, fields[p + 1].value),
                    NonEmpty(is \cup {p + 1}))
<1>1. NonEmpty(is) \in SUBSET (1 .. p)
  BY DEF NonEmpty
<1>2. CASE fields[p + 1].value = <<>>
  <2>1. NonEmpty(is \cup {p + 1}) = NonEmpty(is)
    BY <1>2 DEF NonEmpty
  <2> QED
    BY <1>2, <2>1, AppendNothing
<1>3. CASE \E v \in Values : fields[p + 1].value = <<v>> /\ <<v>> # <<>>
  <2>1. PICK v \in Values : fields[p + 1].value = <<v>> /\ <<v>> # <<>>
    BY <1>3
  <2>2. NonEmpty(is \cup {p + 1}) = NonEmpty(is) \cup {p + 1}
    BY <2>1 DEF NonEmpty
  <2>3. IsJoined(AppendWithComma(text, <<v>>), NonEmpty(is) \cup {p + 1})
    BY <1>1, <2>1, AppendJoins
  <2> QED
    BY <2>1, <2>2, <2>3
<1> QED
  BY <1>2, <1>3, FieldType

(* No fields are described by the empty text.                              *)
LEMMA JoinedOfNone == IsJoined(<<>>, NonEmpty({}))
<1>1. NonEmpty({}) = {} /\ Cardinality({}) = 0
  BY FS_EmptySet DEF NonEmpty
<1>2. <<>> \in Seq(Items) /\ Len(<<>>) = 0 /\ 1 .. 0 = {}
  OBVIOUS
<1> QED
  BY <1>1, <1>2 DEF IsJoined, Items

(* The entry of another key still describes its fields.                    *)
LEMMA EntryOfOther ==
    ASSUME NEW p \in Nat, NEW k, NEW e, Key(fields[p + 1].name) # k, Entry(k, e, p)
    PROVE  Entry(k, e, p + 1)
<1>1. At(k, p + 1) = At(k, p)
  BY NextAt
<1>2. 1 .. p \subseteq 1 .. (p + 1)
  OBVIOUS
<1> QED
  BY <1>1, <1>2 DEF Entry

(* A field with a new key describes itself.                                *)
LEMMA EntryOfNew ==
    ASSUME fields \in Seq(Field), NEW p \in Nat, p < Len(fields),
           NEW k, k = Key(fields[p + 1].name),
           \A i \in 1 .. p : Key(fields[i].name) # k
    PROVE  Entry(k, fields[p + 1], p + 1)
<1> DEFINE f == fields[p + 1]
<1>1. At(k, p) = {}
  BY DEF At
<1>2. At(k, p + 1) = {} \cup {p + 1}
  BY <1>1, NextAt
<1>3. f = [name |-> f.name, value |-> f.value]
  BY FieldType DEF Field
<1>4. p + 1 \in 1 .. (p + 1) /\ p + 1 <= p + 1
  OBVIOUS
<1>5. FirstOf(p + 1, At(k, p + 1))
  BY <1>2, <1>4 DEF FirstOf
<1>6. AppendWithComma(<<>>, f.value) = f.value
  BY DEF AppendWithComma
<1>7. IsJoined(AppendWithComma(<<>>, f.value), NonEmpty({} \cup {p + 1}))
  <2>1. {} \in SUBSET (1 .. p)
    OBVIOUS
  <2> QED
    BY <2>1, NextJoined, JoinedOfNone
<1> QED
  BY <1>2, <1>3, <1>4, <1>5, <1>6, <1>7 DEF Entry

(* The first field stays the first.                                        *)
LEMMA FirstStays ==
    ASSUME NEW p \in Nat, NEW is \in SUBSET (1 .. p), NEW i, FirstOf(i, is)
    PROVE  FirstOf(i, is \cup {p + 1})
<1>1. i \in is /\ i \in 1 .. p
  BY DEF FirstOf
<1>2. i <= p + 1
  BY <1>1
<1> QED
  BY <1>1, <1>2 DEF FirstOf

(* A field with a known key is dropped or put to the end of the text.      *)
LEMMA EntryOfKnown ==
    ASSUME fields \in Seq(Field), NEW p \in Nat, p < Len(fields),
           NEW k, k = Key(fields[p + 1].name), NEW e, Entry(k, e, p), NEW new,
           \/ Discards(k) /\ new = e
           \/ /\ ~Discards(k)
              /\ new = [e EXCEPT !.value = AppendWithComma(@, fields[p + 1].value)]
    PROVE  Entry(k, new, p + 1)
<1>1. At(k, p + 1) = At(k, p) \cup {p + 1}
  BY NextAt
<1>2. At(k, p) \in SUBSET (1 .. p) /\ 1 .. p \subseteq 1 .. (p + 1)
  BY DEF At
<1>3. PICK first \in 1 .. p :
        /\ FirstOf(first, At(k, p))
        /\ e.name = fields[first].name
        /\ Discards(k) => e.value = fields[first].value
  BY DEF Entry
<1>4. FirstOf(first, At(k, p + 1)) /\ first \in 1 .. (p + 1)
  BY <1>1, <1>2, <1>3, FirstStays
<1>5. e = [name |-> e.name, value |-> e.value]
  BY DEF Entry
<1>6. CASE Discards(k) /\ new = e
  BY <1>3, <1>4, <1>5, <1>6 DEF Entry
<1>7. CASE ~Discards(k)
           /\ new = [e EXCEPT !.value = AppendWithComma(@, fields[p + 1].value)]
  <2> DEFINE text == AppendWithComma(e.value, fields[p + 1].value)
  <2>1. IsJoined(text, NonEmpty(At(k, p) \cup {p + 1}))
    BY <1>2, <1>7, NextJoined DEF Entry
  <2> HIDE DEF text
  <2>2. new = [e EXCEPT !.value = text]
    BY <1>7 DEF text
  <2>3. new = [name |-> e.name, value |-> text]
    BY <1>5, <2>2
  <2> QED
    <3>1. new.name = e.name /\ new.value = text
      BY <2>3
    <3>2. new = [name |-> new.name, value |-> new.value]
      BY <2>3, <3>1
    <3>3. IsJoined(new.value, NonEmpty(At(k, p + 1)))
      BY <1>1, <2>1, <3>1 DEF text
    <3> QED
      BY <1>3, <1>4, <1>7, <3>1, <3>2, <3>3 DEF Entry
<1> QED
  BY <1>6, <1>7

-----------------------------------------------------------------------------
(* Before the loop nothing is merged.                                      *)
LEMMA FieldsInit == Init => FieldsInv
<1> SUFFICES ASSUME Init PROVE FieldsInv
  OBVIOUS
<1>1. PICK n \in 0 .. MaxFields : fields \in [1 .. n -> Field]
  BY DEF Init, Field
<1>2. n \in Nat /\ fields \in Seq(Field)
  BY <1>1, FieldsAssumption
<1>3. DOMAIN map = {} /\ 1 .. pos = {}
  BY DEF Init
<1>4. pos \in Nat /\ pos <= Len(fields)
  BY <1>2 DEF Init
<1>5. KeysOK
  BY <1>3 DEF KeysOK
<1> QED
  BY <1>2, <1>3, <1>4, <1>5 DEF FieldsInv, FieldsOK, Init

(* A turn of the loop keeps the entries those of the fields seen.          *)
LEMMA FieldsStep == FieldsInv /\ [Next]_vars => FieldsInv'
<1> SUFFICES ASSUME FieldsInv, [Next]_vars PROVE FieldsInv'
  OBVIOUS
<1>1. CASE UNCHANGED vars
  <2>1. UNCHANGED <<source, fields, pos, map>>
    BY <1>1 DEF vars
  <2>2. FieldsOK' /\ KeysOK'
    BY <2>1 DEF FieldsInv, FieldsOK, KeysOK, Key
  <2>3. \A k, e, p : Entry(k, e, p)' <=> Entry(k, e, p)
    BY <2>1 DEF Entry, At, NonEmpty, FirstOf, IsJoined, Rank, Key, Discards
  <2> QED
    BY <2>1, <2>2, <2>3 DEF FieldsInv
<1>2. CASE Merge
  <2>1. UNCHANGED <<source, fields>> /\ pos' = pos + 1 /\ pos < Len(fields)
    BY <1>2 DEF Merge
  <2>2. fields \in Seq(Field) /\ pos \in Nat
    BY DEF FieldsInv, FieldsOK
  <2>3. FieldsOK'
    <3>1. pos' \in Nat /\ pos' <= Len(fields)
      BY <2>1, <2>2
    <3> QED
      BY <2>1, <3>1 DEF FieldsInv, FieldsOK
  <2>4. \A k, e, p : Entry(k, e, p)' <=> Entry(k, e, p)
    BY <2>1 DEF Entry, At, NonEmpty, FirstOf, IsJoined, Rank, Key, Discards
  <2>5. PICK f : f = fields[pos + 1]
    OBVIOUS
  <2>6. PICK k : k = Key(f.name)
    OBVIOUS
  <2>7. KeysOK' <=> DOMAIN map' = {Key(fields[i].name) : i \in 1 .. (pos + 1)}
    BY <2>1 DEF KeysOK, Key
  <2>8. {Key(fields[i].name) : i \in 1 .. (pos + 1)} = DOMAIN map \cup {k}
    <3>1. \A i : i \in 1 .. (pos + 1) <=> i \in 1 .. pos \/ i = pos + 1
      BY <2>2
    <3> QED
      BY <2>5, <2>6, <3>1 DEF FieldsInv, KeysOK
  <2>9. \A n \in DOMAIN map : n # k => Entry(n, map[n], pos + 1)
    BY <2>2, <2>5, <2>6, EntryOfOther DEF FieldsInv
  <2>10. CASE k \notin DOMAIN map
    <3>1. map' = [n \in DOMAIN map \cup {k} |-> IF n = k THEN f ELSE map[n]]
      BY <1>2, <2>5, <2>6, <2>10 DEF Merge
    <3>2. \A i \in 1 .. pos : Key(fields[i].name) # k
      BY <2>10 DEF FieldsInv, KeysOK
    <3>3. Entry(k, f, pos + 1)
      BY <2>1, <2>2, <2>5, <2>6, <3>2, EntryOfNew
    <3>4. \A n \in DOMAIN map' : Entry(n, map'[n], pos + 1)
      BY <2>9, <3>1, <3>3
    <3> QED
      BY <2>1, <2>3, <2>4, <2>7, <2>8, <3>1, <3>4 DEF FieldsInv
  <2>11. CASE k \in DOMAIN map
    <3>1. \/ Discards(k) /\ map' = map
          \/ /\ ~Discards(k)
             /\ map' = [map EXCEPT ![k].value = AppendWithComma(@, f.value)]
      BY <1>2, <2>5, <2>6, <2>11 DEF Merge
    <3>2. \/ Discards(k) /\ map'[k] = map[k]
          \/ /\ ~Discards(k)
             /\ map'[k] = [map[k] EXCEPT !.value = AppendWithComma(@, f.value)]
      BY <2>11, <3>1
    <3>3. Entry(k, map'[k], pos + 1)
      BY <2>1, <2>2, <2>5, <2>6, <2>11, <3>2, EntryOfKnown DEF FieldsInv
    <3>4. DOMAIN map' = DOMAIN map /\ \A n \in DOMAIN map : n # k => map'[n] = map[n]
      BY <3>1
    <3>5. \A n \in DOMAIN map' : Entry(n, map'[n], pos + 1)
      BY <2>9, <3>3, <3>4
    <3> QED
      BY <2>1, <2>3, <2>4, <2>7, <2>8, <2>11, <3>4, <3>5 DEF FieldsInv
  <2> QED
    BY <2>10, <2>11
<1> QED
  BY <1>1, <1>2 DEF Next

(* Two names are of one field exactly when they have one key.              *)
LEMMA SameKeys == \A f, g : SameKey(f, g) <=> Key(f) = Key(g)
  BY DEF SameKey, Key

(* Entries of that kind are what MergedAsDescribed asks for.               *)
LEMMA FieldsDescribed == FieldsInv => MergedAsDescribed
<1> SUFFICES ASSUME FieldsInv PROVE MergedAsDescribed
  OBVIOUS
<1>1. ASSUME NEW k \in DOMAIN map
      PROVE  \E first \in 1 .. pos :
                /\ FirstOf(first, At(k, pos)) /\ Key(map[k].name) = k
                /\ map[k].name = fields[first].name
                /\ IF Discards(k) THEN map[k].value = fields[first].value
                                  ELSE IsJoined(map[k].value, NonEmpty(At(k, pos)))
  <2>1. Entry(k, map[k], pos)
    BY DEF FieldsInv
  <2>2. PICK first \in 1 .. pos :
          /\ FirstOf(first, At(k, pos))
          /\ map[k].name = fields[first].name
          /\ Discards(k) => map[k].value = fields[first].value
    BY <2>1 DEF Entry
  <2>3. Key(fields[first].name) = k
    BY <2>2 DEF FirstOf, At
  <2> QED
    BY <2>1, <2>2, <2>3 DEF Entry
<1>2. ASSUME NEW k \in DOMAIN map
      PROVE  Seen(map[k].name) = At(k, pos) /\ (Discards(Lower[map[k].name]) <=> Discards(k))
  BY <1>1, SameKeys DEF Seen, At, Discards, Key
<1>3. \A i \in 1 .. pos : \E k \in DOMAIN map : SameKey(map[k].name, fields[i].name)
  BY <1>1, SameKeys DEF FieldsInv, KeysOK
<1>4. \A k, l \in DOMAIN map : SameKey(map[k].name, map[l].name) => k = l
  BY <1>1, SameKeys
<1> QED
  BY <1>1, <1>2, <1>3, <1>4 DEF MergedAsDescribed

(* The script is given each name that was sent, once, under its first      *)
(* spelling, and with the values described: for every number of fields,    *)
(* every set of names and values and every list of discarded headers.      *)
THEOREM FieldsMergedAsDescribed == Spec => []MergedAsDescribed
<1>1. Spec => []FieldsInv
  BY FieldsInit, FieldsStep, PTL DEF Spec
<1> QED
  BY <1>1, FieldsDescribed, PTL

=============================================================================
