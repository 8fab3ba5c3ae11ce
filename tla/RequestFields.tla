---------------------------- MODULE RequestFields ----------------------------
(***************************************************************************)
(* What get_request_metadata makes of the headers and of the query         *)
(* parameters of a request: get_request_headers and get_queries go through *)
(* the fields the native server parsed, in its order, and merge the ones   *)
(* of one name.  A text is the sequence of the values in it, with the      *)
(* separator "," between them; the order of the merged fields is left out. *)
(***************************************************************************)
EXTENDS Integers, Sequences, FiniteSets

CONSTANTS
    Names,      \* spellings of field names
    Lower,      \* [Names -> Names]: the name in lower case
    Discard,    \* HEADERS_DISCARD_DUPLICATES, in lower case
    Values,     \* non-empty field values
    MaxFields   \* bound: fields of one request

ASSUME LowerAssumption ==
    Lower \in [Names -> Names] /\ \A n \in Names : Lower[Lower[n]] = Lower[n]
ASSUME DiscardAssumption == Discard \subseteq {Lower[n] : n \in Names}
ASSUME ValuesAssumption == "," \notin Values
ASSUME FieldsAssumption == MaxFields \in Nat

VARIABLES
    source,     \* "headers" or "queries"
    fields,     \* as the native server parsed them
    pos,        \* fields merged so far
    map         \* the merged fields, by key

vars == <<source, fields, pos, map>>

Texts == {<<>>} \cup {<<v>> : v \in Values}

Init ==
    /\ source \in {"headers", "queries"}
    /\ fields \in UNION {[1 .. n -> [name : Names, value : Texts]] :
                            n \in 0 .. MaxFields}
    /\ pos = 0
    /\ map = <<>>

(* Header names are compared in lower case, query names as they are.       *)
Key(n) == IF source = "headers" THEN Lower[n] ELSE n

Discards(k) == source = "headers" /\ k \in Discard

Comma == ","

(* Mutant: a separator is put after an empty text too.                     *)
AppendAlways(text, tail) ==
    IF tail = <<>> THEN text ELSE Append(text, Comma) \o tail

(* append_with_comma: an empty text or tail gets no separator.             *)
AppendWithComma(text, tail) ==
    CASE text = <<>> -> tail
      [] text # <<>> /\ tail = <<>> -> text
      [] OTHER -> Append(text, Comma) \o tail

(* One turn of the loop.                                                   *)
Merge ==
    LET f == fields[pos + 1]
        k == Key(f.name)
    IN  /\ pos < Len(fields)
        /\ pos' = pos + 1
        /\ \/ /\ k \notin DOMAIN map
              /\ map' = [n \in DOMAIN map \cup {k} |-> IF n = k THEN f ELSE map[n]]
           \/ /\ k \in DOMAIN map /\ ~Discards(k)
              /\ map' = [map EXCEPT ![k].value = AppendWithComma(@, f.value)]
           \/ /\ k \in DOMAIN map /\ Discards(k)
              /\ UNCHANGED map
        /\ UNCHANGED <<source, fields>>

Next == Merge

Spec == Init /\ [][Next]_vars

-----------------------------------------------------------------------------
(* Properties.                                                             *)

(* Where the fields of one name were seen so far, and those with a text.   *)
SameKey(f, g) ==
    f = g \/ (source = "headers" /\ Lower[f] = Lower[g])
Seen(n) == {i \in 1 .. pos : SameKey(fields[i].name, n)}
NonEmpty(is) == {i \in is : fields[i].value # <<>>}

Rank(i, is) == Cardinality({j \in is : j <= i})
FirstOf(i, is) == i \in is /\ \A j \in is : i <= j

(* A text is the values of the fields at is, in order, with commas between.*)
IsJoined(text, is) ==
    /\ text \in Seq(Values \cup {Comma})
    /\ Len(text) = IF is = {} THEN 0 ELSE 2 * Cardinality(is) - 1
    /\ \A i \in is : text[2 * Rank(i, is) - 1] = fields[i].value[1]
    /\ \A n \in 1 .. Cardinality(is) : n # Cardinality(is) => text[2 * n] = Comma

(* The script is given each name that was sent, once, under its first      *)
(* spelling, with the first value if duplicates of that header are         *)
(* discarded and with all that are not empty, in order and between commas, *)
(* otherwise.                                                              *)
MergedAsDescribed ==
    /\ \A i \in 1 .. pos : \E k \in DOMAIN map : SameKey(map[k].name, fields[i].name)
    /\ \A k, l \in DOMAIN map : SameKey(map[k].name, map[l].name) => k = l
    /\ \A k \in DOMAIN map :
          LET seen == Seen(map[k].name) IN
          \E first \in 1 .. pos :
              /\ FirstOf(first, seen)
              /\ map[k].name = fields[first].name
              /\ IF Discards(Lower[map[k].name])
                 THEN map[k].value = fields[first].value
                 ELSE IsJoined(map[k].value, NonEmpty(seen))
=============================================================================
