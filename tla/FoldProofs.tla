----------------------------- MODULE FoldProofs -----------------------------
(***************************************************************************)
(* Induction over the fields of a record.  A constructor of conf/ reads    *)
(* the fields in order with Step, starting from default (Parse of the      *)
(* module ServerConfig).  What holds of the default and is kept by every   *)
(* field holds of the record: the parameters Step and Good are operators,  *)
(* so a constructor and a property are put in with INSTANCE.  The names of *)
(* a path are fields too (Squeeze of the module Responses).                *)
(***************************************************************************)
EXTENDS Integers, Sequences, WellFoundedInduction, TLAPS

CONSTANTS
    Step(_, _),     \* (conf, field) -> what conf becomes
    default,
    Good(_, _, _)   \* (fields, n, conf): a property of conf after n fields

(* The fold of Parse, for fields.                                          *)
Result(fields) ==
    LET conf[i \in 0 .. Len(fields)] ==
            IF i = 0 THEN default ELSE Step(conf[i - 1], fields[i])
    IN  conf[Len(fields)]

(* A set with 0 that is closed under successors holds every number.        *)
LEMMA SetInduction ==
    ASSUME NEW S, 0 \in S, \A n \in Nat : n \in S => n + 1 \in S
    PROVE  Nat \subseteq S
<1> DEFINE T == Nat \ S
           R == OpToRel(<, Nat)
<1>1. SUFFICES ASSUME T # {} PROVE FALSE
  OBVIOUS
<1>2. PICK x \in T : \A y \in T : ~(<<y, x>> \in R)
  <2>1. T \subseteq Nat
    OBVIOUS
  <2> HIDE DEF T, R
  <2> QED
  BY <1>1, <2>1, NatLessThanWellFounded, WFMin DEF R
<1>3. x \in Nat /\ x \notin S
  BY <1>2
<1>4. x # 0
  BY <1>3
<1>5. x - 1 \in Nat /\ x - 1 < x /\ (x - 1) + 1 = x
  BY <1>3, <1>4
<1>6. x - 1 \notin S
  BY <1>3, <1>5
<1>7. x - 1 \in T
  BY <1>5, <1>6
<1>8. <<x - 1, x>> \in R
  BY <1>3, <1>5 DEF OpToRel
<1> QED
  BY <1>2, <1>7, <1>8

(* A run is the records after 0, 1, ..., n fields.                         *)
Steps(fields, n, run) ==
    /\ DOMAIN run = 0 .. n
    /\ \A i \in 0 .. n :
          run[i] = IF i = 0 THEN default ELSE Step(run[i - 1], fields[i])

(* There is a run of every length: the recursion defines a function.       *)
LEMMA RunExists ==
    ASSUME NEW fields PROVE \A n \in Nat : \E run : Steps(fields, n, run)
<1> DEFINE S == {n \in Nat : \E run : Steps(fields, n, run)}
<1>1. 0 \in S
  <2>1. Steps(fields, 0, [i \in 0 .. 0 |-> default])
    BY DEF Steps
  <2> QED
    BY <2>1
<1>2. ASSUME NEW n \in Nat, n \in S PROVE n + 1 \in S
  <2>1. PICK run : Steps(fields, n, run)
    BY <1>2
  <2> DEFINE last == Step(run[n], fields[n + 1])
             more == [i \in 0 .. (n + 1) |-> IF i = n + 1 THEN last ELSE run[i]]
  <2>2. DOMAIN more = 0 .. (n + 1)
    OBVIOUS
  <2>3. ASSUME NEW i \in 0 .. (n + 1)
        PROVE  more[i] = IF i = 0 THEN default ELSE Step(more[i - 1], fields[i])
    <3>1. CASE i = n + 1
      <4>1. more[i] = last /\ i # 0 /\ i - 1 = n /\ n \in 0 .. (n + 1) /\ n # n + 1
        BY <3>1
      <4>2. more[i - 1] = run[n]
        BY <4>1
      <4> HIDE DEF more
      <4> QED
        BY <3>1, <4>1, <4>2
    <3>2. CASE i = 0
      <4>1. 0 # n + 1 /\ 0 \in 0 .. n
        OBVIOUS
      <4>2. more[i] = run[0]
        BY <3>2, <4>1
      <4> HIDE DEF more
      <4> QED
        BY <2>1, <3>2, <4>1, <4>2 DEF Steps
    <3>3. CASE i # 0 /\ i # n + 1
      <4>1. i \in 0 .. n /\ i - 1 \in 0 .. n /\ i - 1 # n + 1 /\ i - 1 \in 0 .. (n + 1)
        BY <3>3
      <4>2. more[i] = run[i] /\ more[i - 1] = run[i - 1]
        BY <3>3, <4>1
      <4> HIDE DEF more
      <4> QED
        BY <2>1, <3>3, <4>1, <4>2 DEF Steps
    <3> QED
      BY <3>1, <3>2, <3>3
  <2> HIDE DEF more
  <2>4. Steps(fields, n + 1, more)
    BY <2>2, <2>3 DEF Steps
  <2> QED
    BY <2>4
<1> HIDE DEF S
<1>3. Nat \subseteq S
  BY <1>1, <1>2, SetInduction
<1> QED
  BY <1>3 DEF S

(* What is read is where a run ends.                                       *)
LEMMA ResultOfRun ==
    ASSUME NEW fields, Len(fields) \in Nat
    PROVE \E run : Steps(fields, Len(fields), run) /\ Result(fields) = run[Len(fields)]
<1> DEFINE IsConf(g) == g = [i \in 0 .. Len(fields) |->
            IF i = 0 THEN default ELSE Step(g[i - 1], fields[i])]
<1>1. PICK run : Steps(fields, Len(fields), run)
  BY RunExists
<1> DEFINE canon == [i \in 0 .. Len(fields) |-> run[i]]
<1>2. IsConf(canon)
  BY <1>1 DEF Steps
<1> DEFINE conf == CHOOSE g : IsConf(g)
<1>3. IsConf(conf)
  BY <1>2
<1>4. Steps(fields, Len(fields), conf)
  BY <1>3 DEF Steps
<1>5. Result(fields) = conf[Len(fields)]
  BY DEF Result
<1> QED
  BY <1>4, <1>5

(* What the default has and every field keeps, what is read has.           *)
LEMMA ResultGood ==
    ASSUME NEW fields, Len(fields) \in Nat, Good(fields, 0, default),
           \A conf : \A n \in Nat : n < Len(fields) /\ Good(fields, n, conf) =>
              Good(fields, n + 1, Step(conf, fields[n + 1]))
    PROVE  Good(fields, Len(fields), Result(fields))
<1>1. PICK run : Steps(fields, Len(fields), run) /\ Result(fields) = run[Len(fields)]
  BY ResultOfRun
<1> DEFINE S == {n \in Nat : n <= Len(fields) => Good(fields, n, run[n])}
<1>2. 0 \in S
  BY <1>1 DEF Steps
<1>3. ASSUME NEW n \in Nat, n \in S PROVE n + 1 \in S
  <2>1. SUFFICES ASSUME n + 1 <= Len(fields) PROVE Good(fields, n + 1, run[n + 1])
    OBVIOUS
  <2>2. /\ n + 1 \in 0 .. Len(fields) /\ n + 1 # 0 /\ (n + 1) - 1 = n
        /\ n <= Len(fields) /\ n < Len(fields)
    BY <2>1
  <2>3. Good(fields, n, run[n])
    BY <1>3, <2>2
  <2>4. run[n + 1] = Step(run[n], fields[n + 1])
    BY <1>1, <2>2 DEF Steps
  <2> QED
    BY <2>2, <2>3, <2>4
<1> HIDE DEF S
<1>4. Nat \subseteq S
  BY <1>2, <1>3, SetInduction
<1>5. Len(fields) <= Len(fields)
  OBVIOUS
<1> QED
  BY <1>1, <1>4, <1>5 DEF S

(* One field alone.                                                        *)
LEMMA ResultOfOne ==
    ASSUME NEW field PROVE Result(<<field>>) = Step(default, field)
<1> DEFINE fields == <<field>>
<1>1. Len(fields) = 1 /\ fields[1] = field
  OBVIOUS
<1> HIDE DEF fields
<1>2. PICK run : Steps(fields, 1, run) /\ Result(fields) = run[1]
  <2>1. Len(fields) \in Nat
    BY <1>1
  <2>2. PICK run : Steps(fields, Len(fields), run) /\ Result(fields) = run[Len(fields)]
    BY <2>1, ResultOfRun
  <2> QED
    BY <1>1, <2>2
<1>3. run[0] = default /\ run[1] = Step(run[0], fields[1])
  <2>1. 0 \in 0 .. 1 /\ 1 \in 0 .. 1 /\ 1 # 0 /\ 1 - 1 = 0
    OBVIOUS
  <2> QED
    BY <1>2, <2>1 DEF Steps
<1> QED
  BY <1>1, <1>2, <1>3 DEF fields
=============================================================================
