--------------------------- MODULE SequenceFacts ---------------------------
(***************************************************************************)
(* Facts about sequences and small sets that the proofs about rows in      *)
(* tables share.                                                           *)
(***************************************************************************)
EXTENDS Naturals, Sequences, FiniteSets, TLAPS

(* A function on an initial segment of the numbers is a sequence. *)
LEMMA FunctionIsSequence ==
    ASSUME NEW S, NEW n \in Nat, NEW f \in [1..n -> S]
    PROVE  f \in Seq(S) /\ Len(f) = n
  OBVIOUS

(* A sequence is a function of the positions in it. *)
LEMMA ByPosition ==
    ASSUME NEW S, NEW q \in Seq(S)
    PROVE  Len(q) \in Nat /\ q \in [1..Len(q) -> S] /\ DOMAIN q = 1..Len(q)
  OBVIOUS

(* A sequence that is not empty has a last position. *)
LEMMA NonEmptyHasLast ==
    ASSUME NEW S, NEW q \in Seq(S), q # <<>>
    PROVE  Len(q) \in Nat \ {0}
  OBVIOUS

(* Appending keeps what is there and adds one element. *)
LEMMA Appending ==
    ASSUME NEW S, NEW q \in Seq(S), NEW x \in S
    PROVE  /\ Append(q, x) \in Seq(S) /\ Append(q, x) # <<>> /\ Len(Append(q, x)) = Len(q) + 1
           /\ \A i \in 1..Len(q) : Append(q, x)[i] = q[i]
           /\ Append(q, x)[Len(q) + 1] = x
  OBVIOUS

(* Replacing an element keeps the length and the other elements. *)
LEMMA Replacing ==
    ASSUME NEW S, NEW q \in Seq(S), NEW i \in 1..Len(q), NEW x \in S
    PROVE  /\ [q EXCEPT ![i] = x] \in Seq(S) /\ Len([q EXCEPT ![i] = x]) = Len(q)
           /\ \A j \in 1..Len(q) : [q EXCEPT ![i] = x][j] = IF j = i THEN x ELSE q[j]
<1>1. Len(q) \in Nat /\ [q EXCEPT ![i] = x] \in [1..Len(q) -> S]
  OBVIOUS
<1>2. \A j \in 1..Len(q) : [q EXCEPT ![i] = x][j] = IF j = i THEN x ELSE q[j]
  OBVIOUS
<1> QED
  BY <1>1, <1>2, FunctionIsSequence

(* A set without two different elements has the cardinality 0 or 1. *)
LEMMA CardinalityOfFew ==
    ASSUME NEW S, \A x, y \in S : x = y
    PROVE  Cardinality(S) = IF S = {} THEN 0 ELSE 1
<1> DEFINE Rest(T) == T \ {CHOOSE x : x \in T}
           Counts(f) == f = [T \in SUBSET S |-> IF T = {} THEN 0 ELSE 1 + f[Rest(T)]]
           g == [T \in SUBSET S |-> IF T = {} THEN 0 ELSE 1]
           c == CHOOSE f : Counts(f)
<1>1. \A T \in SUBSET S : T # {} => Rest(T) = {}
  OBVIOUS
<1>2. Counts(g)
  BY <1>1
<1>3. Counts(c)
  BY <1>2
<1>4. Cardinality(S) = c[S]
  BY DEF Cardinality
<1> HIDE DEF c
<1>5. {} \in SUBSET S /\ S \in SUBSET S
  OBVIOUS
<1>6. c[{}] = 0
  BY <1>3, <1>5
<1>7. S # {} => c[S] = 1 + c[{}]
  BY <1>1, <1>3, <1>5
<1>8. S = {} => c[S] = 0
  BY <1>6
<1> QED
  BY <1>4, <1>6, <1>7, <1>8

(* At most one element is a cardinality of at most one. *)
LEMMA AtMostOne ==
    ASSUME NEW S, \A x, y \in S : x = y
    PROVE  Cardinality(S) <= 1
  BY CardinalityOfFew
=============================================================================
