--------------------------- MODULE RequestsProofs ---------------------------
(***************************************************************************)
(* Counting what requests in flight create, for any number of them.        *)
(***************************************************************************)
EXTENDS Requests, TLAPS, FiniteSetTheorems

\* What has been made and those who are about to make one stay within the
\* number of requests.
Within(made, makers) ==
  /\ IsFiniteSet(made)
  /\ Cardinality(made) + Cardinality(makers) <= Cardinality(Req)

LEMMA WithinBound ==
  ASSUME NEW made, NEW makers \in SUBSET Req, Within(made, makers)
  PROVE  Cardinality(made) <= Cardinality(Req)
<1>1. /\ Cardinality(made) \in Nat /\ Cardinality(makers) \in Nat
      /\ Cardinality(Req) \in Nat
  BY RequestsAssumption, FS_Subset, FS_CardinalityType DEF Within
<1> QED
  BY <1>1 DEF Within

LEMMA WithinFewer ==
  ASSUME NEW made, NEW makers \in SUBSET Req, Within(made, makers),
         NEW fewer \in SUBSET made, NEW rest \in SUBSET makers
  PROVE  Within(fewer, rest)
<1>1. IsFiniteSet(made) /\ IsFiniteSet(makers) /\ IsFiniteSet(Req)
  BY RequestsAssumption, FS_Subset DEF Within
<1>2. /\ IsFiniteSet(fewer) /\ Cardinality(fewer) <= Cardinality(made)
      /\ IsFiniteSet(rest) /\ Cardinality(rest) <= Cardinality(makers)
  BY <1>1, FS_Subset
<1>3. /\ Cardinality(made) \in Nat /\ Cardinality(makers) \in Nat
      /\ Cardinality(fewer) \in Nat /\ Cardinality(rest) \in Nat
      /\ Cardinality(Req) \in Nat
  BY <1>1, <1>2, FS_CardinalityType
<1> QED
  BY <1>2, <1>3 DEF Within

LEMMA WithinNone ==
  ASSUME NEW makers \in SUBSET Req
  PROVE  Within({}, makers)
<1>1. /\ IsFiniteSet({}) /\ Cardinality({}) = 0
      /\ IsFiniteSet(makers) /\ Cardinality(makers) <= Cardinality(Req)
  BY RequestsAssumption, FS_EmptySet, FS_Subset
<1>2. Cardinality(makers) \in Nat
  BY <1>1, FS_CardinalityType
<1> QED
  BY <1>1, <1>2 DEF Within

LEMMA WithinCreated ==
  ASSUME NEW made, NEW makers \in SUBSET Req, Within(made, makers), NEW x,
         NEW j \in makers
  PROVE  Within(made \cup {x}, makers \ {j})
<1>1. IsFiniteSet(made) /\ IsFiniteSet(makers)
  BY RequestsAssumption, FS_Subset DEF Within
<1>2. Cardinality(makers \ {j}) = Cardinality(makers) - 1
  BY <1>1, FS_RemoveElement
<1>3. /\ IsFiniteSet(made \cup {x})
      /\ Cardinality(made \cup {x}) \in {Cardinality(made), Cardinality(made) + 1}
  BY <1>1, FS_AddElement
<1>4. /\ Cardinality(made) \in Nat /\ Cardinality(makers) \in Nat
      /\ Cardinality(Req) \in Nat
  BY <1>1, RequestsAssumption, FS_CardinalityType
<1> QED
  BY <1>2, <1>3, <1>4 DEF Within

\* A set that loses a member, and maybe more.
LEMMA OneLess ==
  ASSUME NEW S, IsFiniteSet(S), NEW x \in S, NEW T \in SUBSET (S \ {x})
  PROVE  /\ IsFiniteSet(T) /\ Cardinality(T) \in Nat /\ Cardinality(S) \in Nat
         /\ Cardinality(T) + 1 <= Cardinality(S)
<1>1. IsFiniteSet(S \ {x}) /\ Cardinality(S \ {x}) = Cardinality(S) - 1
  BY FS_RemoveElement
<1>2. IsFiniteSet(T) /\ Cardinality(T) <= Cardinality(S \ {x})
  BY <1>1, FS_Subset
<1>3. Cardinality(S) \in Nat /\ Cardinality(T) \in Nat
  BY <1>2, FS_CardinalityType
<1> QED
  BY <1>1, <1>2, <1>3
=============================================================================
