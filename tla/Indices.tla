------------------------------ MODULE Indices ------------------------------
(***************************************************************************)
(* Multi-dimensional indices and their serial numbers                       *)
(* (hidet/ir/utils/index_transform.py), and the modes a shape is split into *)
(* (ir/layout/ops/utils.py), as the register layouts, the shared layouts    *)
(* and the emitters use them.  A shape is a sequence of positive numbers,   *)
(* the outermost dimension first.                                           *)
(***************************************************************************)
EXTENDS Integers, FiniteSets, SequencesExt

\* F(v), with v evaluated once.
With(v, F(_)) == CHOOSE r \in {F(x) : x \in {v}} : TRUE

Flat(seqs) == With(seqs, FlattenSeq)

\* The numbers of a set in increasing order, and the elements of a sequence at them.
Nth(S, i) == CHOOSE k \in S : Cardinality({j \in S : j <= k}) = i
InOrder(S) == [i \in 1..Cardinality(S) |-> Nth(S, i)]
Sifted(s, places) == [i \in 1..Cardinality(places) |-> s[Nth(places, i)]]

\* The product of the first i extents.
Prefix(shape, i) ==
  With(shape, LAMBDA s : LET product[j \in 0..i] == IF j = 0 THEN 1 ELSE product[j - 1] * s[j]
                         IN  product[i])

Product(shape) == Prefix(shape, Len(shape))

Stride(shape, i) == Product(SubSeq(shape, i + 1, Len(shape)))

\* The sum of index[i] * stride[i].
Dot(index, stride) ==
  With(<<index, stride>>,
       LAMBDA p : LET sum[i \in 0..Len(p[1])] == IF i = 0 THEN 0 ELSE sum[i - 1] + p[1][i] * p[2][i]
                  IN  sum[Len(p[1])])

IndexSerialize(index, shape) == Dot(index, [i \in DOMAIN shape |-> Stride(shape, i)])

\* The outermost index is not reduced: a number that is too large shows there.
IndexDeserialize(n, shape) ==
  [i \in DOMAIN shape |->
     IF i = 1 THEN n \div Stride(shape, 1) ELSE (n \div Stride(shape, i)) % shape[i]]

Indexes(shape) == {IndexDeserialize(n, shape) : n \in 0..(Product(shape) - 1)}

-----------------------------------------------------------------------------
(* A mode shape splits a shape: the modes of a dimension follow each other.  *)

Cuts(shape) == {Prefix(shape, i) : i \in 0..Len(shape)}

Splits(shape, modeShape) ==
  Product(shape) = Product(modeShape) /\ Cuts(shape) \subseteq Cuts(modeShape)

\* How many modes the first d dimensions have.  The sizes of the modes are above 1.
ModesUpto(shape, modeShape, d) ==
  With(Prefix(shape, d),
       LAMBDA cut : Cardinality({m \in DOMAIN modeShape : Prefix(modeShape, m) <= cut}))

\* The modes of each dimension.
GetModeGroups(shape, modeShape) ==
  With([d \in 0..Len(shape) |-> ModesUpto(shape, modeShape, d)],
       LAMBDA upto : [d \in DOMAIN shape |->
                        [i \in 1..(upto[d] - upto[d - 1]) |-> upto[d - 1] + i]])

\* The index of every mode.
ModeIndex(index, shape, modeShape) ==
  LET groups == GetModeGroups(shape, modeShape)
  IN  Flat([d \in DOMAIN shape |->
        IndexDeserialize(index[d], [i \in DOMAIN groups[d] |-> modeShape[groups[d][i]]])])
=============================================================================
