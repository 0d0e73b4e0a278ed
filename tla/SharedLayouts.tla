--------------------------- MODULE SharedLayouts ---------------------------
(***************************************************************************)
(* The layouts of tensors in shared memory (ir/layout/shared_layout.py and  *)
(* ir/layout/ops/shared_ops.py): every mode of the shape has a stride, and  *)
(* a swizzle may permute the offsets.  The state is one layout, built by    *)
(* one operation after another.  Dimensions and modes are numbered from 1.  *)
(***************************************************************************)
EXTENDS Indices, FiniteSets, Arith, Bitwise

CONSTANTS
  SharedShapes,   \* shapes to build from, and to reshape to
  Swizzled,       \* pairs <<shape, bytes of an element>> for swizzled layouts
  MaxElements,    \* bound on the elements of a tensor
  MaxStorage,     \* bound on the elements allocated for it
  MaxDims         \* bound on its dimensions

VARIABLE shared

NoSwizzle == [bits |-> 0]

RaiseShared == [raised |-> TRUE]

SharedModes(l) == DOMAIN l.mode_shape
SharedGroups(l) == GetModeGroups(l.shape, l.mode_shape)
At(s, group) == [i \in DOMAIN group |-> s[group[i]]]

-----------------------------------------------------------------------------
(* Offsets.                                                                  *)

Swizzle(x, s) ==
  IF s.bits = 0 THEN x
  ELSE x ^^ shiftR(x & ((2^s.bits - 1) * 2^(s.base + s.shift)), s.shift)

\* The offset before the swizzle.
Linear(l, index) ==
  Dot(ModeIndex(index, l.shape, l.mode_shape), l.mode_strides)

Offset(l, index) == Swizzle(Linear(l, index), l.swizzle)

Log2(n) == CHOOSE k \in 0..15 : 2^k = n

\* Mutant: the base still counts elements.
ToByteSwizzle_SameBase(s, nbytes) == s

\* The swizzle of element offsets as one of byte offsets.
ToByteSwizzle(s, nbytes) == IF s = NoSwizzle THEN s ELSE [s EXCEPT !.base = @ + Log2(nbytes)]

ByteOffset(l, index, nbytes) ==
  Swizzle(Linear(l, index) * nbytes, ToByteSwizzle(l.swizzle, nbytes))

CountSize(l) ==
  Dot([m \in SharedModes(l) |-> l.mode_shape[m] - 1], l.mode_strides) + 1

-----------------------------------------------------------------------------
(* The canonical form.                                                       *)

RemoveSingletonModes(l) ==
  LET kept == SelectSeq([m \in SharedModes(l) |-> m], LAMBDA m : l.mode_shape[m] > 1)
  IN  [l EXCEPT !.mode_shape = At(l.mode_shape, kept), !.mode_strides = At(l.mode_strides, kept)]

\* A mode joins the run of the one before it when it fills the stride of the run's FIRST mode.
MergeConsecutiveModes(l) ==
  LET firsts == {Head(SharedGroups(l)[d]) : d \in {d \in DOMAIN l.shape : l.shape[d] > 1}}
      head[m \in SharedModes(l)] ==
        IF m \in firsts THEN m
        ELSE IF l.mode_strides[head[m - 1]] = l.mode_strides[m] * l.mode_shape[m] THEN head[m - 1]
        ELSE m
      heads == SelectSeq([m \in SharedModes(l) |-> m], LAMBDA m : head[m] = m)
      run(h) == SelectSeq([m \in SharedModes(l) |-> m], LAMBDA m : head[m] = h)
  IN  [l EXCEPT !.mode_shape = [i \in DOMAIN heads |-> Product(At(l.mode_shape, run(heads[i])))],
                !.mode_strides = [i \in DOMAIN heads |-> l.mode_strides[Last(run(heads[i]))]]]

CanonicalizeSharedLayout(l) ==
  With(RemoveSingletonModes([l EXCEPT !.swizzle = IF l.swizzle.bits = 0 THEN NoSwizzle ELSE @]),
       MergeConsecutiveModes)

SharedLayout(shape, modeShape, modeStrides, swizzle) ==
  With([shape |-> shape, mode_shape |-> modeShape, mode_strides |-> modeStrides, swizzle |-> swizzle],
       CanonicalizeSharedLayout)

-----------------------------------------------------------------------------
(* The layouts to begin with.                                                *)

\* The strides of dimensions of which the first in the order varies the slowest.
StridesFromRanks(shape, ranks) ==
  [i \in DOMAIN shape |->
     Product(At(shape, SelectSeq([j \in DOMAIN shape |-> j], LAMBDA j : ranks[j] > ranks[i])))]

SharedRowMajor(shape) ==
  SharedLayout(shape, shape, StridesFromRanks(shape, [i \in DOMAIN shape |-> i]), NoSwizzle)

SharedColumnMajor(shape) ==
  SharedLayout(shape, shape, StridesFromRanks(shape, [i \in DOMAIN shape |-> -i]), NoSwizzle)

\* Rows in vectors of at most 128 bytes, column by column of vectors.
SharedRowMajorSwizzle(shape, nbytes) ==
  LET n == Len(shape)
      vector == Gcd({shape[n], 128 \div nbytes})
      modes == SubSeq(shape, 1, n - 1) \o <<shape[n] \div vector, vector>>
      ranks == [i \in 1..(n + 1) |-> IF i = n - 1 THEN n ELSE IF i = n THEN n - 1 ELSE i]
      bits == Log2((vector * nbytes) \div 16)
  IN  IF n < 2 \/ shape[n - 1] % 8 # 0 \/ (shape[n] * nbytes) % 16 # 0 THEN RaiseShared
      ELSE SharedLayout(shape, modes, StridesFromRanks(modes, ranks),
                        IF bits = 0 THEN NoSwizzle
                        ELSE [base |-> Log2(16 \div nbytes), bits |-> bits, shift |-> 3])

-----------------------------------------------------------------------------
(* The operations.                                                           *)

\* The result has no swizzle, whatever the layouts have.
SharedCompose(l, r) ==
  LET lg == SharedGroups(l)
      rg == SharedGroups(r)
      scaled == [m \in SharedModes(l) |-> l.mode_strides[m] * CountSize(r)]
  IN  SharedLayout([d \in DOMAIN lg |-> l.shape[d] * r.shape[d]],
                   Flat([d \in DOMAIN lg |-> At(l.mode_shape, lg[d]) \o At(r.mode_shape, rg[d])]),
                   Flat([d \in DOMAIN lg |-> At(scaled, lg[d]) \o At(r.mode_strides, rg[d])]),
                   NoSwizzle)

\* The dimensions kept, in their new order: a permutation keeps all of them.
SharedSlice(l, dims) ==
  LET modes == Flat([i \in DOMAIN dims |-> SharedGroups(l)[dims[i]]])
  IN  SharedLayout(At(l.shape, dims), At(l.mode_shape, modes), At(l.mode_strides, modes), l.swizzle)

SharedPermute(l, dims) == SharedSlice(l, dims)

\* Every dimension takes what it has in common with the next mode, until it is filled.
SharedReshape(l, shape) ==
  LET cuts == SetToSortSeq(Cuts(l.mode_shape) \cup Cuts(shape), <)
      steps == 1..(Len(cuts) - 1)
      sizes == [i \in steps |-> cuts[i + 1] \div cuts[i]]
      pieces == GetModeGroups(l.mode_shape, sizes)
      stride(m, k) == l.mode_strides[m] * Stride(At(sizes, pieces[m]), k)
  IN  IF \E i \in steps : cuts[i + 1] % cuts[i] # 0 THEN RaiseShared
      ELSE SharedLayout(shape, sizes,
             Flat([m \in SharedModes(l) |-> [k \in DOMAIN pieces[m] |-> stride(m, k)]]), l.swizzle)

SharedUnsqueeze(l, d) ==
  SharedLayout(InsertAt(l.shape, d, 1), l.mode_shape, l.mode_strides, l.swizzle)

PrependDim(l, extent) ==
  [l EXCEPT !.shape = <<extent>> \o @,
            !.mode_shape = IF extent > 1 THEN <<extent>> \o @ ELSE @,
            !.mode_strides = IF extent > 1 THEN <<CountSize(l)>> \o @ ELSE @]

-----------------------------------------------------------------------------
(* One layout after another.                                                 *)

Plain == UNION {{SharedRowMajor(s), SharedColumnMajor(s)} : s \in SharedShapes}

RowMajorSwizzled == {SharedRowMajorSwizzle(p[1], p[2]) : p \in Swizzled}

SharedBecomes(l) ==
  /\ shared' = l
  /\ shared' # RaiseShared
  /\ Product(shared'.shape) <= MaxElements /\ Len(shared'.shape) <= MaxDims
  /\ CountSize(shared') <= MaxStorage

Orders(l) == {p \in [DOMAIN l.shape -> DOMAIN l.shape] : IsInjective(p)}

SharedInit == shared \in Plain \cup RowMajorSwizzled

SharedNext ==
  \/ \E r \in {r \in Plain : Len(r.shape) = Len(shared.shape)} :
       SharedBecomes(SharedCompose(shared, r)) \/ SharedBecomes(SharedCompose(r, shared))
  \/ \E order \in Orders(shared) : SharedBecomes(SharedPermute(shared, order))
  \/ \E d \in DOMAIN shared.shape : SharedBecomes(SharedSlice(shared, <<d>>))
  \/ \E s \in {s \in SharedShapes : Product(s) = Product(shared.shape)} :
       SharedBecomes(SharedReshape(shared, s))
  \/ \E d \in 1..(Len(shared.shape) + 1) : SharedBecomes(SharedUnsqueeze(shared, d))
  \/ \E extent \in 1..2 : SharedBecomes(PrependDim(shared, extent))

SharedSpec == SharedInit /\ [][SharedNext]_shared

-----------------------------------------------------------------------------
(* Properties.                                                               *)

\* Every element of the result is where an element of the layout was.
Moves(results, l, from(_)) ==
  \A r \in results \ {RaiseShared} : \A i \in Indexes(r.shape) : Offset(r, i) = Offset(l, from(i))

ComposesRight(results, outer, inner) ==
  \A r \in results : \A i \in Indexes(r.shape) :
    Linear(r, i) = Linear(outer, [d \in DOMAIN i |-> i[d] \div inner.shape[d]]) * CountSize(inner)
                   + Linear(inner, [d \in DOMAIN i |-> i[d] % inner.shape[d]])

\* Eight rows of 16 bytes in a column are in eight different bank groups of a swizzled layout
\* (what ldmatrix needs, shared_ops.py:333), and the swizzle stays within the size allocated.
SwizzleSpreads ==
  \A p \in Swizzled :
    LET n == Len(p[1])
        width == 16 \div p[2]
        group(row, v) == (Offset(shared, [d \in 1..n |-> IF d = n THEN v * width
                                                        ELSE IF d = n - 1 THEN row ELSE 0]) * p[2]) \div 16
    IN  shared = SharedRowMajorSwizzle(p[1], p[2]) =>
          /\ \A block \in 0..(p[1][n - 1] \div 8 - 1), v \in 0..(p[1][n] \div width - 1) :
               Cardinality({group(8 * block + r, v) % 8 : r \in 0..7}) = 8
          /\ \A i \in Indexes(shared.shape) : Offset(shared, i) < CountSize(shared)

\* What the operations on shared layouts promise: elements never share an offset, offsets stay
\* below the size allocated for them, the byte-level swizzle moves bytes as the element-level one
\* moves elements, the result of an operation finds its elements where they were, and the
\* swizzle spreads the rows over the banks.
SharedOffsetsRight ==
  /\ Cardinality({Linear(shared, i) : i \in Indexes(shared.shape)}) = Product(shared.shape)
  /\ \A i \in Indexes(shared.shape) : Linear(shared, i) < CountSize(shared)
  /\ \A i \in Indexes(shared.shape), nbytes \in {1, 2, 4} :
       ByteOffset(shared, i, nbytes) = Offset(shared, i) * nbytes
  /\ \A p \in {p \in Plain : Len(p.shape) = Len(shared.shape)} :
       ComposesRight({SharedCompose(shared, p)}, shared, p)
  /\ \A order \in Orders(shared) :
       Moves({SharedPermute(shared, order)}, shared,
             LAMBDA i : [d \in DOMAIN i |-> i[CHOOSE j \in DOMAIN i : order[j] = d]])
  /\ \A s \in {s \in SharedShapes : Product(s) = Product(shared.shape)} :
       Moves({SharedReshape(shared, s)}, shared,
             LAMBDA i : IndexDeserialize(IndexSerialize(i, s), shared.shape))
  /\ \A d \in 1..(Len(shared.shape) + 1) :
       Moves({SharedUnsqueeze(shared, d)}, shared, LAMBDA i : RemoveAt(i, d))
  /\ SwizzleSpreads
=============================================================================
