-------------------------- MODULE RegisterLayouts --------------------------
(***************************************************************************)
(* The algebra of register layouts (ir/layout/register_layout.py and        *)
(* ir/layout/ops/register_ops.py).  A layout places the elements of a       *)
(* tensor in the registers of threads: the shape is split into modes, and   *)
(* the number of a thread (spatial) and of a register (local) are made of   *)
(* the indices of the modes they list.  A negative spatial mode -n stands   *)
(* for n threads that hold the same data.                                   *)
(*                                                                         *)
(* The state is one layout, built from the elementary ones by one operation *)
(* after another; where an operation raises, it has no result.  Dimensions  *)
(* and modes are numbered from 1.                                           *)
(***************************************************************************)
EXTENDS Indices, FiniteSets, Arith

CONSTANTS
  Shapes,       \* shapes of the elementary layouts, and to reshape to
  Workers,      \* numbers of threads for them
  MaxSize,      \* bound on the elements of a tensor
  MaxThreads,   \* bound on the threads of a layout
  MaxRank,      \* bound on its dimensions
  MaxModes      \* bound on its spatial modes

\* A dimension has an element, and there is a thread.
ASSUME RegisterAssumption == Shapes \subseteq Seq(Nat \ {0}) /\ Workers \subseteq Nat \ {0}

VARIABLE layout

Raise == [raised |-> TRUE]

Modes(l) == DOMAIN l.mode_shape
Groups(l) == GetModeGroups(l.shape, l.mode_shape)
SpatialShape(l) ==
  [i \in DOMAIN l.spatial_modes |->
     IF l.spatial_modes[i] < 0 THEN -l.spatial_modes[i] ELSE l.mode_shape[l.spatial_modes[i]]]
LocalShape(l) == [i \in DOMAIN l.local_modes |-> l.mode_shape[l.local_modes[i]]]
SpatialSize(l) == Product(SpatialShape(l))
LocalSize(l) == Product(LocalShape(l))

-----------------------------------------------------------------------------
(* Where an element is, and which element is where.                          *)

GetSpatial(l, g) ==
  LET index == ModeIndex(g, l.shape, l.mode_shape)
  IN  {IndexSerialize(s, SpatialShape(l)) :
         s \in {s \in Indexes(SpatialShape(l)) :
                  \A i \in DOMAIN s : l.spatial_modes[i] > 0 => s[i] = index[l.spatial_modes[i]]}}

GetLocal(l, g) ==
  LET index == ModeIndex(g, l.shape, l.mode_shape)
  IN  IndexSerialize([i \in DOMAIN l.local_modes |-> index[l.local_modes[i]]], LocalShape(l))

GetGlobal(l, spatial, local) ==
  LET s == IndexDeserialize(spatial, SpatialShape(l))
      r == IndexDeserialize(local, LocalShape(l))
      index(m) == IF \E i \in DOMAIN s : l.spatial_modes[i] = m
                  THEN s[SelectInSeq(l.spatial_modes, LAMBDA x : x = m)]
                  ELSE IF \E i \in DOMAIN r : l.local_modes[i] = m
                       THEN r[SelectInSeq(l.local_modes, LAMBDA x : x = m)]
                       ELSE 0
      groups == Groups(l)
  IN  [d \in DOMAIN l.shape |->
         IndexSerialize([i \in DOMAIN groups[d] |-> index(groups[d][i])],
                        [i \in DOMAIN groups[d] |-> l.mode_shape[groups[d][i]]])]

LocateAt(l, g, spatial) ==
  LET index == ModeIndex(g, l.shape, l.mode_shape)
      s == IndexDeserialize(spatial, SpatialShape(l))
  IN  \A i \in DOMAIN s : l.spatial_modes[i] > 0 => index[l.spatial_modes[i]] = s[i]

-----------------------------------------------------------------------------
(* The canonical form.                                                       *)

Renamed(modes, f(_)) == [i \in DOMAIN modes |-> IF modes[i] < 0 THEN modes[i] ELSE f(modes[i])]

\* The layout of the modes kept, numbered anew.
Keep(l, kept) ==
  LET new(m) == Cardinality({k \in kept : k <= m})
      of(modes) == Renamed(Sifted(modes, {i \in DOMAIN modes : modes[i] < 0 \/ modes[i] \in kept}), new)
  IN  [shape |-> l.shape, mode_shape |-> Sifted(l.mode_shape, kept),
       spatial_modes |-> of(l.spatial_modes), local_modes |-> of(l.local_modes)]

CanonicalizeSingletons(l) == Keep(l, {m \in Modes(l) : l.mode_shape[m] > 1})

\* Mutant: two modes of one part are merged in any order.
FollowsIn_AnyOrder(modes, m) == {m - 1, m} \subseteq Range(modes)

\* A mode is behind the one before it in a list.
FollowsIn(modes, m) == \E i \in 1..(Len(modes) - 1) : modes[i] = m - 1 /\ modes[i + 1] = m

\* Mutant: the last mode of a dimension and the first of the next are merged.
Follows_AcrossDimensions(l, m) == FollowsIn(l.spatial_modes, m) \/ FollowsIn(l.local_modes, m)

\* A mode follows the one before it in the shape, and among the threads or the registers.
Follows(l, m) ==
  /\ \E d \in DOMAIN l.shape : {m - 1, m} \subseteq Range(Groups(l)[d])
  /\ FollowsIn(l.spatial_modes, m) \/ FollowsIn(l.local_modes, m)

CanonicalizeContiguous(l) ==
  LET heads == {m \in Modes(l) : ~Follows(l, m)}
      run(m) == {k \in Modes(l) : k >= m /\ \A h \in heads : h > m => k < h}
      size(m) == Product(SubSeq(l.mode_shape, m, m + Cardinality(run(m)) - 1))
  IN  Keep([l EXCEPT !.mode_shape = [m \in Modes(l) |-> size(m)]], heads)

CanonicalizeLayout(l) == With(CanonicalizeSingletons(l), CanonicalizeContiguous)

\* The modes of the threads, then those of the registers.
Listed(l) == l.spatial_modes \o l.local_modes

ValidateLayout(l) ==
  /\ Splits(l.shape, l.mode_shape)
  /\ \A i \in DOMAIN Listed(l) : Listed(l)[i] > 0 => Listed(l)[i] \in Modes(l)
  /\ \A i, j \in DOMAIN Listed(l) : Listed(l)[i] = Listed(l)[j] /\ Listed(l)[i] > 0 => i = j

RegisterLayout(shape, modeShape, spatial, local) ==
  With([shape |-> shape, mode_shape |-> modeShape, spatial_modes |-> spatial, local_modes |-> local],
       LAMBDA l : IF ValidateLayout(l) THEN CanonicalizeLayout(l) ELSE Raise)

\* The same layout with its dimensions of size 1 placed differently.
WithShape(l, shape) == [l EXCEPT !.shape = shape]

-----------------------------------------------------------------------------
(* The elementary layouts: the dimensions in an order, the outermost first.   *)

Spatial(shape, order) == RegisterLayout(shape, shape, order, <<>>)
Local(shape, order) == RegisterLayout(shape, shape, <<>>, order)
RowOrder(shape) == [i \in DOMAIN shape |-> i]
ColumnOrder(shape) == Reverse(RowOrder(shape))

-----------------------------------------------------------------------------
(* The operations.                                                           *)

Unsqueeze(l, n) == WithShape(l, [i \in 1..n |-> 1] \o l.shape)

Squeeze(l, dims) ==
  IF \E d \in dims : l.shape[d] # 1 THEN Raise
  ELSE WithShape(l, Sifted(l.shape, DOMAIN l.shape \ dims))

\* Both with the dimensions of the one that has more.
Aligned(l, other) == Unsqueeze(l, IF Len(other.shape) > Len(l.shape)
                                  THEN Len(other.shape) - Len(l.shape) ELSE 0)

ModeSizes(l, group) == [i \in DOMAIN group |-> l.mode_shape[group[i]]]

Compose(a, b) ==
  LET outer == Aligned(a, b)
      inner == Aligned(b, a)
      og == Groups(outer)
      ig == Groups(inner)
      before(groups, d) == IF d = 0 THEN 0 ELSE Len(Flat(SubSeq(groups, 1, d)))
      dim(groups, m) == CHOOSE d \in DOMAIN groups : m \in Range(groups[d])
      outerMap(m) == m + before(ig, dim(og, m) - 1)
      innerMap(m) == m + before(og, dim(ig, m))
  IN  RegisterLayout(
        [d \in DOMAIN og |-> outer.shape[d] * inner.shape[d]],
        Flat([d \in DOMAIN og |-> ModeSizes(outer, og[d]) \o ModeSizes(inner, ig[d])]),
        Renamed(outer.spatial_modes, outerMap) \o Renamed(inner.spatial_modes, innerMap),
        Renamed(outer.local_modes, outerMap) \o Renamed(inner.local_modes, innerMap))

Replicated(shape, workers) ==
  Compose([shape |-> <<>>, mode_shape |-> <<>>, spatial_modes |-> <<-workers>>, local_modes |-> <<>>],
          Local(shape, RowOrder(shape)))

Permute(l, dims) ==
  LET order == Flat([i \in DOMAIN dims |-> Groups(l)[dims[i]]])
      new(m) == SelectInSeq(order, LAMBDA k : k = m)
  IN  RegisterLayout([i \in DOMAIN dims |-> l.shape[dims[i]]], ModeSizes(l, order),
                     Renamed(l.spatial_modes, new), Renamed(l.local_modes, new))

\* A reduced mode of the threads becomes a replicated one.
Reduce(l, dims, keepdims) ==
  LET gone == UNION {Range(Groups(l)[d]) : d \in dims}
      r == Keep([l EXCEPT !.spatial_modes =
                   [i \in DOMAIN @ |-> IF @[i] \in gone THEN -l.mode_shape[@[i]] ELSE @[i]]],
                Modes(l) \ gone)
      ones == [d \in DOMAIN l.shape |-> IF d \in dims THEN 1 ELSE l.shape[d]]
  IN  RegisterLayout(IF keepdims THEN ones ELSE Sifted(l.shape, DOMAIN l.shape \ dims),
                     r.mode_shape, r.spatial_modes, r.local_modes)

\* The dimensions that are not in the shape go, those that are 1 there become 1.
ReduceTo(l, shape) ==
  LET diff == Len(l.shape) - Len(shape)
      ones == {d \in DOMAIN l.shape : d > diff /\ l.shape[d] # shape[d - diff]}
  IN  IF \E d \in ones : shape[d - diff] # 1 THEN Raise
      ELSE With(IF ones = {} THEN l ELSE Reduce(l, ones, TRUE),
                LAMBDA kept : IF diff <= 0 \/ kept = Raise THEN kept ELSE Reduce(kept, 1..diff, FALSE))

Concat(l, r) ==
  LET shift(m) == m + Len(l.mode_shape)
  IN  RegisterLayout(l.shape \o r.shape, l.mode_shape \o r.mode_shape,
                     l.spatial_modes \o Renamed(r.spatial_modes, shift),
                     l.local_modes \o Renamed(r.local_modes, shift))

\* The modes split further, in place.
LayoutWithModeShape(l, modeShape) ==
  LET pieces == GetModeGroups(l.mode_shape, modeShape)
      split(modes) == Flat([i \in DOMAIN modes |->
                        IF modes[i] < 0 THEN <<modes[i]>> ELSE pieces[modes[i]]])
  IN  [shape |-> l.shape, mode_shape |-> modeShape,
       spatial_modes |-> split(l.spatial_modes), local_modes |-> split(l.local_modes)]

\* Cuts the modes where the new shape cuts them.
ReshapeAt(canonical, cuts, shape) ==
  LET steps == 1..(Len(cuts) - 1)
  IN  IF \E i \in steps : cuts[i + 1] % cuts[i] # 0 THEN Raise
      ELSE With(LayoutWithModeShape(canonical, [i \in steps |-> cuts[i + 1] \div cuts[i]]),
                LAMBDA fine : RegisterLayout(shape, fine.mode_shape, fine.spatial_modes, fine.local_modes))

Reshape(l, shape) ==
  IF Product(l.shape) # Product(shape) THEN Raise
  ELSE With(CanonicalizeLayout(l), LAMBDA canonical :
         ReshapeAt(canonical, InOrder(Cuts(canonical.mode_shape) \cup Cuts(shape)), shape))

Flatten(l, first, last) ==
  LET end == IF last < 0 THEN Len(l.shape) + last ELSE last   \* both counted from 0
  IN  Reshape(l, SubSeq(l.shape, 1, first) \o <<Product(SubSeq(l.shape, first + 1, end))>>
                 \o SubSeq(l.shape, end + 1, Len(l.shape)))

-----------------------------------------------------------------------------
(* Division.                                                                 *)

\* The sizes of the modes of a dimension, the first one to match split in two.
SplitAt(sizes, i, divisor) ==
  IF divisor = <<>> \/ i \notin DOMAIN sizes THEN sizes
  ELSE IF sizes[i] = divisor[1] \/ sizes[i] % divisor[1] # 0 THEN sizes
  ELSE SubSeq(sizes, 1, i - 1) \o <<sizes[i] \div divisor[1], divisor[1]>>
       \o SubSeq(sizes, i + 1, Len(sizes))

\* What is left of the layout without some of its modes.
WithoutMode(l, shape, gone, spatial, local) ==
  LET r == Keep([l EXCEPT !.spatial_modes = spatial, !.local_modes = local], Modes(l) \ gone)
  IN  RegisterLayout(shape, r.mode_shape, r.spatial_modes, r.local_modes)

\* The modes of rhs at the end of every dimension of a layout cut to match, and what remains.
TailPlaces(fine, groups) ==
  Flat([d \in DOMAIN groups |->
    With(Groups(fine)[d], LAMBDA g : SubSeq(g, Len(g) - Len(groups[d]) + 1, Len(g)))])

DivideFine(fine, rhs, places, shape) ==
  LET cut(modes, tail) == SubSeq(modes, 1, Len(modes) - Len(tail))
  IN  IF \/ ~IsSuffix(Renamed(rhs.spatial_modes, LAMBDA m : places[m]), fine.spatial_modes)
         \/ ~IsSuffix(Renamed(rhs.local_modes, LAMBDA m : places[m]), fine.local_modes) THEN Raise
      ELSE WithoutMode(fine, shape, Range(places), cut(fine.spatial_modes, rhs.spatial_modes),
                   cut(fine.local_modes, rhs.local_modes))

DivideSizes(l, rhs, groups, sizes) ==
  IF \E d \in DOMAIN groups : ~IsSuffix(ModeSizes(rhs, groups[d]), sizes[d]) THEN Raise
  ELSE With(LayoutWithModeShape(l, Flat(sizes)), LAMBDA fine :
         DivideFine(fine, rhs, TailPlaces(fine, groups), [d \in DOMAIN groups |-> l.shape[d] \div rhs.shape[d]]))

DivideGroups(l, rhs, lg, rg) ==
  LET extra(d) == Len(lg[d]) - Len(rg[d])
  IN  IF \E d \in DOMAIN rg : extra(d) < 0 THEN Raise
      ELSE DivideSizes(l, rhs, rg,
             [d \in DOMAIN rg |-> SplitAt(ModeSizes(l, lg[d]), extra(d) + 1, ModeSizes(rhs, rg[d]))])

\* lhs = Compose(the result, rhs).
Divide(lhs, rhs) ==
  IF Len(lhs.shape) < Len(rhs.shape) THEN Raise
  ELSE With(<<CanonicalizeLayout(lhs), CanonicalizeLayout(Aligned(rhs, lhs))>>,
            LAMBDA c : DivideGroups(c[1], c[2], Groups(c[1]), Groups(c[2])))

\* The same at the beginning of every dimension.
HeadPlaces(fine, groups) ==
  Flat([d \in DOMAIN groups |-> SubSeq(Groups(fine)[d], 1, Len(groups[d]))])

LeftDivideFine(fine, div, places, shape) ==
  LET cut(modes, head) == SubSeq(modes, Len(head) + 1, Len(modes))
  IN  IF \/ ~IsPrefix(Renamed(div.spatial_modes, LAMBDA m : places[m]), fine.spatial_modes)
         \/ ~IsPrefix(Renamed(div.local_modes, LAMBDA m : places[m]), fine.local_modes) THEN Raise
      ELSE WithoutMode(fine, shape, Range(places), cut(fine.spatial_modes, div.spatial_modes),
                   cut(fine.local_modes, div.local_modes))

LeftDivideSizes(l, div, groups, sizes) ==
  IF \E d \in DOMAIN groups : ~IsPrefix(ModeSizes(div, groups[d]), sizes[d]) THEN Raise
  ELSE With(LayoutWithModeShape(l, Flat(sizes)), LAMBDA fine :
         LeftDivideFine(fine, div, HeadPlaces(fine, groups), [d \in DOMAIN groups |-> l.shape[d] \div div.shape[d]]))

LeftDivideGroups(l, div, lg, dg) ==
  LET split(s, by) == IF s = <<>> \/ by = <<>> THEN s
                      ELSE IF s[1] = by[1] \/ s[1] % by[1] # 0 THEN s
                      ELSE <<by[1], s[1] \div by[1]>> \o Tail(s)
  IN  LeftDivideSizes(l, div, dg, [d \in DOMAIN dg |-> split(ModeSizes(l, lg[d]), ModeSizes(div, dg[d]))])

\* l0 = Compose(divisor, the result).
LeftDivide(l0, divisor) ==
  IF Len(l0.shape) < Len(divisor.shape) THEN Raise
  ELSE With(<<CanonicalizeLayout(l0), CanonicalizeLayout(Aligned(divisor, l0))>>,
            LAMBDA c : LeftDivideGroups(c[1], c[2], Groups(c[1]), Groups(c[2])))

-----------------------------------------------------------------------------
\* The threads left when the innermost k dimensions have theirs.
ThreadsLeft(numThreads, shape, k) ==
  LET left[j \in 0..k] ==
        IF j = 0 THEN numThreads
        ELSE left[j - 1] \div Gcd({left[j - 1], shape[Len(shape) + 1 - j]})
  IN  left[k]

\* As many threads as divide the innermost dimensions, the rest of them replicated.
AutoLocalSpatial(numThreads, shape) ==
  LET left(k) == ThreadsLeft(numThreads, shape, k)
      threads == [d \in DOMAIN shape |-> Gcd({left(Len(shape) - d), shape[d]})]
      rest == left(Len(shape))
  IN  IF ~(Divides(numThreads, Product(shape)) \/ Divides(Product(shape), numThreads)) THEN Raise
      ELSE With(Compose(Local([d \in DOMAIN shape |-> shape[d] \div threads[d]], RowOrder(shape)),
                        Spatial(threads, RowOrder(shape))),
                LAMBDA ret : IF rest = 1 \/ ret = Raise THEN ret
                             ELSE RegisterLayout(ret.shape, ret.mode_shape,
                                                 <<-rest>> \o ret.spatial_modes, ret.local_modes))

-----------------------------------------------------------------------------
(* One layout after another.                                                 *)

Elementary ==
  (UNION {{Spatial(s, RowOrder(s)), Spatial(s, ColumnOrder(s)),
           Local(s, RowOrder(s)), Local(s, ColumnOrder(s))}
          \cup UNION {{Replicated(s, n), AutoLocalSpatial(n, s)} : n \in Workers} : s \in Shapes})
  \ {Raise}

Dims(l) == DOMAIN l.shape

WithinBounds(l) ==
  /\ l # Raise
  /\ Product(l.shape) <= MaxSize /\ SpatialSize(l) <= MaxThreads
  /\ Len(l.shape) <= MaxRank /\ Len(l.spatial_modes) <= MaxModes

Becomes(l) == WithinBounds(l) /\ layout' = l

RegisterInit == layout \in Elementary

RegisterNext ==
  \/ \E e \in Elementary : Becomes(Compose(layout, e)) \/ Becomes(Compose(e, layout))
  \/ \E e \in Elementary : Becomes(Concat(layout, e))
  \/ \E e \in Elementary : Becomes(Divide(layout, e)) \/ Becomes(LeftDivide(layout, e))
  \/ \E dims \in SUBSET Dims(layout), keep \in BOOLEAN : Becomes(Reduce(layout, dims, keep))
  \/ \E dims \in SUBSET Dims(layout) : Becomes(Squeeze(layout, dims))
  \/ Becomes(Permute(layout, ColumnOrder(layout.shape)))
  \/ \E s \in Shapes : Becomes(Reshape(layout, s)) \/ Becomes(ReduceTo(layout, s))
  \/ Dims(layout) # {} /\ Becomes(Flatten(layout, 0, -1))

RegisterSpec == RegisterInit /\ [][RegisterNext]_layout

-----------------------------------------------------------------------------
(* Properties.                                                               *)

Threads(l) == 0..(SpatialSize(l) - 1)
Registers(l) == 0..(LocalSize(l) - 1)

\* The element in every register of every thread.
Elements(l) == [s \in Threads(l) |-> [x \in Registers(l) |-> GetGlobal(l, s, x)]]

SameRegisters(r, l, of(_)) ==
  /\ Threads(r) = Threads(l) /\ Registers(r) = Registers(l)
  /\ Elements(r) = [s \in Threads(l) |-> [x \in Registers(l) |-> of(GetGlobal(l, s, x))]]

\* What the methods of a layout rely on: it is valid, no mode is of size 1, and, what
\* validate_layout leaves to the operations, every mode is among the threads or the registers.
WellFormedLayout(l) ==
  /\ l \in [shape : Seq(Nat \ {0}), mode_shape : Seq(Nat \ {0, 1}),
             spatial_modes : Seq(Int \ {0}), local_modes : Seq(Nat \ {0})]
  /\ ValidateLayout(l)
  /\ Modes(l) \subseteq Range(Listed(l))

\* The threads are found from the element and the element from the threads.
Consistent(l) ==
  /\ \A g \in Indexes(l.shape) :
       /\ GetSpatial(l, g) = {s \in Threads(l) : LocateAt(l, g, s)}
       /\ \A s \in GetSpatial(l, g) : GetGlobal(l, s, GetLocal(l, g)) = g
  /\ \A s \in Threads(l), x \in Registers(l) :
       LET g == GetGlobal(l, s, x) IN s \in GetSpatial(l, g) /\ GetLocal(l, g) = x

\* The layout reached, whichever operations made it, is well-formed and its two directions
\* agree: a kernel that finds the thread of an element and one that finds the element of a
\* thread mean the same place.
LayoutIsRight == WellFormedLayout(layout) /\ Consistent(layout)

\* Every thread of the outer layout is a group of threads of the inner one.
IsComposition(r, a, b) ==
  LET outer == Aligned(a, b)
      inner == Aligned(b, a)
      big == Elements(outer)
      small == Elements(inner)
      threads == SpatialSize(inner)
      locals == LocalSize(inner)
      place(i, j) == [d \in DOMAIN i |-> i[d] * inner.shape[d] + j[d]]
  IN  /\ SpatialSize(r) = SpatialSize(outer) * threads /\ LocalSize(r) = LocalSize(outer) * locals
      /\ Elements(r) = [s \in Threads(r) |-> [x \in Registers(r) |->
                         place(big[s \div threads][x \div locals], small[s % threads][x % locals])]]

\* The threads that hold an element of the result held an element it stands for.
IsReduction(r, l, dims) ==
  LET forget(g) == [d \in DOMAIN g |-> IF d \in dims THEN 0 ELSE g[d]]
      held == [h \in Indexes(l.shape) |-> GetSpatial(l, h)]
  IN  /\ SpatialSize(r) = SpatialSize(l)
      /\ \A g \in Indexes(r.shape) :
           GetSpatial(r, g) = UNION {held[h] : h \in {h \in DOMAIN held : forget(h) = g}}

ComposedRight(r, l, e) ==
  /\ r # Raise
  /\ WithinBounds(r) => IsComposition(r, l, e) /\ Divide(r, e) = CanonicalizeLayout(Aligned(l, e))

ConcatenatedRight(r, l, e) ==
  /\ r # Raise
  /\ WithinBounds(r) => IsComposition(r, WithShape(l, l.shape \o [d \in Dims(e) |-> 1]), e)

ReshapedRight(r, l, s) ==
  r # Raise => SameRegisters(r, l, LAMBDA g : IndexDeserialize(IndexSerialize(g, l.shape), s))

\* What the operations promise (their docstrings in ops/register_ops.py) of the layout
\* reached and of every elementary one: the element in each register after a composition,
\* a permutation, a concatenation or a reshape; the threads that hold it after a reduction;
\* the quotient of a division composed again.  A composition can be taken apart again:
\* Divide finds the outer layout.
OperationsRight ==
  /\ \A e \in Elementary :
       /\ ComposedRight(Compose(layout, e), layout, e)
       /\ ConcatenatedRight(Concat(layout, e), layout, e)
       /\ With(Divide(layout, e), LAMBDA r : r # Raise => IsComposition(layout, r, e))
       /\ With(LeftDivide(layout, e), LAMBDA r : r # Raise => IsComposition(layout, e, r))
  /\ SameRegisters(Permute(layout, ColumnOrder(layout.shape)), layout, Reverse)
  /\ \A s \in Shapes : ReshapedRight(Reshape(layout, s), layout, s)
  /\ \A dims \in SUBSET Dims(layout) : IsReduction(Reduce(layout, dims, TRUE), layout, dims)

=============================================================================
