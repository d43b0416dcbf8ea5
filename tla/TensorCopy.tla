----------------------------- MODULE TensorCopy -----------------------------
(***************************************************************************)
(* Host tensor <-> device buffer copies: layout_manager.cpp picks the      *)
(* device layout of a shape, and CopyTensors of tensor_util.cpp copies the *)
(* elements between the host (descending) layout and the device layout.   *)
(*                                                                         *)
(* When the two layouts differ, CopyTensors slices the largest dimension   *)
(* other than the strided-copy dimension into CopyPartitions and runs one  *)
(* SlicedCopy closure per partition on the thread pool. A SlicedCopy step  *)
(* is one StridedCopy of a row along iter_dims[0], followed by the index  *)
(* odometer over the other iteration dimensions.                           *)
(*                                                                         *)
(* Vectors indexed by dimension are functions on 0..rank-1, as in the      *)
(* code. An element is named by its flat offset in the source buffer; the *)
(* destination buffer maps each offset to the source offset copied there. *)
(***************************************************************************)
EXTENDS Integers, Sequences, FiniteSetsExt, Functions

CONSTANTS
    DimsSet,            \* tensor dimensions tried, as sequences
    Kinds,              \* device hw_type values tried
    LayoutEnvs,         \* XLA_LAYOUTS values: sequences of [dims, layout]
    MaxParts,           \* hardware_concurrency() / 2, at least 1
    MinThreadElements,  \* kMinThreadElements
    MinorDimScale,      \* kMinorDimScale
    PadMinor,           \* the most minor dimension's padding in MakeTpuShape
    PadSecondMinor,     \* the second most minor dimension's padding
    MaxPaddingFactor,   \* XLA_MAX_PADDING_FACTOR, as <<numerator, denominator>>
    None

ASSUME MaxParts >= 1 /\ MinorDimScale >= 1

Vec(s) == [i \in 0..(Len(s) - 1) |-> s[i + 1]]

VARIABLES
    dims,     \* the tensor's dimensions
    kind,     \* the device's hw_type
    dir,      \* "to_device" (TensorToBuffer) or "to_host" (XlaLiteralToTensor)
    env,      \* XLA_LAYOUTS
    layouts,  \* LayoutManager's layouts_: the registered entries, in order
    pc,       \* "populate", "shape", "copy", "done" or "error"
    layout,   \* the device shape's minor_to_major
    parts,    \* the CopyPartitions, <<>> unless the sliced copy runs
    idx,      \* idx[k]: the indices of partition k's SlicedCopy
    fin,      \* the partitions whose SlicedCopy has returned
    dest,     \* dest[o]: the source offset copied to offset o, or None
    writes    \* writes[o]: how many stores hit destination offset o

vars == <<dims, kind, dir, env, layouts, pc, layout, parts, idx, fin, dest, writes>>

R == Cardinality(DOMAIN dims)

Ax == 0..(R - 1)

Perms == {f \in [Ax -> Ax] : IsInjective(f)}

Total == FoldFunction(LAMBDA a, b : a * b, 1, dims)

Offsets == 0..(Total - 1)

\* MakeSwiftTensorLayout: the descending layout, minor_to_major R-1..0.
Descending == [i \in Ax |-> R - 1 - i]

SrcLayout == IF dir = "to_device" THEN Descending ELSE layout

DestLayout == IF dir = "to_device" THEN layout ELSE Descending

-----------------------------------------------------------------------------
(* Layout selection, layout_manager.cpp                                     *)

\* ParseLayout's XLA_CHECKs: rank entries, each in [0, rank), all distinct.
ParseLayout(e) ==
    /\ Len(e.layout) = Len(e.dims)
    /\ \A i \in DOMAIN e.layout : 0 <= e.layout[i] /\ e.layout[i] < Len(e.dims)
    /\ Cardinality(Range(e.layout)) = Len(e.dims)

\* LayoutManager::GetLayout: layouts_.emplace keeps the first entry of a shape.
GetLayout(d) ==
    LET hits == {i \in DOMAIN layouts : Vec(layouts[i].dims) = d}
    IN IF hits = {} THEN None ELSE Vec(layouts[Min(hits)].layout)

\* PaddingFactor(size, padding) as <<numerator, denominator>>.
PaddingFactor(size, padding) ==
    LET rem == size % padding
    IN IF rem > 0 THEN <<size + padding - rem, size>> ELSE <<1, 1>>

\* MakeShapeWithSortedLayout: std::sort of R-1..0 by decreasing dimension.
\* std::sort is not stable, so equal dimensions may come in any order.
SortedLayouts == {l \in Perms : \A i \in 0..(R - 2) : dims[l[i]] >= dims[l[i + 1]]}

\* MakeTpuShape: the descending layout unless padding the two minor
\* dimensions would waste at least XLA_MAX_PADDING_FACTOR.
MakeTpuShape ==
    LET a == PaddingFactor(dims[R - 1], PadMinor)
        b == PaddingFactor(dims[R - 2], PadSecondMinor)
    IN IF a[1] * b[1] * MaxPaddingFactor[2] < MaxPaddingFactor[1] * a[2] * b[2]
       THEN {Descending} ELSE SortedLayouts

\* MakeArrayShapeFromDimensions: an XLA_LAYOUTS entry, else the TPU policy
\* for rank > 1, else the descending layout.
MakeArrayShapeFromDimensions ==
    CASE GetLayout(dims) # None -> {GetLayout(dims)}
      [] R > 1 /\ kind = "TPU"  -> MakeTpuShape
      [] OTHER                  -> {Descending}

-----------------------------------------------------------------------------
(* The sliced copy, tensor_util.cpp                                         *)

\* ComputeShapeStrides: stride of dimension l[k] is the product of the
\* dimensions more minor than it.
ComputeShapeStrides(l) ==
    [d \in Ax |-> LET k == CHOOSE k \in Ax : l[k] = d
                  IN FoldFunctionOnSet(LAMBDA a, b : a * b, 1,
                                       [j \in Ax |-> dims[l[j]]], 0..(k - 1))]

\* GetFlatTensorOffset.
Offset(strides, v) == FoldFunctionOnSet(+, 0, [d \in Ax |-> v[d] * strides[d]], Ax)

\* The loop of GetIterationDimensions: the position of the dimension that
\* becomes the core iteration dimension.
RECURSIVE IterIndex(_, _, _, _)
IterIndex(l, i, index, scaled) ==
    IF i = R THEN index
    ELSE IF dims[l[i]] > scaled THEN IterIndex(l, i + 1, i, dims[l[i]])
         ELSE IterIndex(l, i + 1, index, scaled)

GetIterationDimensions(l) ==
    LET index == IterIndex(l, 1, 0, MinorDimScale * dims[l[0]])
    IN [l EXCEPT ![0] = l[index], ![index] = l[0]]

\* Mutant: the partition count is rounded down, dropping a short last part.
CreateCopyPartitionsFloor(strided) ==
    LET others == Ax \ {strided}
        max == CHOOSE i \in others : /\ \A j \in others : dims[j] <= dims[i]
                                     /\ \A j \in others : j < i => dims[j] < dims[i]
        size == dims[max]
        ps == Max({Max({size \div MaxParts, 1}), MinThreadElements \div (Total \div size)})
    IN [k \in 1..(size \div ps) |->
          [base |-> [d \in Ax |-> IF d = max THEN (k - 1) * ps ELSE 0],
           limit |-> [dims EXCEPT ![max] = Min({k * ps, size})]]]

(* CreateCopyPartitions: max_dim is the first largest dimension other than *)
(* the strided one; the while loop cuts it into pieces of part_size.       *)
CreateCopyPartitions(strided) ==
    LET others == Ax \ {strided}
        max == CHOOSE i \in others : /\ \A j \in others : dims[j] <= dims[i]
                                     /\ \A j \in others : j < i => dims[j] < dims[i]
        size == dims[max]
        ps == Max({Max({size \div MaxParts, 1}), MinThreadElements \div (Total \div size)})
    IN [k \in 1..((size + ps - 1) \div ps) |->
          [base |-> [d \in Ax |-> IF d = max THEN (k - 1) * ps ELSE 0],
           limit |-> [dims EXCEPT ![max] = Min({k * ps, size})]]]

IterDims == GetIterationDimensions(DestLayout)

\* Mutant: a wrapped index restarts at 0 instead of the partition's base.
RECURSIVE AdvanceFromZero(_, _, _)
AdvanceFromZero(p, v, n) ==
    IF n = R THEN None
    ELSE LET d == IterDims[n]
         IN IF v[d] + 1 < p.limit[d] THEN [v EXCEPT ![d] = v[d] + 1]
            ELSE AdvanceFromZero(p, [v EXCEPT ![d] = 0], n + 1)

\* The odometer at the end of a SlicedCopy iteration; None ends the loop.
RECURSIVE Advance(_, _, _)
Advance(p, v, n) ==
    IF n = R THEN None
    ELSE LET d == IterDims[n]
         IN IF v[d] + 1 < p.limit[d] THEN [v EXCEPT ![d] = v[d] + 1]
            ELSE Advance(p, [v EXCEPT ![d] = p.base[d]], n + 1)

\* StridedCopy of one row: source and destination both step along
\* iter_dims[0] for dims[iter_dims[0]] elements.
Row(v) ==
    LET f == IterDims[0]
        ss == ComputeShapeStrides(SrcLayout)
        ds == ComputeShapeStrides(DestLayout)
    IN {<<Offset(ds, v) + j * ds[f], Offset(ss, v) + j * ss[f]>> : j \in 0..(dims[f] - 1)}

Store(row) ==
    /\ dest' = [o \in Offsets |-> IF \E w \in row : w[1] = o
                                  THEN (CHOOSE w \in row : w[1] = o)[2] ELSE dest[o]]
    /\ writes' = [o \in Offsets |-> writes[o] + Cardinality({w \in row : w[1] = o})]

TypeOK ==
    /\ dims \in {Vec(s) : s \in DimsSet}
    /\ kind \in Kinds
    /\ dir \in {"to_device", "to_host"}
    /\ pc \in {"populate", "shape", "copy", "sliced", "done", "error"}
    /\ layout \in Perms
    /\ idx \in [DOMAIN parts -> [Ax -> Nat]]
    /\ fin \subseteq DOMAIN parts
    /\ dest \in [Offsets -> Offsets \cup {None}]
    /\ writes \in [Offsets -> Nat]

Init ==
    /\ dims \in {Vec(s) : s \in DimsSet}
    /\ kind \in Kinds
    /\ dir \in {"to_device", "to_host"}
    /\ env \in LayoutEnvs
    /\ layouts = <<>>
    /\ pc = "populate"
    /\ layout = Descending
    /\ parts = <<>>
    /\ idx = <<>>
    /\ fin = {}
    /\ dest = [o \in Offsets |-> None]
    /\ writes = [o \in Offsets |-> 0]

-----------------------------------------------------------------------------
(* LayoutManager::Get's first call: PopulateLayouts parses XLA_LAYOUTS and *)
(* aborts on a malformed layout.                                            *)
PopulateLayouts ==
    /\ pc = "populate"
    /\ IF \A i \in DOMAIN env : ParseLayout(env[i])
       THEN layouts' = env /\ pc' = "shape"
       ELSE pc' = "error" /\ UNCHANGED layouts
    /\ UNCHANGED <<dims, kind, dir, env, layout, parts, idx, fin, dest, writes>>

(* The device shape: CreateComputationShapeFromTensor for an upload, the   *)
(* literal's device shape for a download; both MakeArrayShapeFromDimensions.*)
DeviceShape ==
    /\ pc = "shape"
    /\ \E l \in MakeArrayShapeFromDimensions : layout' = l
    /\ pc' = "copy"
    /\ UNCHANGED <<dims, kind, dir, env, layouts, parts, idx, fin, dest, writes>>

(* CopyTensors: a flat CopyData when the layouts agree; otherwise, for a    *)
(* non-empty tensor, one SlicedCopy closure per CopyPartition.              *)
CopyTensors ==
    /\ pc = "copy"
    /\ CASE SrcLayout = DestLayout ->
              /\ dest' = [o \in Offsets |-> o]
              /\ writes' = [o \in Offsets |-> writes[o] + 1]
              /\ pc' = "done"
              /\ UNCHANGED <<parts, idx>>
         [] Total > 0 ->
              /\ parts' = CreateCopyPartitions(IterDims[0])
              /\ idx' = [k \in DOMAIN parts' |-> parts'[k].base]
              /\ pc' = "sliced"
              /\ UNCHANGED <<dest, writes>>
         [] OTHER -> pc' = "done" /\ UNCHANGED <<parts, idx, dest, writes>>
    /\ UNCHANGED <<dims, kind, dir, env, layouts, layout, fin>>

(* One iteration of partition k's SlicedCopy: the StridedCopy of the row  *)
(* at its indices, then the odometer; the closure returns when it wraps.   *)
SlicedCopy(k) ==
    /\ pc = "sliced"
    /\ k \notin fin
    /\ Store(Row(idx[k]))
    /\ LET nxt == Advance(parts[k], idx[k], 1)
       IN IF nxt = None THEN fin' = fin \cup {k} /\ UNCHANGED idx
          ELSE idx' = [idx EXCEPT ![k] = nxt] /\ UNCHANGED fin
    /\ UNCHANGED <<dims, kind, dir, env, layouts, pc, layout, parts>>

\* mwait.Wait() for every partition's closure.
Wait ==
    /\ pc = "sliced"
    /\ fin = DOMAIN parts
    /\ pc' = "done"
    /\ UNCHANGED <<dims, kind, dir, env, layouts, layout, parts, idx, fin, dest, writes>>

Next ==
    \/ PopulateLayouts
    \/ DeviceShape
    \/ CopyTensors
    \/ \E k \in DOMAIN parts : SlicedCopy(k)
    \/ Wait

Spec == Init /\ [][Next]_vars

-----------------------------------------------------------------------------
(* Properties                                                              *)

\* The flat offset of index v in layout l, by Horner's rule from the most
\* major dimension: a reference definition independent of the strides.
RECURSIVE HornerOffset(_, _, _, _)
HornerOffset(l, v, k, acc) ==
    IF k < 0 THEN acc ELSE HornerOffset(l, v, k - 1, acc * dims[l[k]] + v[l[k]])

RefOffset(l, v) == HornerOffset(l, v, R - 1, 0)

Indices == {v \in [Ax -> 0..Max(Range(dims))] : \A d \in Ax : v[d] < dims[d]}

(* Whatever the layouts, the partitioning and the interleaving of the copy *)
(* closures, when CopyTensors returns every element of the source sits at *)
(* the place the destination layout gives its logical index.               *)
CopyPreservesElements ==
    pc = "done" =>
        \A v \in Indices : dest[RefOffset(DestLayout, v)] = RefOffset(SrcLayout, v)

(* The SlicedCopy closures run concurrently on the pool and write the      *)
(* destination buffer without a lock: no destination element is ever      *)
(* stored twice, so the partitions never race.                              *)
NoOverlappingWrites ==
    \A o \in Offsets : writes[o] <= 1
====
