--------------------------- MODULE TensorAllocator ---------------------------
(***************************************************************************)
(* TensorAllocator of xrt_computation_client.cc: the caching allocator of  *)
(* the staging tensors TransferToServerInternal's converters fill, called *)
(* from the converters' pool threads.                                      *)
(*                                                                         *)
(* Blocks are cached per AllocKey (alignment, rounded size). alloc_list_  *)
(* orders the keys by last use, front first; TrimCache frees cached       *)
(* blocks from the least recently used key until the new block fits under  *)
(* max_size_. size_ counts every block the allocator has made and not     *)
(* freed, cached or held. Every operation runs under lock_, so each is one *)
(* step. Blocks of one key are interchangeable, so a key's cache and each *)
(* caller's holdings are counts.                                            *)
(***************************************************************************)
EXTENDS Integers, Sequences, SequencesExt, FiniteSetsExt, Functions

CONSTANTS
    Threads,      \* the calling threads
    Alignments,   \* requested alignments tried
    ByteSizes,    \* requested num_bytes tried
    PtrSize,      \* sizeof(void*)
    MaxSize,      \* XLA_TENSOR_ALLOCATOR_MAXSIZE
    HoldMax       \* the most blocks one thread holds at once

ASSUME PtrSize >= 1 /\ HoldMax >= 1

\* xla::util::RoundUpTo.
RoundUpTo(n, m) == ((n + m - 1) \div m) * m

\* The AllocKey AllocateRaw computes for a request.
KeyOf(a, n) ==
    LET al == Max({a, PtrSize})
    IN [alignment |-> al, num_bytes |-> RoundUpTo(n, al)]

Keys == {KeyOf(a, n) : a \in Alignments, n \in ByteSizes}

VARIABLES
    lst,     \* alloc_list_: the keys allocs_ knows, most recently used first
    cached,  \* cached[k]: the blocks on k's AllocBlocks vector
    held,    \* held[t][k]: the blocks of key k thread t holds
    total    \* size_

vars == <<lst, cached, held, total>>

Held(t) == SumFunctionOnSet(held[t], Keys)

TypeOK ==
    /\ lst \in Seq(Keys) /\ IsInjective(lst)
    /\ cached \in [Keys -> Nat]
    /\ held \in [Threads -> [Keys -> Nat]]
    /\ total \in Nat

Init ==
    /\ lst = <<>>
    /\ cached = [k \in Keys |-> 0]
    /\ held = [t \in Threads |-> [k \in Keys |-> 0]]
    /\ total = 0

-----------------------------------------------------------------------------
\* The inner while loop of TrimCache on key k: how many of its c cached
\* blocks are freed before size s plus the request nb fits.
Freed(k, c, s, nb) ==
    IF s + nb <= MaxSize THEN 0
    ELSE IF k.num_bytes = 0 THEN c
    ELSE Min({c, (s + nb - MaxSize + k.num_bytes - 1) \div k.num_bytes})

\* Mutant: FreeBlock does not subtract the freed block from size_.
RECURSIVE TrimNoSizeUpdate(_, _, _, _, _)
TrimNoSizeUpdate(l, i, c, s, nb) ==
    IF i = 0 \/ s + nb <= MaxSize THEN <<c, s>>
    ELSE LET k == l[i]
             m == Freed(k, c[k], s, nb)
         IN TrimNoSizeUpdate(l, i - 1, [c EXCEPT ![k] = @ - m], s, nb)

\* Mutant: only the least recently used key is trimmed.
RECURSIVE TrimLruOnly(_, _, _, _, _)
TrimLruOnly(l, i, c, s, nb) ==
    IF i = 0 \/ s + nb <= MaxSize THEN <<c, s>>
    ELSE LET k == l[i]
             m == Freed(k, c[k], s, nb)
         IN <<[c EXCEPT ![k] = @ - m], s - m * k.num_bytes>>

\* Mutant: the list is walked from its front, most recently used first.
RECURSIVE TrimMruFirst(_, _, _, _, _)
TrimMruFirst(l, i, c, s, nb) ==
    IF i = 0 \/ s + nb <= MaxSize THEN <<c, s>>
    ELSE LET k == l[Len(l) + 1 - i]
             m == Freed(k, c[k], s, nb)
         IN TrimMruFirst(l, i - 1, [c EXCEPT ![k] = @ - m], s - m * k.num_bytes, nb)

(* TrimCache(num_bytes): from alloc_list_.rbegin(), while size_ + nb       *)
(* exceeds max_size_, FreeBlock the cached blocks of each key in turn.     *)
(* Position i counts down from the back; the result is <<cached, size_>>. *)
RECURSIVE TrimCache(_, _, _, _, _)
TrimCache(l, i, c, s, nb) ==
    IF i = 0 \/ s + nb <= MaxSize THEN <<c, s>>
    ELSE LET k == l[i]
             m == Freed(k, c[k], s, nb)
         IN TrimCache(l, i - 1, [c EXCEPT ![k] = @ - m], s - m * k.num_bytes, nb)

\* Mutant: a known key is inserted at the front again instead of spliced.
AllocateRawInsertNoSplice(t, a, n) ==
    LET k == KeyOf(a, n)
        hit == k \in Range(lst) /\ cached[k] > 0
        l2 == <<k>> \o lst
        tr == TrimCache(l2, Len(l2), cached, total, k.num_bytes)
    IN /\ Held(t) < HoldMax
       /\ lst' = l2
       /\ IF hit
          THEN cached' = [cached EXCEPT ![k] = @ - 1] /\ UNCHANGED total
          ELSE cached' = tr[1] /\ total' = tr[2] + k.num_bytes
       /\ held' = [held EXCEPT ![t][k] = @ + 1]

(* AllocateRaw by thread t: a cached block of the key if there is one,     *)
(* else TrimCache then NewBlock. The key moves to (or is inserted at) the *)
(* front of alloc_list_ either way.                                         *)
AllocateRaw(t, a, n) ==
    LET k == KeyOf(a, n)
        hit == k \in Range(lst) /\ cached[k] > 0
        l2 == <<k>> \o SelectSeq(lst, LAMBDA x : x # k)
        tr == TrimCache(l2, Len(l2), cached, total, k.num_bytes)
    IN /\ Held(t) < HoldMax
       /\ lst' = l2
       /\ IF hit
          THEN cached' = [cached EXCEPT ![k] = @ - 1] /\ UNCHANGED total
          ELSE cached' = tr[1] /\ total' = tr[2] + k.num_bytes
       /\ held' = [held EXCEPT ![t][k] = @ + 1]

(* DeallocateRaw: the block goes back on its key's vector if the key's     *)
(* size is under max_size_, else FreeBlock releases it.                    *)
DeallocateRaw(t, k) ==
    /\ held[t][k] > 0
    /\ held' = [held EXCEPT ![t][k] = @ - 1]
    /\ IF k.num_bytes < MaxSize
       THEN cached' = [cached EXCEPT ![k] = @ + 1] /\ UNCHANGED total
       ELSE total' = total - k.num_bytes /\ UNCHANGED cached
    /\ UNCHANGED lst

Next ==
    \E t \in Threads :
        \/ \E a \in Alignments, n \in ByteSizes : AllocateRaw(t, a, n)
        \/ \E k \in Keys : DeallocateRaw(t, k)

Spec == Init /\ [][Next]_vars

-----------------------------------------------------------------------------
(* Properties                                                              *)

Blocks == SumFunctionOnSet([k \in Keys |-> cached[k] + SumFunctionOnSet([t \in Threads |-> held[t][k]], Threads)], Keys)

Bytes(k) == (cached[k] + SumFunctionOnSet([t \in Threads |-> held[t][k]], Threads)) * k.num_bytes

(* size_ is exactly the bytes of the blocks the allocator has made and not *)
(* freed, cached or in a caller's hands, across TrimCache's evictions and *)
(* DeallocateRaw's frees of oversized blocks.                               *)
SizeAccounting ==
    total = SumFunctionOnSet([k \in Keys |-> Bytes(k)], Keys)

\* A step in which AllocateRaw missed the cache for key k: a thread gains a
\* block of k that was not taken from k's cached blocks.
NewBlockFor(k) ==
    /\ \E t \in Threads : held'[t][k] > held[t][k]
    /\ cached'[k] = cached[k]

(* A new block is made only after the cache has been trimmed far enough:  *)
(* whenever AllocateRaw misses and makes a fresh block, however many       *)
(* blocks of however many keys TrimCache freed first, size_ with the new  *)
(* block is within max_size_ or no cached block of any key is left.       *)
TrimmedBeforeGrow ==
    [][\A k \in Keys : NewBlockFor(k) =>
          (total' <= MaxSize \/ \A j \in Keys : cached'[j] = 0)]_vars

(* TrimCache evicts in LRU order: when a step takes cached blocks of a key *)
(* that is not the one being allocated, every less recently used key has  *)
(* lost all its cached blocks.                                              *)
EvictsLeastRecentlyUsed ==
    [][\A i \in 2..Len(lst') :
          cached'[lst'[i]] < cached[lst'[i]] =>
              \A j \in (i + 1)..Len(lst') : cached'[lst'[j]] = 0]_vars
====
