-------------------------- MODULE MCTensorAllocator --------------------------
EXTENDS TensorAllocator, TLC

\* The calling threads are interchangeable: nothing in the allocator reads
\* a thread's identity.
MCSymmetry == Permutations(Threads)
====
