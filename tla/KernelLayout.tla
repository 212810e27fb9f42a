---------------------------- MODULE KernelLayout ----------------------------
(***************************************************************************)
(* Where a kernel keeps registers (compiler/src/kernel/ast_kernel.cpp).    *)
(* Every warp and every thread has an area of 64 words in data memory,     *)
(* one word per register, filled downwards.  The areas are stacked upwards *)
(* from warp_offset: the last thread of the last warp is lowest.  Warps    *)
(* are a sequence of records with their size; an area is named <<w, t>>,   *)
(* with t = 0 for the warp's own.                                          *)
(***************************************************************************)
EXTENDS Integers, Sequences, FiniteSets

warp_size == 4
warp_offset == 15000
AreaBytes == 64 * 4
MaskSlot == 31
IdSlot == 29
ThreadIdSlot == 31
FlagSlot == 32

\* the warps of n threads
WarpsOf(n) ==
  LET warps == (n + warp_size - 1) \div warp_size
  IN [w \in 1 .. warps |->
        [id |-> w - 1, active |-> w = 1,
         size |-> IF w * warp_size <= n THEN warp_size ELSE n - (w - 1) * warp_size]]

Files(warps) == UNION {{<<w, t>> : t \in 0 .. warps[w].size} : w \in DOMAIN warps}

\* areas are handed out from the top: first a warp's own, then those of its threads
Precedes(f, g) == f[1] < g[1] \/ (f[1] = g[1] /\ f[2] <= g[2])

(***************************************************************************)
(* The top of an area: it and the areas that are handed out after it lie   *)
(* between warp_offset and its top.                                        *)
(***************************************************************************)
\* Mutant: the areas of threads are not counted.
PlaceOfWarps(warps, f) ==
  warp_offset + AreaBytes * (Cardinality({g \in Files(warps) : g[2] = 0 /\ Precedes(f, g)}) - f[2])

Place(warps, f) ==
  warp_offset + AreaBytes * Cardinality({g \in Files(warps) : Precedes(f, g)})

Slot(warps, f, i) == Place(warps, f) - 4 * (i + 1)

\* What li leaves of an address: 14 bits, extended by their sign.
Reach == 8192
Wrapped(a) == ((a + Reach) % (2 * Reach)) - Reach

\* The stack pointer that functions begin with; their frames lie above it.
StackBase == 4000

-----------------------------------------------------------------------------
(***************************************************************************)
(* No two registers of the warps and threads have the same word in memory. *)
(***************************************************************************)
Registers == 0 .. 63
SlotsApart(warps) ==
  \A f, g \in Files(warps) : \A i, j \in Registers :
    Wrapped(Slot(warps, f, i)) = Wrapped(Slot(warps, g, j)) => f = g /\ i = j

(***************************************************************************)
(* None of them has a word of the functions' frames.                       *)
(***************************************************************************)
SlotsBelowStack(warps) ==
  \A f \in Files(warps) : \A i \in Registers : Wrapped(Slot(warps, f, i)) < StackBase
=============================================================================
