------------------------------ MODULE Kernels ------------------------------
(***************************************************************************)
(* What the distance kernels of spaces/IP and spaces/L2 have in common.  A *)
(* kernel walks over two vectors with one load of each at a time.  A load  *)
(* is described by the coordinates it makes part of the result (counted    *)
(* from where the pointers stand), by how many elements it reads of either *)
(* operand, and by how far it then advances the pointers.  The arithmetic  *)
(* on the coordinates is left out, except that an assignment to the        *)
(* accumulator drops what was accumulated before.                          *)
(***************************************************************************)
EXTENDS Integers, Sequences

Lanes(n) == 0 .. (n - 1)

Load(uses, reads1, reads2, step) ==
  [uses |-> uses, reads |-> <<reads1, reads2>>, step |-> step, assigns |-> FALSE]

\* A whole register of w elements.
Full(w) == Load(Lanes(w), w, w, w)

\* A load of n elements only, by a mask, a predicate or lane by lane.
Masked(n) == Full(n)

\* A whole register is read of which the first n elements are used.
Partial(n, w) == Load(Lanes(n), w, w, n)

\* The products of the load are assigned to the accumulator, not added.
Assigned(load) == [load EXCEPT !.assigns = TRUE]

\* Straight-line code.
Times(n, load) == [i \in 1..n |-> load]
When(cond, load) == IF cond THEN <<load>> ELSE <<>>

(* A kernel: the instruction sets its code is compiled for, the loads      *)
(* before its loop, the loop (a do-while or a while that ends when the     *)
(* pointer is at the end of the vector, or a for loop), the loads after    *)
(* it, and how many elements past the last coordinate it reads of each     *)
(* operand.                                                                *)
Kernel(isa, before, loop, times, body, after) ==
  [isa |-> isa, before |-> before, loop |-> loop, times |-> times,
   body |-> body, after |-> after, extra |-> <<0, 0>>]

DoWhile(isa, before, body)           == Kernel(isa, before, "do", 0, body, <<>>)
While(isa, before, body)             == Kernel(isa, before, "while", 0, body, <<>>)
For(isa, before, times, body, after) == Kernel(isa, before, "for", times, body, after)

Reading(kernel, extra1, extra2) == [kernel EXCEPT !.extra = <<extra1, extra2>>]

(* The flags each file of spaces/functions is compiled with, in the names  *)
(* the choosers have for the instruction sets.  What a flag implies is     *)
(* left out: avx512bw implies avx512f, and a CPU with the one has the      *)
(* other.  x86-64 has SSE2 with no flag.                                   *)
COMPILE_FLAGS ==
  [AVX512BF16_VL      |-> {"avx512_bf16", "avx512vl"},
   AVX512FP16_VL      |-> {"avx512_fp16", "avx512vl"},
   AVX512BW_VBMI2     |-> {"avx512bw", "avx512vbmi2"},
   AVX512F            |-> {"avx512f"},
   AVX512F_BW_VL_VNNI |-> {"avx512f", "avx512bw", "avx512vl", "avx512vnni"},
   AVX2               |-> {"avx2"},
   AVX2_FMA           |-> {"avx2", "fma3"},
   F16C               |-> {"f16c", "fma3", "avx"},
   AVX                |-> {"avx"},
   SSE3               |-> {"sse3"},
   SSE4               |-> {"sse4_1"},
   SSE                |-> {"sse", "sse2"},
   NEON_DOTPROD       |-> {"armv8.2-a", "asimddp"},
   NEON               |-> {"asimd"},
   NEON_HP            |-> {"armv8.2-a", "asimdhp", "asimdfhm"},
   NEON_BF16          |-> {"armv8.2-a", "bf16"},
   SVE                |-> {"sve"},
   SVE_BF16           |-> {"armv8.2-a", "sve", "bf16"},
   SVE2               |-> {"armv9-a", "sve2"}]

-----------------------------------------------------------------------------
(* The metadata behind the coordinates (types/sq8.h), in elements of the   *)
(* operand: four bytes for each float behind an SQ8 vector, floats behind  *)
(* a float query.                                                          *)
StorageDelta     == 1
StorageSum       == 2
StorageSquares   == 3
QuerySum         == 0
QuerySquares     == 1

NormBytes == 4    \* of an INT8 or UINT8 vector under the cosine metric
Float     == 4

StorageMetadataCount(metric) == IF metric = "L2" THEN 4 ELSE 3
QueryMetadataCount(metric)   == IF metric = "L2" THEN 2 ELSE 1

\* The bytes read up to a field behind an SQ8 vector.
UpTo(field) == Float * (field + 1)

-----------------------------------------------------------------------------
(* Running a kernel: used holds the coordinates accumulated, twice those   *)
(* accumulated more than once, and top, for either operand, how many       *)
(* elements from its start have been read.                                 *)
Larger(m, n) == IF m > n THEN m ELSE n

Apply(state, load) ==
  LET now == {state.pos + i : i \in load.uses} IN
  [state EXCEPT
     !.pos   = @ + load.step,
     !.used  = IF load.assigns THEN now ELSE @ \cup now,
     !.twice = IF load.assigns THEN {} ELSE @ \cup (state.used \cap now),
     !.top   = [i \in 1..2 |-> Larger(@[i], state.pos + load.reads[i])]]

\* The state after each of the loads.
Applied(state, loads) ==
  LET after[k \in 0..Len(loads)] ==
        IF k = 0 THEN state ELSE Apply(after[k - 1], loads[k])
  IN  after

Run(state, loads) == Applied(state, loads)[Len(loads)]

=============================================================================
