----------------------------- MODULE MCDistance -----------------------------
(***************************************************************************)
(* TLC instance: processors with ever more instruction sets, among them    *)
(* one of the emulated kind that has AVX2 without FMA, and SVE registers   *)
(* of 128, 256 and 512 bits.                                               *)
(***************************************************************************)
EXTENDS Distance

X86(features) == [arch |-> "x86", has |-> features, vl |-> 0]
Arm(features, bytes) == [arch |-> "arm", has |-> features, vl |-> bytes]

SSES    == {"sse", "sse2"}
SSE41   == SSES \cup {"sse3", "sse4_1"}
AVX1    == SSE41 \cup {"avx"}
Haswell == AVX1 \cup {"f16c", "fma3", "avx2"}
KNL     == Haswell \cup {"avx512f"}
Skylake == KNL \cup {"avx512bw", "avx512vl"}
Cascade == Skylake \cup {"avx512vnni"}
IceLake == Cascade \cup {"avx512vbmi2"}
Cooper  == Cascade \cup {"avx512_bf16"}
Sapphire == IceLake \cup {"avx512_bf16", "avx512_fp16"}

Graviton1 == {"asimd"}
Graviton2 == Graviton1 \cup {"armv8.2-a", "asimddp", "asimdhp"}
SVEs      == Graviton2 \cup {"sve"}
Graviton3 == SVEs \cup {"asimdfhm", "bf16", "svebf16"}
Graviton4 == Graviton3 \cup {"armv9-a", "sve2"}

MCCpus ==
  {X86(has) : has \in {{}, SSES, SSES \cup {"sse3"}, SSE41, AVX1, AVX1 \cup {"f16c"},
                       Haswell \ {"fma3"}, Haswell, KNL, Skylake, Cascade,
                       IceLake, Cooper, Sapphire}}
    \cup {Arm(has, 0) : has \in {{}, Graviton1, Graviton2, Graviton2 \cup {"bf16"}}}
    \cup {Arm(SVEs, vl) : vl \in {16, 32, 64}}
    \cup {Arm(Graviton3, 32), Arm(Graviton4, 16)}

\* Every residual of every kernel with none, one, two and more chunks: the
\* longest step is four SVE registers of 64 bytes.
MCDims == 1..330 \cup {383, 511, 512, 513}

=============================================================================
