----------------------------- MODULE Distance -----------------------------
(***************************************************************************)
(* The distance functions: which kernel GetDistFunc chooses for a data     *)
(* type, a metric, a dimension and the CPU the program runs on, and what   *)
(* the kernel does with the two vectors it is then called with.            *)
(*                                                                         *)
(* The build has every optimization its compiler can make (OPT_ macros)    *)
(* and is little-endian.  The alignment hint is left out: every kernel     *)
(* loads unaligned.                                                        *)
(***************************************************************************)
EXTENDS KernelsNaive, Implementations

CONSTANTS
  Cpus,   \* CPUs: [arch |-> "x86" or "arm", has |-> features, vl |-> bytes in an SVE register]
  Dims    \* the dimensions of the indexes

\* What the choosers take for granted of a CPU without asking for it.
ASSUME CpuAssumption ==
  \A cpu \in Cpus :
    /\ cpu.arch \in {"x86", "arm"}
    /\ "sse" \in cpu.has => "sse2" \in cpu.has
    /\ {"avx512f", "avx512bw", "avx512vnni"} \subseteq cpu.has => "avx512vl" \in cpu.has
    /\ cpu.has \cap {"asimddp", "asimdhp", "bf16", "svebf16"} # {} => "armv8.2-a" \in cpu.has
    /\ "svebf16" \in cpu.has => {"sve", "bf16"} \subseteq cpu.has
    /\ "sve2" \in cpu.has => {"sve", "armv9-a"} \subseteq cpu.has
    /\ "sve" \in cpu.has => cpu.vl \in {16 * k : k \in 1..16}

ASSUME DimsAssumption == Dims \subseteq Nat \ {0}

Metrics == {"IP", "Cosine", "L2"}
Types   == {"FP32", "FP64", "BF16", "FP16", "INT8", "UINT8", "SQ8_FP32", "SQ8_SQ8"}

VARIABLES
  index,  \* the kernel of an index that was created, and for which CPU
  call    \* the run of a kernel

vars == <<index, call>>

None == [phase |-> "none"]

Has(cpu, features) == features \subseteq cpu.has

-----------------------------------------------------------------------------
(* The choosers of IP_space.cpp and L2_space.cpp.                          *)

\* For AArch64, of the types with a kernel for every dimension.
ChooseAnyDimARM(cpu, dim, func, naive) ==
  IF Has(cpu, {"sve2"}) THEN SVE2(func, dim, cpu.vl)
  ELSE IF Has(cpu, {"sve"}) THEN SVE(func, dim, cpu.vl)
  ELSE IF Has(cpu, {"asimd"}) THEN NEON(func, dim)
  ELSE naive

\* For AArch64, of the types with one byte for each coordinate.
ChooseIntegerARM(cpu, dim, func, naive) ==
  IF Has(cpu, {"sve2"}) THEN SVE2(func, dim, cpu.vl)
  ELSE IF Has(cpu, {"sve"}) THEN SVE(func, dim, cpu.vl)
  ELSE IF Has(cpu, {"asimddp"}) /\ dim >= 16 THEN NEON_DOTPROD(func, dim)
  ELSE IF Has(cpu, {"asimd"}) /\ dim >= 16 THEN NEON(func, dim)
  ELSE naive

\* Mutant: without the test for a whole chunk.
ChooseFloatAnyDim(cpu, dim, func, naive, chunk) ==
  IF cpu.arch = "x86" /\ Has(cpu, {"avx512f"}) THEN AVX512F(func, dim) ELSE naive

ChooseFloat(cpu, dim, func, naive, chunk) ==
  IF cpu.arch = "arm" THEN ChooseAnyDimARM(cpu, dim, func, naive)
  ELSE IF dim < chunk THEN naive
  ELSE IF Has(cpu, {"avx512f"}) THEN AVX512F(func, dim)
  ELSE IF Has(cpu, {"avx"}) THEN AVX(func, dim)
  ELSE IF Has(cpu, {"sse"}) THEN SSE(func, dim)
  ELSE naive

IP_FP32_GetDistFunc(cpu, dim) == ChooseFloat(cpu, dim, "FP32_IP", FP32_InnerProduct(dim), 16)
L2_FP32_GetDistFunc(cpu, dim) == ChooseFloat(cpu, dim, "FP32_L2", FP32_L2Sqr(dim), 16)
IP_FP64_GetDistFunc(cpu, dim) == ChooseFloat(cpu, dim, "FP64_IP", FP64_InnerProduct(dim), 8)
L2_FP64_GetDistFunc(cpu, dim) == ChooseFloat(cpu, dim, "FP64_L2", FP64_L2Sqr(dim), 8)

IP_BF16_GetDistFunc(cpu, dim) ==
  LET naive == BF16_InnerProduct(dim) IN
  IF cpu.arch = "arm"
  THEN IF Has(cpu, {"svebf16"}) THEN SVE_BF16("BF16_IP", dim, cpu.vl)
       ELSE IF Has(cpu, {"bf16"}) /\ dim >= 8 THEN NEON_BF16("BF16_IP", dim)
       ELSE naive
  ELSE IF dim < 32 THEN naive
  ELSE IF Has(cpu, {"avx512_bf16", "avx512vl"}) THEN AVX512BF16_VL("BF16_IP", dim)
  ELSE IF Has(cpu, {"avx512bw", "avx512vbmi2"}) THEN AVX512BW_VBMI2("BF16_IP", dim)
  ELSE IF Has(cpu, {"avx2"}) THEN AVX2("BF16_IP", dim)
  ELSE IF Has(cpu, {"sse3"}) THEN SSE3("BF16_IP", dim)
  ELSE naive

L2_BF16_GetDistFunc(cpu, dim) ==
  LET naive == BF16_L2Sqr(dim) IN
  IF cpu.arch = "arm"
  THEN IF Has(cpu, {"svebf16"}) THEN SVE_BF16("BF16_L2", dim, cpu.vl)
       ELSE IF Has(cpu, {"bf16"}) /\ dim >= 8 THEN NEON_BF16("BF16_L2", dim)
       ELSE naive
  ELSE IF dim < 32 THEN naive
  ELSE IF Has(cpu, {"avx512bw", "avx512vbmi2"}) THEN AVX512BW_VBMI2("BF16_L2", dim)
  ELSE IF Has(cpu, {"avx2"}) THEN AVX2("BF16_L2", dim)
  ELSE IF Has(cpu, {"sse3"}) THEN SSE3("BF16_L2", dim)
  ELSE naive

ChooseFP16(cpu, dim, func, naive) ==
  IF cpu.arch = "arm"
  THEN IF Has(cpu, {"sve2"}) THEN SVE2(func, dim, cpu.vl)
       ELSE IF Has(cpu, {"sve"}) THEN SVE(func, dim, cpu.vl)
       ELSE IF Has(cpu, {"asimdhp"}) /\ dim >= 8 THEN NEON_HP(func, dim)
       ELSE naive
  ELSE IF dim < 32 THEN naive
  ELSE IF Has(cpu, {"avx512_fp16", "avx512vl"}) THEN AVX512FP16_VL(func, dim)
  ELSE IF Has(cpu, {"avx512f"}) THEN AVX512F(func, dim)
  ELSE IF Has(cpu, {"f16c", "fma3", "avx"}) THEN F16C(func, dim)
  ELSE naive

IP_FP16_GetDistFunc(cpu, dim) == ChooseFP16(cpu, dim, "FP16_IP", FP16_InnerProduct(dim))
L2_FP16_GetDistFunc(cpu, dim) == ChooseFP16(cpu, dim, "FP16_L2", FP16_L2Sqr(dim))

ChooseInteger(cpu, dim, func, naive) ==
  IF cpu.arch = "arm" THEN ChooseIntegerARM(cpu, dim, func, naive)
  ELSE IF dim < 32 THEN naive
  ELSE IF Has(cpu, {"avx512f", "avx512bw", "avx512vl", "avx512vnni"})
       THEN AVX512F_BW_VL_VNNI(func, dim)
  ELSE naive

IP_INT8_GetDistFunc(cpu, dim)      == ChooseInteger(cpu, dim, "INT8_IP", INT8_InnerProduct(dim))
Cosine_INT8_GetDistFunc(cpu, dim)  == ChooseInteger(cpu, dim, "INT8_Cosine", INT8_Cosine(dim))
L2_INT8_GetDistFunc(cpu, dim)      == ChooseInteger(cpu, dim, "INT8_L2", INT8_L2Sqr(dim))
IP_UINT8_GetDistFunc(cpu, dim)     == ChooseInteger(cpu, dim, "UINT8_IP", UINT8_InnerProduct(dim))
Cosine_UINT8_GetDistFunc(cpu, dim) == ChooseInteger(cpu, dim, "UINT8_Cosine", UINT8_Cosine(dim))
L2_UINT8_GetDistFunc(cpu, dim)     == ChooseInteger(cpu, dim, "UINT8_L2", UINT8_L2Sqr(dim))

\* Mutant: asks for the intrinsics of the kernel, not for the flags of its file.
ChooseByIntrinsics(cpu, dim, func, naive) ==
  IF cpu.arch = "x86" /\ dim >= 16 /\ Has(cpu, {"avx512f"})
  THEN AVX512F_BW_VL_VNNI(func, dim) ELSE naive

ChooseSQ8_FP32(cpu, dim, func, naive) ==
  IF cpu.arch = "arm" THEN ChooseAnyDimARM(cpu, dim, func, naive)
  ELSE IF dim < 16 THEN naive
  ELSE IF Has(cpu, {"avx512f", "avx512bw", "avx512vnni"}) THEN AVX512F_BW_VL_VNNI(func, dim)
  ELSE IF Has(cpu, {"avx2", "fma3"}) THEN AVX2_FMA(func, dim)
  ELSE IF Has(cpu, {"avx2"}) THEN AVX2(func, dim)
  ELSE IF Has(cpu, {"sse4_1"}) THEN SSE4(func, dim)
  ELSE naive

IP_SQ8_FP32_GetDistFunc(cpu, dim) ==
  ChooseSQ8_FP32(cpu, dim, "SQ8_FP32_IP", SQ8_FP32_InnerProduct(dim))
Cosine_SQ8_FP32_GetDistFunc(cpu, dim) ==
  ChooseSQ8_FP32(cpu, dim, "SQ8_FP32_Cosine", SQ8_FP32_Cosine(dim))
L2_SQ8_FP32_GetDistFunc(cpu, dim) ==
  ChooseSQ8_FP32(cpu, dim, "SQ8_FP32_L2", SQ8_FP32_L2Sqr(dim))

ChooseSQ8_SQ8(cpu, dim, func, naive) ==
  IF cpu.arch = "arm" THEN ChooseIntegerARM(cpu, dim, func, naive)
  ELSE IF dim >= 64 /\ Has(cpu, {"avx512f", "avx512bw", "avx512vnni"})
       THEN AVX512F_BW_VL_VNNI(func, dim)
  ELSE naive

IP_SQ8_SQ8_GetDistFunc(cpu, dim) ==
  ChooseSQ8_SQ8(cpu, dim, "SQ8_SQ8_IP", SQ8_SQ8_InnerProduct(dim))
Cosine_SQ8_SQ8_GetDistFunc(cpu, dim) ==
  ChooseSQ8_SQ8(cpu, dim, "SQ8_SQ8_Cosine", SQ8_SQ8_Cosine(dim))
L2_SQ8_SQ8_GetDistFunc(cpu, dim) ==
  ChooseSQ8_SQ8(cpu, dim, "SQ8_SQ8_L2", SQ8_SQ8_L2Sqr(dim))

\* The floating-point types are normalized under the cosine metric, whose
\* distance then is the inner product; the others have a function for it.
GetDistFunc(type, metric, cpu, dim) ==
  LET ByMetric(ip, cosine, l2) ==
        CASE metric = "IP" -> ip [] metric = "Cosine" -> cosine [] metric = "L2" -> l2
  IN
  CASE type = "FP32" -> ByMetric(IP_FP32_GetDistFunc(cpu, dim), IP_FP32_GetDistFunc(cpu, dim),
                                 L2_FP32_GetDistFunc(cpu, dim))
    [] type = "FP64" -> ByMetric(IP_FP64_GetDistFunc(cpu, dim), IP_FP64_GetDistFunc(cpu, dim),
                                 L2_FP64_GetDistFunc(cpu, dim))
    [] type = "BF16" -> ByMetric(IP_BF16_GetDistFunc(cpu, dim), IP_BF16_GetDistFunc(cpu, dim),
                                 L2_BF16_GetDistFunc(cpu, dim))
    [] type = "FP16" -> ByMetric(IP_FP16_GetDistFunc(cpu, dim), IP_FP16_GetDistFunc(cpu, dim),
                                 L2_FP16_GetDistFunc(cpu, dim))
    [] type = "INT8" -> ByMetric(IP_INT8_GetDistFunc(cpu, dim), Cosine_INT8_GetDistFunc(cpu, dim),
                                 L2_INT8_GetDistFunc(cpu, dim))
    [] type = "UINT8" -> ByMetric(IP_UINT8_GetDistFunc(cpu, dim), Cosine_UINT8_GetDistFunc(cpu, dim),
                                  L2_UINT8_GetDistFunc(cpu, dim))
    [] type = "SQ8_SQ8" -> ByMetric(IP_SQ8_SQ8_GetDistFunc(cpu, dim),
                                    Cosine_SQ8_SQ8_GetDistFunc(cpu, dim),
                                    L2_SQ8_SQ8_GetDistFunc(cpu, dim))
    [] type = "SQ8_FP32" -> ByMetric(IP_SQ8_FP32_GetDistFunc(cpu, dim),
                                     Cosine_SQ8_FP32_GetDistFunc(cpu, dim),
                                     L2_SQ8_FP32_GetDistFunc(cpu, dim))

-----------------------------------------------------------------------------
(* The elements of the two blobs behind the coordinates.                   *)

\* CosinePreprocessor appends the norm to a vector of integers.
IntegerBlob(metric) ==
  IF metric = "Cosine" THEN <<NormBytes, NormBytes>> ELSE <<0, 0>>

\* QuantPreprocessor appends metadata to what is stored and to the query.
StorageBlob(metric) == Float * StorageMetadataCount(metric)

ProcessedBlobs(type, metric, dim) ==
  LET behind == CASE type \in {"INT8", "UINT8"} -> IntegerBlob(metric)
                  [] type = "SQ8_SQ8"  -> <<StorageBlob(metric), StorageBlob(metric)>>
                  [] type = "SQ8_FP32" -> <<StorageBlob(metric), QueryMetadataCount(metric)>>
                  [] OTHER -> <<0, 0>>
  IN  [i \in 1..2 |-> dim + behind[i]]

-----------------------------------------------------------------------------
Init == index = None /\ call = None

\* An index is created.
Create ==
  /\ index = None /\ call = None
  /\ \E type \in Types, metric \in Metrics, cpu \in Cpus, dim \in Dims :
       index' = [phase  |-> "created", cpu |-> cpu, dim |-> dim,
                 blobs  |-> ProcessedBlobs(type, metric, dim),
                 kernel |-> GetDistFunc(type, metric, cpu, dim)]
  /\ UNCHANGED call

\* A distance of the index is computed.  The run depends on the kernel and
\* the blobs alone, so the index is forgotten.
Call ==
  /\ index # None
  /\ call' = [phase |-> "before", kernel |-> index.kernel, dim |-> index.dim,
              blobs |-> index.blobs, turn |-> 0,
              pos |-> 0, used |-> {}, twice |-> {}, top |-> <<0, 0>>]
  /\ index' = None

BeforeLoop ==
  /\ call.phase = "before"
  /\ call' = [Run(call, call.kernel.before) EXCEPT !.phase = "loop"]
  /\ UNCHANGED index

Again ==
  CASE call.kernel.loop = "for"   -> call.turn < call.kernel.times
    [] call.kernel.loop = "while" -> call.pos < call.dim
    [] call.kernel.loop = "do"    -> call.turn = 0 \/ call.pos < call.dim

Turn ==
  /\ call.phase = "loop" /\ Again
  /\ call' = [Run(call, call.kernel.body) EXCEPT !.turn = @ + 1]
  /\ UNCHANGED index

AfterLoop ==
  /\ call.phase = "loop" /\ ~Again
  /\ LET ran == Run(call, call.kernel.after) IN
     call' = [ran EXCEPT !.phase = "done",
                !.top = [i \in 1..2 |-> IF call.kernel.extra[i] = 0 THEN @[i]
                                        ELSE Larger(@[i], call.dim + call.kernel.extra[i])]]
  /\ UNCHANGED index

Return ==
  /\ call.phase = "done"
  /\ call' = None
  /\ UNCHANGED index

Next == Create \/ Call \/ BeforeLoop \/ Turn \/ AfterLoop \/ Return

Spec == Init /\ [][Next]_vars

-----------------------------------------------------------------------------
(* Properties.                                                             *)

\* Every distance is made of each coordinate exactly once, whatever kernel
\* was chosen: the residual, the loop and what follows it cover the vector
\* and do not overlap, and nothing accumulated is dropped.
EachCoordinateOnce ==
  call.phase = "done" => call.used = Lanes(call.dim) /\ call.twice = {}

\* No kernel reads past the end of the blobs the preprocessors make, though
\* many load whole registers of which they use a part, and though the SQ8 and
\* cosine ones read metadata behind the coordinates.
ReadsStayInBlob ==
  call # None => \A i \in 1..2 : call.top[i] <= call.blobs[i]

\* The kernel chosen, in the copy that was linked, is compiled for no
\* instruction set the CPU lacks: what a chooser asks and what CpuAssumption
\* grants cover the flags of the files its kernel is made of.
KernelRunsOnCpu ==
  index # None => index.kernel.isa \subseteq index.cpu.has

=============================================================================
