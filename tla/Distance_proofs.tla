-------------------------- MODULE Distance_proofs --------------------------
(***************************************************************************)
(* Two results about the distance functions, for every CPU and dimension.  *)
(*                                                                         *)
(* The kernel chosen runs on the CPU it was chosen for.  One lemma for     *)
(* each file of spaces/functions says which instruction sets its kernels   *)
(* are compiled for; one for each chooser that it asks the CPU for them.   *)
(*                                                                         *)
(* The kernel chosen accumulates every coordinate once and reads no        *)
(* further than the blobs.  Its loads follow a course over the vector, of  *)
(* which lemmas about loops and residuals, for any register width, give    *)
(* the pieces; one lemma for each file says that its kernels have a course *)
(* if the dimension is as large as the chooser makes sure of; and a run    *)
(* stays on the course of its kernel.                                      *)
(***************************************************************************)
EXTENDS Distance, WellFoundedInduction, TLAPS

Floats    == {"FP32_IP", "FP32_L2", "FP64_IP", "FP64_L2"}
BF16s     == {"BF16_IP", "BF16_L2"}
FP16s     == {"FP16_IP", "FP16_L2"}
Integers8 == {"INT8_IP", "INT8_Cosine", "INT8_L2", "UINT8_IP", "UINT8_Cosine", "UINT8_L2"}
SQ8_FP32s == {"SQ8_FP32_IP", "SQ8_FP32_Cosine", "SQ8_FP32_L2"}
SQ8_SQ8s  == {"SQ8_SQ8_IP", "SQ8_SQ8_Cosine", "SQ8_SQ8_L2"}

LEMMA AVX512BF16_VL_Isa ==
  ASSUME NEW dim, NEW func \in {"BF16_IP"}
  PROVE  AVX512BF16_VL(func, dim).isa \subseteq {"avx512_bf16", "avx512vl"}
BY DEF COMPILE_FLAGS, AVX512BF16_VL, CHOOSE_IMPLEMENTATION, DoWhile, Kernel,
       BF16_InnerProductSIMD32_AVX512BF16_VL

LEMMA AVX512FP16_VL_Isa ==
  ASSUME NEW dim, NEW func \in FP16s
  PROVE  AVX512FP16_VL(func, dim).isa \subseteq {"avx512_fp16", "avx512vl"}
BY DEF COMPILE_FLAGS, AVX512FP16_VL, CHOOSE_IMPLEMENTATION, DoWhile, Kernel, FP16s,
       FP16_InnerProductSIMD32_AVX512FP16_VL, FP16_L2SqrSIMD32_AVX512FP16_VL

LEMMA AVX512BW_VBMI2_Isa ==
  ASSUME NEW dim, NEW func \in BF16s
  PROVE  AVX512BW_VBMI2(func, dim).isa \subseteq {"avx512bw", "avx512vbmi2"}
BY DEF COMPILE_FLAGS, AVX512BW_VBMI2, CHOOSE_IMPLEMENTATION, DoWhile, Kernel, BF16s,
       BF16_InnerProductSIMD32_AVX512BW_VBMI2, BF16_L2SqrSIMD32_AVX512BW_VBMI2

LEMMA AVX512F_Isa ==
  ASSUME NEW dim, NEW func \in Floats \cup FP16s
  PROVE  AVX512F(func, dim).isa \subseteq {"avx512f"}
BY DEF COMPILE_FLAGS, AVX512F, CHOOSE_IMPLEMENTATION, DoWhile, Kernel, FP16s, Floats,
       FP32_InnerProductSIMD16_AVX512, FP64_InnerProductSIMD8_AVX512,
       FP32_L2SqrSIMD16_AVX512, FP64_L2SqrSIMD8_AVX512, FP16_InnerProductSIMD32_AVX512,
       FP16_L2SqrSIMD32_AVX512

LEMMA AVX512F_BW_VL_VNNI_Isa ==
  ASSUME NEW dim, NEW func \in Integers8 \cup SQ8_FP32s \cup SQ8_SQ8s
  PROVE  AVX512F_BW_VL_VNNI(func, dim).isa \subseteq {"avx512f", "avx512bw", "avx512vl", "avx512vnni"}
BY DEF COMPILE_FLAGS, AVX512F_BW_VL_VNNI, CHOOSE_IMPLEMENTATION, DoWhile, While, Reading, Kernel,
       Integers8, SQ8_FP32s, SQ8_SQ8s, INT8_L2SqrSIMD64_AVX512F_BW_VL_VNNI,
       INT8_InnerProductSIMD64_AVX512F_BW_VL_VNNI, INT8_InnerProductImp_AVX512,
       INT8_CosineSIMD64_AVX512F_BW_VL_VNNI, UINT8_L2SqrSIMD64_AVX512F_BW_VL_VNNI,
       UINT8_InnerProductSIMD64_AVX512F_BW_VL_VNNI, UINT8_InnerProductImp_AVX512,
       UINT8_CosineSIMD64_AVX512F_BW_VL_VNNI,
       SQ8_FP32_InnerProductSIMD16_AVX512F_BW_VL_VNNI, SQ8_FP32_InnerProductImp_AVX512,
       SQ8_FP32_CosineSIMD16_AVX512F_BW_VL_VNNI, SQ8_FP32_L2SqrSIMD16_AVX512F_BW_VL_VNNI,
       SQ8_SQ8_InnerProductSIMD64_AVX512F_BW_VL_VNNI, SQ8_SQ8_InnerProductImp,
       SQ8_SQ8_CosineSIMD64_AVX512F_BW_VL_VNNI, SQ8_SQ8_L2SqrSIMD64_AVX512F_BW_VL_VNNI

LEMMA AVX2_Isa ==
  ASSUME NEW dim, NEW func \in BF16s \cup SQ8_FP32s
  PROVE  AVX2(func, dim).isa \subseteq {"avx2"}
BY DEF COMPILE_FLAGS, AVX2, CHOOSE_IMPLEMENTATION, DoWhile, Reading, Kernel, BF16s, SQ8_FP32s,
       BF16_InnerProductSIMD32_AVX2, BF16_L2SqrSIMD32_AVX2,
       SQ8_FP32_InnerProductSIMD16_AVX2, SQ8_FP32_InnerProductImp_AVX2,
       SQ8_FP32_CosineSIMD16_AVX2, SQ8_FP32_L2SqrSIMD16_AVX2

LEMMA AVX2_FMA_Isa ==
  ASSUME NEW dim, NEW func \in SQ8_FP32s
  PROVE  AVX2_FMA(func, dim).isa \subseteq {"avx2", "fma3"}
BY DEF COMPILE_FLAGS, AVX2_FMA, CHOOSE_IMPLEMENTATION, DoWhile, Reading, Kernel, SQ8_FP32s,
       SQ8_FP32_InnerProductSIMD16_AVX2_FMA, SQ8_FP32_InnerProductImp_FMA,
       SQ8_FP32_CosineSIMD16_AVX2_FMA, SQ8_FP32_L2SqrSIMD16_AVX2_FMA

LEMMA F16C_Isa ==
  ASSUME NEW dim, NEW func \in FP16s
  PROVE  F16C(func, dim).isa \subseteq {"f16c", "fma3", "avx"}
BY DEF COMPILE_FLAGS, F16C, CHOOSE_IMPLEMENTATION, DoWhile, Kernel, FP16s, FP16_InnerProductSIMD32_F16C,
       FP16_L2SqrSIMD32_F16C

LEMMA AVX_Isa ==
  ASSUME NEW dim, NEW func \in Floats
  PROVE  AVX(func, dim).isa \subseteq {"avx"}
BY DEF COMPILE_FLAGS, AVX, CHOOSE_IMPLEMENTATION, DoWhile, Kernel, Floats, FP32_InnerProductSIMD16_AVX,
       FP64_InnerProductSIMD8_AVX, FP32_L2SqrSIMD16_AVX, FP64_L2SqrSIMD8_AVX

LEMMA SSE4_Isa ==
  ASSUME NEW dim, NEW func \in SQ8_FP32s
  PROVE  SSE4(func, dim).isa \subseteq {"sse4_1"}
BY DEF COMPILE_FLAGS, SSE4, CHOOSE_IMPLEMENTATION, DoWhile, Reading, Kernel, SQ8_FP32s,
       SQ8_FP32_InnerProductSIMD16_SSE4, SQ8_FP32_InnerProductSIMD16_SSE4_IMP,
       SQ8_FP32_CosineSIMD16_SSE4, SQ8_FP32_L2SqrSIMD16_SSE4

LEMMA SSE3_Isa ==
  ASSUME NEW dim, NEW func \in BF16s
  PROVE  SSE3(func, dim).isa \subseteq {"sse3"}
BY DEF COMPILE_FLAGS, SSE3, CHOOSE_IMPLEMENTATION, DoWhile, Kernel, BF16s, BF16_InnerProductSIMD32_SSE3,
       BF16_L2SqrSIMD32_SSE3

LEMMA SSE_Isa ==
  ASSUME NEW dim, NEW func \in Floats
  PROVE  SSE(func, dim).isa \subseteq {"sse", "sse2"}
BY DEF COMPILE_FLAGS, SSE, CHOOSE_IMPLEMENTATION, DoWhile, Kernel, Floats, FP32_InnerProductSIMD16_SSE,
       FP64_InnerProductSIMD8_SSE, FP32_L2SqrSIMD16_SSE, FP64_L2SqrSIMD8_SSE

LEMMA NEON_Isa ==
  ASSUME NoForeignInstructions,
         NEW dim, NEW func \in Floats \cup Integers8 \cup SQ8_FP32s \cup SQ8_SQ8s
  PROVE  NEON(func, dim).isa \subseteq {"asimd"}
BY DEF COMPILE_FLAGS, NEON, CHOOSE_IMPLEMENTATION, For, SharedFlags, NoForeignInstructions, Reading, Kernel, Floats, Integers8,
       SQ8_FP32s, SQ8_SQ8s, INT8_InnerProductSIMD16_NEON, INT8_InnerProductImp_NEON,
       UINT8_InnerProductSIMD16_NEON, UINT8_InnerProductImp_NEON,
       FP32_InnerProductSIMD16_NEON, FP64_InnerProductSIMD8_NEON, INT8_CosineSIMD_NEON,
       UINT8_CosineSIMD_NEON, FP32_L2SqrSIMD16_NEON, INT8_L2SqrSIMD16_NEON,
       UINT8_L2SqrSIMD16_NEON, FP64_L2SqrSIMD8_NEON, SQ8_FP32_L2SqrSIMD16_NEON,
       SQ8_FP32_InnerProductSIMD16_NEON_IMP, SQ8_FP32_InnerProductSIMD16_NEON,
       SQ8_FP32_CosineSIMD16_NEON, SQ8_SQ8_InnerProductSIMD64_NEON,
       SQ8_SQ8_InnerProductSIMD64_NEON_IMP, SQ8_SQ8_CosineSIMD64_NEON,
       SQ8_SQ8_L2SqrSIMD64_NEON

LEMMA NEON_DOTPROD_Isa ==
  ASSUME NoForeignInstructions,
         NEW dim, NEW func \in Integers8 \cup SQ8_SQ8s
  PROVE  NEON_DOTPROD(func, dim).isa \subseteq {"armv8.2-a", "asimddp"}
BY DEF COMPILE_FLAGS, NEON_DOTPROD, CHOOSE_IMPLEMENTATION, For, SharedFlags, NoForeignInstructions, Reading, Kernel, Integers8,
       SQ8_SQ8s, INT8_InnerProductSIMD16_NEON_DOTPROD, INT8_InnerProductImp_DOTPROD,
       UINT8_InnerProductSIMD16_NEON_DOTPROD, UINT8_InnerProductImp_DOTPROD,
       INT8_CosineSIMD_NEON_DOTPROD, UINT8_CosineSIMD_NEON_DOTPROD,
       INT8_L2SqrSIMD16_NEON_DOTPROD, UINT8_L2SqrSIMD16_NEON_DOTPROD,
       SQ8_SQ8_InnerProductSIMD64_NEON_DOTPROD, SQ8_SQ8_InnerProductSIMD64_NEON_DOTPROD_IMP,
       SQ8_SQ8_CosineSIMD64_NEON_DOTPROD, SQ8_SQ8_L2SqrSIMD64_NEON_DOTPROD

LEMMA NEON_HP_Isa ==
  ASSUME NoForeignInstructions, NEW dim, NEW func \in FP16s
  PROVE  NEON_HP(func, dim).isa \subseteq {"armv8.2-a", "asimdhp"}
BY DEF COMPILE_FLAGS, NEON_HP, CHOOSE_IMPLEMENTATION, While, HPFlags, NoForeignInstructions, Kernel, FP16s, FP16_L2Sqr_NEON_HP,
       FP16_InnerProduct_NEON_HP

LEMMA NEON_BF16_Isa ==
  ASSUME NEW dim, NEW func \in BF16s
  PROVE  NEON_BF16(func, dim).isa \subseteq {"armv8.2-a", "bf16"}
BY DEF COMPILE_FLAGS, NEON_BF16, CHOOSE_IMPLEMENTATION, While, Kernel, BF16s, BF16_L2Sqr_NEON,
       BF16_InnerProduct_NEON

LEMMA SVE_Isa ==
  ASSUME NoForeignInstructions, NEW dim, NEW vl, NEW func \in Floats \cup FP16s \cup Integers8 \cup SQ8_FP32s \cup SQ8_SQ8s
  PROVE  SVE(func, dim, vl).isa \subseteq {"sve"}
BY DEF COMPILE_FLAGS, SVE, CHOOSE_SVE_IMPLEMENTATION, SVEKernel, SVEFlags, NoForeignInstructions, For, Reading, Kernel, FP16s, Floats,
       Integers8, SQ8_FP32s, SQ8_SQ8s, FP32_InnerProductSIMD_SVE, FP32_L2SqrSIMD_SVE,
       FP16_InnerProduct_SVE, FP16_L2Sqr_SVE, FP64_InnerProductSIMD_SVE, FP64_L2SqrSIMD_SVE,
       INT8_L2SqrSIMD_SVE, INT8_InnerProductSIMD_SVE, INT8_InnerProductImp_SVE,
       INT8_CosineSIMD_SVE, UINT8_L2SqrSIMD_SVE, UINT8_InnerProductSIMD_SVE,
       UINT8_InnerProductImp_SVE, UINT8_CosineSIMD_SVE, SQ8_FP32_InnerProductSIMD_SVE,
       SQ8_FP32_InnerProductSIMD_SVE_IMP, SQ8_FP32_CosineSIMD_SVE, SQ8_FP32_L2SqrSIMD_SVE,
       SQ8_SQ8_InnerProductSIMD_SVE, SQ8_SQ8_InnerProductSIMD_SVE_IMP,
       SQ8_SQ8_CosineSIMD_SVE, SQ8_SQ8_L2SqrSIMD_SVE

LEMMA SVE_BF16_Isa ==
  ASSUME NEW dim, NEW vl, NEW func \in BF16s
  PROVE  SVE_BF16(func, dim, vl).isa \subseteq {"armv8.2-a", "sve", "bf16"}
BY DEF COMPILE_FLAGS, SVE_BF16, CHOOSE_SVE_IMPLEMENTATION, SVEKernel, For, Kernel, BF16s,
       BF16_InnerProduct_SVE, BF16_L2Sqr_SVE

-----------------------------------------------------------------------------
(* The choosers.                                                           *)

Runs(kernel, cpu) == kernel.isa \subseteq cpu.has

LEMMA PlainRuns ==
  ASSUME NEW dim, NEW cpu
  PROVE  /\ Runs(Plain(dim), cpu)
         /\ \A e1, e2 : Runs(Reading(Plain(dim), e1, e2), cpu)
         /\ Runs(SQ8_FP32_InnerProduct_Impl(dim), cpu)
         /\ \A e1, e2 : Runs(Reading(SQ8_FP32_InnerProduct_Impl(dim), e1, e2), cpu)
         /\ Runs(SQ8_SQ8_InnerProduct_Impl(dim), cpu)
         /\ \A e1, e2 : Runs(Reading(SQ8_SQ8_InnerProduct_Impl(dim), e1, e2), cpu)
BY DEF Runs, Plain, For, Kernel, Reading, SQ8_FP32_InnerProduct_Impl, SQ8_SQ8_InnerProduct_Impl

LEMMA ChooseAnyDimARM_Runs ==
  ASSUME NoForeignInstructions, NEW cpu \in Cpus, NEW dim, NEW func \in Floats \cup SQ8_FP32s,
         NEW naive, Runs(naive, cpu)
  PROVE  Runs(ChooseAnyDimARM(cpu, dim, func, naive), cpu)
<1>1. /\ cpu.has \cap {"asimddp", "asimdhp", "bf16", "svebf16"} # {} => "armv8.2-a" \in cpu.has
      /\ "sve2" \in cpu.has => {"sve", "armv9-a"} \subseteq cpu.has
  BY CpuAssumption
<1>2. SVE(func, dim, cpu.vl).isa \subseteq {"sve"} /\ NEON(func, dim).isa \subseteq {"asimd"}
  BY SVE_Isa, NEON_Isa
<1>3. QED
  BY <1>1, <1>2 DEF Runs, Has, ChooseAnyDimARM, SVE2

LEMMA ChooseIntegerARM_Runs ==
  ASSUME NoForeignInstructions, NEW cpu \in Cpus, NEW dim, NEW func \in Integers8 \cup SQ8_SQ8s,
         NEW naive, Runs(naive, cpu)
  PROVE  Runs(ChooseIntegerARM(cpu, dim, func, naive), cpu)
<1>1. /\ cpu.has \cap {"asimddp", "asimdhp", "bf16", "svebf16"} # {} => "armv8.2-a" \in cpu.has
      /\ "sve2" \in cpu.has => {"sve", "armv9-a"} \subseteq cpu.has
  BY CpuAssumption
<1>2. /\ SVE(func, dim, cpu.vl).isa \subseteq {"sve"} /\ NEON(func, dim).isa \subseteq {"asimd"}
      /\ NEON_DOTPROD(func, dim).isa \subseteq {"armv8.2-a", "asimddp"}
  BY SVE_Isa, NEON_Isa, NEON_DOTPROD_Isa
<1>3. QED
  BY <1>1, <1>2 DEF Runs, Has, ChooseIntegerARM, SVE2

LEMMA ChooseFloat_Runs ==
  ASSUME NoForeignInstructions, NEW cpu \in Cpus, NEW dim, NEW func \in Floats,
         NEW naive, NEW chunk, Runs(naive, cpu)
  PROVE  Runs(ChooseFloat(cpu, dim, func, naive, chunk), cpu)
<1>1. "sse" \in cpu.has => "sse2" \in cpu.has
  BY CpuAssumption
<1>2. /\ AVX512F(func, dim).isa \subseteq {"avx512f"} /\ AVX(func, dim).isa \subseteq {"avx"}
      /\ SSE(func, dim).isa \subseteq {"sse", "sse2"}
  BY AVX512F_Isa, AVX_Isa, SSE_Isa
<1>3. Runs(ChooseAnyDimARM(cpu, dim, func, naive), cpu)
  BY ChooseAnyDimARM_Runs
<1>4. QED
  BY <1>1, <1>2, <1>3 DEF Runs, Has, ChooseFloat

LEMMA BF16_Runs ==
  ASSUME NEW cpu \in Cpus, NEW dim
  PROVE  Runs(IP_BF16_GetDistFunc(cpu, dim), cpu) /\ Runs(L2_BF16_GetDistFunc(cpu, dim), cpu)
<1>1. /\ cpu.has \cap {"asimddp", "asimdhp", "bf16", "svebf16"} # {} => "armv8.2-a" \in cpu.has
      /\ "svebf16" \in cpu.has => {"sve", "bf16"} \subseteq cpu.has
  BY CpuAssumption
<1>2. Runs(BF16_InnerProduct(dim), cpu) /\ Runs(BF16_L2Sqr(dim), cpu)
  BY PlainRuns DEF BF16_InnerProduct, BF16_L2Sqr
<1>3. AVX512BF16_VL("BF16_IP", dim).isa \subseteq {"avx512_bf16", "avx512vl"}
  BY AVX512BF16_VL_Isa
<1>4. \A func \in BF16s :
        /\ SVE_BF16(func, dim, cpu.vl).isa \subseteq {"armv8.2-a", "sve", "bf16"}
        /\ NEON_BF16(func, dim).isa \subseteq {"armv8.2-a", "bf16"}
        /\ AVX512BW_VBMI2(func, dim).isa \subseteq {"avx512bw", "avx512vbmi2"}
        /\ AVX2(func, dim).isa \subseteq {"avx2"}
        /\ SSE3(func, dim).isa \subseteq {"sse3"}
  BY SVE_BF16_Isa, NEON_BF16_Isa, AVX512BW_VBMI2_Isa, AVX2_Isa, SSE3_Isa
<1>5. Runs(IP_BF16_GetDistFunc(cpu, dim), cpu)
  BY <1>1, <1>2, <1>3, <1>4 DEF Runs, Has, IP_BF16_GetDistFunc, BF16s
<1>6. Runs(L2_BF16_GetDistFunc(cpu, dim), cpu)
  BY <1>1, <1>2, <1>4 DEF Runs, Has, L2_BF16_GetDistFunc, BF16s
<1>7. QED
  BY <1>5, <1>6

LEMMA ChooseFP16_Runs ==
  ASSUME NoForeignInstructions, NEW cpu \in Cpus, NEW dim, NEW func \in FP16s, NEW naive, Runs(naive, cpu)
  PROVE  Runs(ChooseFP16(cpu, dim, func, naive), cpu)
<1>1. /\ cpu.has \cap {"asimddp", "asimdhp", "bf16", "svebf16"} # {} => "armv8.2-a" \in cpu.has
      /\ "sve2" \in cpu.has => {"sve", "armv9-a"} \subseteq cpu.has
  BY CpuAssumption
<1>2. /\ SVE(func, dim, cpu.vl).isa \subseteq {"sve"}
      /\ NEON_HP(func, dim).isa \subseteq {"armv8.2-a", "asimdhp"}
      /\ AVX512FP16_VL(func, dim).isa \subseteq {"avx512_fp16", "avx512vl"}
      /\ AVX512F(func, dim).isa \subseteq {"avx512f"}
      /\ F16C(func, dim).isa \subseteq {"f16c", "fma3", "avx"}
  BY SVE_Isa, NEON_HP_Isa, AVX512FP16_VL_Isa, AVX512F_Isa, F16C_Isa
<1>3. QED
  BY <1>1, <1>2 DEF Runs, Has, ChooseFP16, SVE2

LEMMA ChooseInteger_Runs ==
  ASSUME NoForeignInstructions, NEW cpu \in Cpus, NEW dim, NEW func \in Integers8,
         NEW naive, Runs(naive, cpu)
  PROVE  Runs(ChooseInteger(cpu, dim, func, naive), cpu)
<1>1. AVX512F_BW_VL_VNNI(func, dim).isa \subseteq {"avx512f", "avx512bw", "avx512vl", "avx512vnni"}
  BY AVX512F_BW_VL_VNNI_Isa
<1>2. Runs(ChooseIntegerARM(cpu, dim, func, naive), cpu)
  BY ChooseIntegerARM_Runs
<1>3. QED
  BY <1>1, <1>2 DEF Runs, Has, ChooseInteger

\* The chooser does not ask for AVX512VL; CpuAssumption has it follow from the others.
LEMMA ChooseSQ8_FP32_Runs ==
  ASSUME NoForeignInstructions, NEW cpu \in Cpus, NEW dim, NEW func \in SQ8_FP32s,
         NEW naive, Runs(naive, cpu)
  PROVE  Runs(ChooseSQ8_FP32(cpu, dim, func, naive), cpu)
<1>1. {"avx512f", "avx512bw", "avx512vnni"} \subseteq cpu.has => "avx512vl" \in cpu.has
  BY CpuAssumption
<1>2. /\ AVX512F_BW_VL_VNNI(func, dim).isa \subseteq {"avx512f", "avx512bw", "avx512vl", "avx512vnni"}
      /\ AVX2_FMA(func, dim).isa \subseteq {"avx2", "fma3"}
      /\ AVX2(func, dim).isa \subseteq {"avx2"}
      /\ SSE4(func, dim).isa \subseteq {"sse4_1"}
  BY AVX512F_BW_VL_VNNI_Isa, AVX2_FMA_Isa, AVX2_Isa, SSE4_Isa
<1>3. Runs(ChooseAnyDimARM(cpu, dim, func, naive), cpu)
  BY ChooseAnyDimARM_Runs
<1>4. QED
  BY <1>1, <1>2, <1>3 DEF Runs, Has, ChooseSQ8_FP32

LEMMA ChooseSQ8_SQ8_Runs ==
  ASSUME NoForeignInstructions, NEW cpu \in Cpus, NEW dim, NEW func \in SQ8_SQ8s,
         NEW naive, Runs(naive, cpu)
  PROVE  Runs(ChooseSQ8_SQ8(cpu, dim, func, naive), cpu)
<1>1. {"avx512f", "avx512bw", "avx512vnni"} \subseteq cpu.has => "avx512vl" \in cpu.has
  BY CpuAssumption
<1>2. AVX512F_BW_VL_VNNI(func, dim).isa \subseteq {"avx512f", "avx512bw", "avx512vl", "avx512vnni"}
  BY AVX512F_BW_VL_VNNI_Isa
<1>3. Runs(ChooseIntegerARM(cpu, dim, func, naive), cpu)
  BY ChooseIntegerARM_Runs
<1>4. QED
  BY <1>1, <1>2, <1>3 DEF Runs, Has, ChooseSQ8_SQ8

\* The type and the metric of an index lead to one of these choosers.
LEMMA GetDistFuncRuns ==
  ASSUME NoForeignInstructions, NEW cpu \in Cpus, NEW dim, NEW type \in Types, NEW metric \in Metrics
  PROVE  Runs(GetDistFunc(type, metric, cpu, dim), cpu)
<1>1. CASE type = "FP32"
  <2>1. /\ Runs(IP_FP32_GetDistFunc(cpu, dim), cpu)
        /\ Runs(L2_FP32_GetDistFunc(cpu, dim), cpu)
    BY PlainRuns, ChooseFloat_Runs
       DEF Floats, IP_FP32_GetDistFunc, L2_FP32_GetDistFunc, FP32_InnerProduct, FP32_L2Sqr
  <2>2. QED
    BY <1>1, <2>1 DEF GetDistFunc, Metrics
<1>2. CASE type = "FP64"
  <2>1. /\ Runs(IP_FP64_GetDistFunc(cpu, dim), cpu)
        /\ Runs(L2_FP64_GetDistFunc(cpu, dim), cpu)
    BY PlainRuns, ChooseFloat_Runs
       DEF Floats, IP_FP64_GetDistFunc, L2_FP64_GetDistFunc, FP64_InnerProduct, FP64_L2Sqr
  <2>2. QED
    BY <1>2, <2>1 DEF GetDistFunc, Metrics
<1>3. CASE type = "BF16"
  BY <1>3, BF16_Runs DEF GetDistFunc, Metrics
<1>4. CASE type = "FP16"
  <2>1. /\ Runs(IP_FP16_GetDistFunc(cpu, dim), cpu)
        /\ Runs(L2_FP16_GetDistFunc(cpu, dim), cpu)
    BY PlainRuns, ChooseFP16_Runs
       DEF FP16s, IP_FP16_GetDistFunc, L2_FP16_GetDistFunc, FP16_InnerProduct, FP16_L2Sqr
  <2>2. QED
    BY <1>4, <2>1 DEF GetDistFunc, Metrics
<1>5. CASE type = "INT8"
  <2>1. /\ Runs(IP_INT8_GetDistFunc(cpu, dim), cpu)
        /\ Runs(Cosine_INT8_GetDistFunc(cpu, dim), cpu)
        /\ Runs(L2_INT8_GetDistFunc(cpu, dim), cpu)
    BY PlainRuns, ChooseInteger_Runs
       DEF Integers8, IP_INT8_GetDistFunc, Cosine_INT8_GetDistFunc, L2_INT8_GetDistFunc,
           INT8_InnerProduct, INT8_Cosine, INT8_L2Sqr
  <2>2. QED
    BY <1>5, <2>1 DEF GetDistFunc, Metrics
<1>6. CASE type = "UINT8"
  <2>1. /\ Runs(IP_UINT8_GetDistFunc(cpu, dim), cpu)
        /\ Runs(Cosine_UINT8_GetDistFunc(cpu, dim), cpu)
        /\ Runs(L2_UINT8_GetDistFunc(cpu, dim), cpu)
    BY PlainRuns, ChooseInteger_Runs
       DEF Integers8, IP_UINT8_GetDistFunc, Cosine_UINT8_GetDistFunc, L2_UINT8_GetDistFunc,
           UINT8_InnerProduct, UINT8_Cosine, UINT8_L2Sqr
  <2>2. QED
    BY <1>6, <2>1 DEF GetDistFunc, Metrics
<1>7. CASE type = "SQ8_FP32"
  <2>1. /\ Runs(IP_SQ8_FP32_GetDistFunc(cpu, dim), cpu)
        /\ Runs(Cosine_SQ8_FP32_GetDistFunc(cpu, dim), cpu)
        /\ Runs(L2_SQ8_FP32_GetDistFunc(cpu, dim), cpu)
    BY PlainRuns, ChooseSQ8_FP32_Runs
       DEF SQ8_FP32s, IP_SQ8_FP32_GetDistFunc, Cosine_SQ8_FP32_GetDistFunc,
           L2_SQ8_FP32_GetDistFunc, SQ8_FP32_InnerProduct, SQ8_FP32_Cosine, SQ8_FP32_L2Sqr
  <2>2. QED
    BY <1>7, <2>1 DEF GetDistFunc, Metrics
<1>8. CASE type = "SQ8_SQ8"
  <2>1. /\ Runs(IP_SQ8_SQ8_GetDistFunc(cpu, dim), cpu)
        /\ Runs(Cosine_SQ8_SQ8_GetDistFunc(cpu, dim), cpu)
        /\ Runs(L2_SQ8_SQ8_GetDistFunc(cpu, dim), cpu)
    BY PlainRuns, ChooseSQ8_SQ8_Runs
       DEF SQ8_SQ8s, IP_SQ8_SQ8_GetDistFunc, Cosine_SQ8_SQ8_GetDistFunc,
           L2_SQ8_SQ8_GetDistFunc, SQ8_SQ8_InnerProduct, SQ8_SQ8_Cosine, SQ8_SQ8_L2Sqr
  <2>2. QED
    BY <1>8, <2>1 DEF GetDistFunc, Metrics
<1>9. QED
  BY <1>1, <1>2, <1>3, <1>4, <1>5, <1>6, <1>7, <1>8 DEF Types

\* No CPU is given a kernel compiled for an instruction set it lacks (IP_space.cpp,
\* L2_space.cpp and the flags of spaces/CMakeLists.txt), provided that NEON.cpp uses its own
\* copy of the functions NEON_DOTPROD.cpp defines too, that of the kernels SVE.cpp and
\* SVE2.cpp share the copy of SVE.cpp is linked, and that the compiler makes no use of
\* FP16FML in NEON_HP.cpp.
THEOREM EveryKernelRuns ==
  ASSUME NoForeignInstructions
  PROVE  Spec => []KernelRunsOnCpu
<1>1. Init => KernelRunsOnCpu
  BY DEF Init, KernelRunsOnCpu
<1>2. KernelRunsOnCpu /\ [Next]_vars => KernelRunsOnCpu'
  <2> SUFFICES ASSUME KernelRunsOnCpu, [Next]_vars PROVE KernelRunsOnCpu'
    OBVIOUS
  <2>1. CASE Create
    <3>1. PICK type \in Types, metric \in Metrics, cpu \in Cpus, dim \in Dims :
            index' = [phase  |-> "created", cpu |-> cpu, dim |-> dim,
                      blobs  |-> ProcessedBlobs(type, metric, dim),
                      kernel |-> GetDistFunc(type, metric, cpu, dim)]
      BY <2>1 DEF Create
    <3>2. index'.cpu = cpu /\ index'.kernel = GetDistFunc(type, metric, cpu, dim)
      BY <3>1
    <3>3. Runs(GetDistFunc(type, metric, cpu, dim), cpu)
      BY GetDistFuncRuns
    <3>4. QED
      BY <3>2, <3>3 DEF KernelRunsOnCpu, Runs
  <2>2. CASE Call
    BY <2>2 DEF Call, KernelRunsOnCpu
  <2>3. CASE BeforeLoop \/ Turn \/ AfterLoop \/ Return \/ UNCHANGED vars
    BY <2>3 DEF BeforeLoop, Turn, AfterLoop, Return, vars, KernelRunsOnCpu
  <2>4. QED
    BY <2>1, <2>2, <2>3 DEF Next
<1>3. QED
  BY <1>1, <1>2, PTL DEF Spec

-----------------------------------------------------------------------------
(* The way of a kernel over the vectors.  A load fits at coordinate p when *)
(* it uses all the coordinates from p to where it leaves the pointers and  *)
(* stays within room, the elements of either blob; one that overwrites the *)
(* accumulator fits only at the start.  A way from p to q is a sequence of *)
(* loads of which each fits where the one before it leaves the pointers.   *)

Loads == [uses : SUBSET Nat, reads : Nat \X Nat, step : Nat, assigns : BOOLEAN]

Fits(load, p, q, room) ==
  /\ load \in Loads
  /\ q = p + load.step
  /\ load.uses = Lanes(load.step)
  /\ load.assigns => p = 0
  /\ \A i \in 1..2 : p + load.reads[i] <= room[i]

Stops(loads, p, q, room, at) ==
  /\ at \in [0..Len(loads) -> Nat]
  /\ at[0] = p
  /\ at[Len(loads)] = q
  /\ \A k \in 1..Len(loads) : Fits(loads[k], at[k - 1], at[k], room)

Way(loads, p, q, room) == loads \in Seq(Loads) /\ \E at : Stops(loads, p, q, room, at)

\* Induction up to n, for a set instead of a predicate.
LEMMA UpToN ==
  ASSUME NEW n \in Nat, NEW T, 0 \in T, \A i \in 1..n : i - 1 \in T => i \in T
  PROVE  0..n \subseteq T
<1>1. SUFFICES ASSUME (0..n) \ T # {} PROVE FALSE
  OBVIOUS
<1>2. PICK F : F = (0..n) \ T
  OBVIOUS
<1>3. F \subseteq Nat /\ F # {}
  BY <1>1, <1>2
<1>4. PICK R : R = OpToRel(<, Nat)
  OBVIOUS
<1>5. IsWellFoundedOn(R, Nat)
  BY <1>4, NatLessThanWellFounded
<1>6. \E x \in F : \A y \in F : ~ (<<y, x>> \in R)
  BY <1>3, <1>5, WFMin
<1>7. \A x, y \in Nat : <<y, x>> \in R <=> y < x
  BY <1>4 DEF OpToRel
<1>8. PICK x \in F : \A y \in F : ~ (y < x)
  BY <1>3, <1>6, <1>7
<1>9. x \in 1..n /\ x - 1 \in 0..n
  BY <1>2, <1>8
<1>10. x - 1 \in F \/ x - 1 \in T
  BY <1>2, <1>9
<1>11. ~ (x - 1 \in F)
  BY <1>2, <1>8, <1>9
<1>12. QED
  BY <1>2, <1>9, <1>10, <1>11

\* The state after each load comes from the one before it.
LEMMA LoadsApplied ==
  ASSUME NEW state, NEW loads, Len(loads) \in Nat
  PROVE  /\ Applied(state, loads)[0] = state
         /\ \A k \in 1..Len(loads) :
              Applied(state, loads)[k] = Apply(Applied(state, loads)[k - 1], loads[k])
<1>1. PICK n \in Nat : n = Len(loads)
  OBVIOUS
<1> DEFINE Steps(t, m) ==
             t = [k \in 0..m |-> IF k = 0 THEN state ELSE Apply(t[k - 1], loads[k])]
           T == {m \in Nat : \E t : Steps(t, m)}
<1>2. 0 \in T
  <2>1. Steps([k \in 0..0 |-> state], 0)
    OBVIOUS
  <2>2. QED
    BY <2>1
<1>3. ASSUME NEW m \in 1..n, m - 1 \in T PROVE m \in T
  <2>1. PICK t : Steps(t, m - 1)
    BY <1>3
  <2>2. PICK u : u = [k \in 0..m |-> IF k = m THEN Apply(t[m - 1], loads[m]) ELSE t[k]]
    OBVIOUS
  <2>3. ASSUME NEW k \in 0..m
        PROVE  u[k] = IF k = 0 THEN state ELSE Apply(u[k - 1], loads[k])
    <3>1. CASE k = m
      BY <2>2, <3>1
    <3>2. CASE k # m
      <4>1. k \in 0..(m - 1) /\ u[k] = t[k] /\ (k # 0 => u[k - 1] = t[k - 1])
        BY <2>2, <3>2
      <4>2. QED
        BY <2>1, <4>1
    <3>3. QED
      BY <3>1, <3>2
  <2>4. Steps(u, m)
    BY <2>2, <2>3
  <2>5. m \in Nat
    OBVIOUS
  <2>6. QED
    BY <2>4, <2>5
<1>4. \E t : Steps(t, n)
  <2> HIDE DEF Steps
  <2>1. 0..n \subseteq T
    BY <1>1, <1>2, <1>3, UpToN
  <2>2. QED
    BY <1>1, <2>1
<1>5. PICK a : a = CHOOSE t : Steps(t, n)
  OBVIOUS
<1>6. Steps(a, n)
  BY <1>4, <1>5
<1>7. Applied(state, loads) = a
  BY <1>1, <1>5 DEF Applied
<1>8. ASSUME NEW k \in 0..n
      PROVE  a[k] = IF k = 0 THEN state ELSE Apply(a[k - 1], loads[k])
  BY <1>6
<1>9. QED
  BY <1>1, <1>7, <1>8

\* A state in which the coordinates below p, and no others, have been accumulated,
\* each of them once.
Fields == {"phase", "kernel", "dim", "blobs", "turn", "pos", "used", "twice", "top"}

Clean(s, p, room) ==
  /\ DOMAIN s = Fields
  /\ s = [f \in DOMAIN s |-> s[f]]
  /\ s.pos = p
  /\ s.used = Lanes(p)
  /\ s.twice = {}
  /\ \A i \in 1..2 : s.top[i] \in Int /\ s.top[i] <= room[i]

\* What a run leaves alone.
SameCall(s, t) ==
  /\ t.phase = s.phase /\ t.kernel = s.kernel /\ t.dim = s.dim
  /\ t.blobs = s.blobs /\ t.turn = s.turn

LEMMA OneLoad ==
  ASSUME NEW s, NEW load, NEW p \in Nat, NEW q, NEW room,
         Clean(s, p, room), Fits(load, p, q, room)
  PROVE  Clean(Apply(s, load), q, room) /\ SameCall(s, Apply(s, load))
<1>1. PICK now : now = {s.pos + i : i \in load.uses}
  OBVIOUS
<1>2. now = p .. (q - 1)
  <2>1. PICK n : n = load.step
    OBVIOUS
  <2>2. n \in Nat /\ q = p + n /\ now = {p + i : i \in 0 .. (n - 1)}
    BY <1>1, <2>1 DEF Clean, Fits, Lanes, Loads
  <2>3. ASSUME NEW x PROVE x \in now <=> x \in p .. (q - 1)
    <3>1. x \in now => x \in p .. (q - 1)
      BY <2>2
    <3>2. ASSUME x \in p .. (q - 1) PROVE x \in now
      <4>1. x - p \in 0 .. (n - 1) /\ x = p + (x - p)
        BY <2>2, <3>2
      <4>2. QED
        BY <2>2, <4>1
    <3>3. QED
      BY <3>1, <3>2
  <2>4. QED
    BY <2>3
<1>3. PICK t : t = Apply(s, load)
  OBVIOUS
<1>4. t = [s EXCEPT
             !.pos   = @ + load.step,
             !.used  = IF load.assigns THEN now ELSE @ \cup now,
             !.twice = IF load.assigns THEN {} ELSE @ \cup (s.used \cap now),
             !.top   = [i \in 1..2 |-> Larger(@[i], s.pos + load.reads[i])]]
  BY <1>1, <1>3 DEF Apply
<1>5. DOMAIN s = Fields
  BY DEF Clean
<1>6. DOMAIN t = Fields /\ t = [f \in DOMAIN t |-> t[f]]
  BY <1>4, <1>5
<1>7. /\ t.pos = s.pos + load.step
      /\ t.used = IF load.assigns THEN now ELSE s.used \cup now
      /\ t.twice = IF load.assigns THEN {} ELSE s.twice \cup (s.used \cap now)
      /\ t.top = [i \in 1..2 |-> Larger(s.top[i], s.pos + load.reads[i])]
  BY <1>4, <1>5 DEF Fields
<1>8. SameCall(s, t)
  BY <1>4, <1>5 DEF Fields, SameCall
<1>9. t.pos = q
  BY <1>7 DEF Clean, Fits
<1>10. q \in Nat /\ q >= p /\ s.used = 0 .. (p - 1) /\ s.twice = {}
  BY DEF Clean, Fits, Lanes, Loads
<1>11. t.used = 0 .. (q - 1) /\ t.twice = {}
  <2>1. CASE load.assigns
    <3>1. p = 0
      BY <2>1 DEF Fits
    <3>2. QED
      BY <1>2, <1>7, <2>1, <3>1
  <2>2. CASE ~load.assigns
    <3>1. (0 .. (p - 1)) \cup (p .. (q - 1)) = 0 .. (q - 1)
      BY <1>10
    <3>2. (0 .. (p - 1)) \cap (p .. (q - 1)) = {}
      BY <1>10
    <3>3. QED
      BY <1>2, <1>7, <1>10, <2>2, <3>1, <3>2
  <2>3. QED
    BY <2>1, <2>2
<1>12. \A i \in 1..2 : t.top[i] \in Int /\ t.top[i] <= room[i]
  BY <1>7 DEF Clean, Fits, Larger, Loads
<1>13. QED
  BY <1>3, <1>6, <1>8, <1>9, <1>11, <1>12 DEF Clean, Lanes

\* Running the loads of a way accumulates the coordinates along it.
LEMMA RunsTheWay ==
  ASSUME NEW s, NEW loads, NEW p, NEW q, NEW room,
         Clean(s, p, room), Way(loads, p, q, room)
  PROVE  Clean(Run(s, loads), q, room) /\ SameCall(s, Run(s, loads))
<1>1. PICK at : Stops(loads, p, q, room, at)
  BY DEF Way
<1>2. PICK n \in Nat : n = Len(loads)
  BY DEF Way
<1>3. PICK a : a = Applied(s, loads)
  OBVIOUS
<1>4. a[0] = s /\ \A k \in 1..n : a[k] = Apply(a[k - 1], loads[k])
  BY <1>2, <1>3, LoadsApplied
<1>5. PICK T : T = {k \in 0..n : Clean(a[k], at[k], room) /\ SameCall(s, a[k])}
  OBVIOUS
<1>6. 0 \in T
  BY <1>1, <1>2, <1>4, <1>5 DEF Stops, SameCall
<1>7. ASSUME NEW k \in 1..n, k - 1 \in T PROVE k \in T
  <2>1. Clean(a[k - 1], at[k - 1], room) /\ SameCall(s, a[k - 1])
    BY <1>5, <1>7
  <2>2. at[k - 1] \in Nat /\ Fits(loads[k], at[k - 1], at[k], room)
    BY <1>1, <1>2 DEF Stops
  <2>3. Clean(a[k], at[k], room) /\ SameCall(a[k - 1], a[k])
    BY <1>4, <2>1, <2>2, OneLoad
  <2>4. SameCall(s, a[k])
    BY <2>1, <2>3 DEF SameCall
  <2>5. QED
    BY <1>5, <2>3, <2>4
<1>8. n \in T
  <2>1. 0..n \subseteq T
    BY <1>6, <1>7, UpToN
  <2>2. QED
    BY <2>1
<1>9. at[n] = q /\ Run(s, loads) = a[n]
  BY <1>1, <1>2, <1>3 DEF Stops, Run
<1>10. QED
  BY <1>5, <1>8, <1>9

-----------------------------------------------------------------------------
(* The ways made of straight-line code.                                     *)

LEMMA NoLoad ==
  ASSUME NEW p \in Nat, NEW room
  PROVE  Way(<<>>, p, p, room)
<1>1. Stops(<<>>, p, p, room, [k \in 0..0 |-> p])
  BY DEF Stops
<1>2. QED
  BY <1>1 DEF Way

\* n times the same load.
LEMMA RepeatedLoad ==
  ASSUME NEW n \in Nat, NEW load, NEW p \in Nat, NEW room,
         load \in Loads,
         \A k \in 1..n : Fits(load, p + (k - 1) * load.step, p + k * load.step, room)
  PROVE  Way(Times(n, load), p, p + n * load.step, room)
<1>1. PICK at : at = [k \in 0..n |-> p + k * load.step]
  OBVIOUS
<1>2. /\ Times(n, load) \in Seq(Loads) /\ Len(Times(n, load)) = n
      /\ \A k \in 1..n : Times(n, load)[k] = load
  BY DEF Times
<1>3. load.step \in Nat /\ \A k \in 0..n : k * load.step \in Nat
  BY DEF Loads
<1>4. at \in [0..n -> Nat] /\ at[0] = p /\ at[n] = p + n * load.step
  BY <1>1, <1>3
<1>5. \A k \in 1..n : Fits(load, at[k - 1], at[k], room)
  BY <1>1
<1>6. Stops(Times(n, load), p, p + n * load.step, room, at)
  BY <1>2, <1>4, <1>5 DEF Stops
<1>7. QED
  BY <1>2, <1>6 DEF Way

\* A load that is made under a condition.
LEMMA LoadWhen ==
  ASSUME NEW cond \in BOOLEAN, NEW load, NEW p \in Nat, NEW q \in Nat, NEW room,
         cond => Fits(load, p, q, room), ~cond => q = p
  PROVE  Way(When(cond, load), p, q, room)
<1>1. CASE cond
  <2>1. PICK at : at = [k \in 0..1 |-> IF k = 0 THEN p ELSE q]
    OBVIOUS
  <2>2. When(cond, load) = <<load>>
    BY <1>1 DEF When
  <2>3. Stops(<<load>>, p, q, room, at)
    BY <1>1, <2>1 DEF Stops
  <2>4. load \in Loads
    BY <1>1 DEF Fits
  <2>5. QED
    BY <2>2, <2>3, <2>4 DEF Way
<1>2. CASE ~cond
  BY <1>2, NoLoad DEF When
<1>3. QED
  BY <1>1, <1>2

LEMMA OneAfterOther ==
  ASSUME NEW first, NEW second, NEW p, NEW q, NEW r, NEW room,
         Way(first, p, q, room), Way(second, q, r, room)
  PROVE  Way(first \o second, p, r, room)
<1>1. PICK at : Stops(first, p, q, room, at)
  BY DEF Way
<1>2. PICK on : Stops(second, q, r, room, on)
  BY DEF Way
<1>3. PICK all : all = first \o second
  OBVIOUS
<1>4. PICK m \in Nat : m = Len(first)
  BY DEF Way
<1>5. PICK n \in Nat : n = Len(second)
  BY DEF Way
<1>6. /\ all \in Seq(Loads) /\ Len(all) = m + n
      /\ \A k \in 1..m : all[k] = first[k]
      /\ \A k \in (m + 1)..(m + n) : all[k] = second[k - m]
  BY <1>3, <1>4, <1>5 DEF Way
<1>7. PICK by : by = [k \in 0..(m + n) |-> IF k <= m THEN at[k] ELSE on[k - m]]
  OBVIOUS
<1>8. /\ at \in [0..m -> Nat] /\ at[0] = p /\ at[m] = q
      /\ \A k \in 1..m : Fits(first[k], at[k - 1], at[k], room)
  BY <1>1, <1>4 DEF Stops
<1>9. /\ on \in [0..n -> Nat] /\ on[0] = q /\ on[n] = r
      /\ \A k \in 1..n : Fits(second[k], on[k - 1], on[k], room)
  BY <1>2, <1>5 DEF Stops
<1>10. by \in [0..(m + n) -> Nat] /\ by[0] = p /\ by[m + n] = r
  BY <1>7, <1>8, <1>9
<1>11. ASSUME NEW k \in 1..(m + n) PROVE Fits(all[k], by[k - 1], by[k], room)
  <2>1. CASE k <= m
    BY <1>6, <1>7, <1>8, <2>1
  <2>2. CASE k > m
    <3>1. k - m \in 1..n /\ all[k] = second[k - m] /\ by[k] = on[k - m]
      BY <1>6, <1>7, <2>2
    <3>2. by[k - 1] = on[(k - m) - 1]
      <4>1. CASE k = m + 1
        <5>1. by[k - 1] = at[m]
          BY <1>7, <4>1
        <5>2. QED
          BY <1>8, <1>9, <4>1, <5>1
      <4>2. CASE k # m + 1
        <5>1. k - 1 \in 0..(m + n) /\ ~(k - 1 <= m) /\ (k - 1) - m = (k - m) - 1
          BY <2>2, <4>2
        <5>2. QED
          BY <1>7, <5>1
      <4>3. QED
        BY <4>1, <4>2
    <3>3. QED
      BY <1>9, <3>1, <3>2
  <2>3. QED
    BY <2>1, <2>2
<1>12. Stops(all, p, r, room, by)
  BY <1>6, <1>10, <1>11 DEF Stops
<1>13. QED
  BY <1>3, <1>6, <1>12 DEF Way

-----------------------------------------------------------------------------
(* Single loads, and as many as there are chunks.                           *)

Ends(room, dim) == \A i \in 1..2 : room[i] \in Nat /\ dim <= room[i]

LEMMA FullFits ==
  ASSUME NEW w \in Nat, NEW p \in Nat, NEW room, Ends(room, p + w)
  PROVE  Fits(Full(w), p, p + w, room) /\ Fits(Masked(w), p, p + w, room)
BY DEF Fits, Full, Masked, Load, Loads, Lanes, Ends

LEMMA PartialFits ==
  ASSUME NEW n \in Nat, NEW w \in Nat, NEW p \in Nat, NEW room, Ends(room, p + w)
  PROVE  Fits(Partial(n, w), p, p + n, room)
BY DEF Fits, Partial, Load, Loads, Lanes, Ends

LEMMA AssignedFits ==
  ASSUME NEW load, NEW q, NEW room, Fits(load, 0, q, room)
  PROVE  Fits(Assigned(load), 0, q, room)
BY DEF Fits, Assigned, Loads

LEMMA FullLoads ==
  ASSUME NEW n \in Nat, NEW w \in Nat, NEW p \in Nat, NEW room, Ends(room, p + n * w)
  PROVE  Way(Times(n, Full(w)), p, p + n * w, room)
<1>1. Full(w) \in Loads /\ Full(w).step = w
  BY DEF Full, Load, Loads, Lanes
<1>2. ASSUME NEW k \in 1..n PROVE Fits(Full(w), p + (k - 1) * w, p + k * w, room)
  <2>1. PICK m : m = p + (k - 1) * w
    OBVIOUS
  <2>2. (k - 1) * w \in Nat /\ k * w = (k - 1) * w + w
    OBVIOUS
  <2>3. k * w <= n * w
    <3>1. n * w = k * w + (n - k) * w /\ (n - k) * w >= 0
      OBVIOUS
    <3>2. QED
      BY <3>1
  <2>4. m \in Nat /\ m + w = p + k * w /\ n * w \in Nat
    BY <2>1, <2>2
  <2>5. Ends(room, m + w)
    BY <2>3, <2>4 DEF Ends
  <2>6. QED
    BY <2>1, <2>4, <2>5, FullFits
<1>3. QED
  BY <1>1, <1>2, RepeatedLoad

LEMMA OneFull ==
  ASSUME NEW w \in Nat, NEW p \in Nat, NEW room, Ends(room, p + w)
  PROVE  Way(<<Full(w)>>, p, p + w, room)
<1>1. Way(When(TRUE, Full(w)), p, p + w, room)
  <2>1. Fits(Full(w), p, p + w, room) /\ p + w \in Nat
    BY FullFits
  <2>2. QED
    BY <2>1, LoadWhen
<1>2. QED
  BY <1>1 DEF When

-----------------------------------------------------------------------------
(* Quotient and remainder.                                                  *)

LEMMA DivMod ==
  ASSUME NEW d \in Nat, NEW c \in Nat \ {0}
  PROVE  \E q \in Nat, r \in 0..(c - 1) : q = d \div c /\ r = d % c /\ d = q * c + r
<1>1. d % c \in 0..(c - 1) /\ d \div c \in Nat
  OBVIOUS
<1>2. PICK q \in Nat : q = d \div c
  BY <1>1
<1>3. PICK r \in 0..(c - 1) : r = d % c
  BY <1>1
<1>4. d = c * q + r
  BY <1>2, <1>3
<1>5. d = q * c + r
  BY <1>4
<1>6. QED
  BY <1>2, <1>3, <1>5

LEMMA DivUnique ==
  ASSUME NEW c \in Nat \ {0}, NEW q \in Nat, NEW r \in 0..(c - 1)
  PROVE  (q * c + r) \div c = q /\ (q * c + r) % c = r
<1>1. PICK d \in Nat : d = q * c + r
  OBVIOUS
<1>2. PICK e \in Nat, s \in 0..(c - 1) : e = d \div c /\ s = d % c /\ d = e * c + s
  BY DivMod
<1>5. (q - e) * c = s - r
  BY <1>1, <1>2
<1>6. ~ (q - e >= 1)
  <2>1. SUFFICES ASSUME q - e >= 1 PROVE FALSE
    OBVIOUS
  <2>2. (q - e) * c >= c
    BY <2>1
  <2>3. QED
    BY <1>5, <2>2
<1>7. ~ (e - q >= 1)
  <2>1. SUFFICES ASSUME e - q >= 1 PROVE FALSE
    OBVIOUS
  <2>2. (e - q) * c >= c
    BY <2>1
  <2>3. (q - e) * c = - ((e - q) * c)
    OBVIOUS
  <2>4. QED
    BY <1>5, <2>2, <2>3
<1>8. QED
  BY <1>1, <1>2, <1>5, <1>6, <1>7


-----------------------------------------------------------------------------
(* What a kernel loads before its loop: the residual, whose last part comes *)
(* first.                                                                   *)

\* The part of a register.
LEMMA PartFirst ==
  ASSUME NEW n \in Nat, NEW w \in Nat, n <= w, NEW room, Ends(room, w)
  PROVE  /\ Way(When(n > 0, Masked(n)), 0, n, room)
         /\ Way(When(n > 0, Assigned(Masked(n))), 0, n, room)
         /\ Way(When(n > 0, Partial(n, w)), 0, n, room)
         /\ Way(When(n > 0, Assigned(Partial(n, w))), 0, n, room)
<1>1. Ends(room, 0 + n) /\ Ends(room, 0 + w) /\ 0 + n = n
  BY DEF Ends
<1>2. Fits(Masked(n), 0, n, room) /\ Fits(Partial(n, w), 0, n, room)
  BY <1>1, FullFits, PartialFits
<1>3. Fits(Assigned(Masked(n)), 0, n, room) /\ Fits(Assigned(Partial(n, w)), 0, n, room)
  BY <1>2, AssignedFits
<1>4. (n > 0) \in BOOLEAN /\ (~(n > 0) => n = 0)
  OBVIOUS
<1>5. QED
  BY <1>2, <1>3, <1>4, LoadWhen

\* Then the registers of h elements, two at most.
LEMMA HalfNext ==
  ASSUME NEW h \in Nat \ {0}, NEW r \in 0..(2 * h - 1), NEW first, NEW room, Ends(room, r),
         Way(first, 0, r % h, room)
  PROVE  Way(first \o When(r >= h, Full(h)), 0, r, room)
<1>1. PICK q \in Nat, e \in 0..(h - 1) : q = r \div h /\ e = r % h /\ r = q * h + e
  BY DivMod
<1>2. q \in {0, 1}
  <2>1. SUFFICES ASSUME q >= 2 PROVE FALSE
    OBVIOUS
  <2>2. (q - 2) * h >= 0 /\ q * h = (q - 2) * h + 2 * h
    BY <2>1
  <2>3. QED
    BY <1>1, <2>2
<1>3. (r >= h => r = e + h) /\ (~(r >= h) => r = e)
  BY <1>1, <1>2
<1>4. ASSUME r >= h PROVE Fits(Full(h), e, r, room)
  <2>1. r = e + h /\ e \in Nat
    BY <1>3, <1>4
  <2>2. Ends(room, e + h)
    BY <2>1
  <2>3. QED
    BY <2>1, <2>2, FullFits
<1>5. Way(When(r >= h, Full(h)), e, r, room)
  <2>1. (r >= h) \in BOOLEAN /\ (~(r >= h) => r = e) /\ e \in Nat /\ r \in Nat
    BY <1>3
  <2>2. QED
    BY <1>4, <2>1, LoadWhen
<1>6. QED
  BY <1>1, <1>5, OneAfterOther

\* Then as many as there are.
LEMMA PiecesNext ==
  ASSUME NEW h \in Nat \ {0}, NEW r \in Nat, NEW first, NEW p \in Nat, NEW room,
         Ends(room, p + r), Way(first, p, p + (r % h), room)
  PROVE  Way(first \o Times(r \div h, Full(h)), p, p + r, room)
<1>1. PICK q \in Nat, e \in 0..(h - 1) : q = r \div h /\ e = r % h /\ r = q * h + e
  BY DivMod
<1>2. (p + e) + q * h = p + r
  BY <1>1
<1>3. Way(Times(q, Full(h)), p + e, (p + e) + q * h, room)
  <2>1. Ends(room, (p + e) + q * h) /\ p + e \in Nat
    BY <1>2
  <2>2. QED
    BY <2>1, FullLoads
<1>4. QED
  BY <1>1, <1>2, <1>3, OneAfterOther

-----------------------------------------------------------------------------
(* A whole kernel.                                                          *)

KernelFields == {"isa", "before", "loop", "times", "body", "after", "extra"}

\* From coordinate p on, each of the turns moves w coordinates further.
Course(kernel, dim, room, p, w, turns) ==
  /\ Way(kernel.before, 0, p, room)
  /\ \A t \in 0..(turns - 1) : Way(kernel.body, p + t * w, p + (t + 1) * w, room)
  /\ Way(kernel.after, p + turns * w, dim, room)
  /\ \/ kernel.loop = "for" /\ kernel.times = turns
     \/ kernel.loop = "while" /\ w > 0 /\ p + turns * w = dim
     \/ kernel.loop = "do" /\ w > 0 /\ turns > 0 /\ p + turns * w = dim
  /\ \A i \in 1..2 : kernel.extra[i] \in Nat /\ dim + kernel.extra[i] <= room[i]

Traverses(kernel, dim, room) ==
  /\ DOMAIN kernel = KernelFields
  /\ \E p, w, turns \in Nat : Course(kernel, dim, room, p, w, turns)

Advances(body, w, dim, room) ==
  \A q \in Nat : q + w <= dim => Way(body, q, q + w, room)

LEMMA TurnsAdvance ==
  ASSUME NEW body, NEW w \in Nat, NEW dim \in Nat, NEW room, Advances(body, w, dim, room),
         NEW p \in Nat, NEW turns \in Nat, p + turns * w <= dim
  PROVE  \A t \in 0..(turns - 1) : Way(body, p + t * w, p + (t + 1) * w, room)
<1> SUFFICES ASSUME NEW t \in 0..(turns - 1)
             PROVE  Way(body, p + t * w, p + (t + 1) * w, room)
  OBVIOUS
<1>1. PICK q \in Nat : q = p + t * w
  OBVIOUS
<1>2. q + w = p + (t + 1) * w
  BY <1>1
<1>3. turns * w = (t + 1) * w + (turns - (t + 1)) * w /\ (turns - (t + 1)) * w >= 0
  OBVIOUS
<1>4. turns * w \in Nat /\ (t + 1) * w \in Nat
  OBVIOUS
<1>5. q + w <= dim
  BY <1>2, <1>3, <1>4
<1>6. QED
  BY <1>1, <1>2, <1>5 DEF Advances

LEMMA AdvancesByFull ==
  ASSUME NEW n \in Nat, NEW h \in Nat, NEW w, w = n * h, NEW dim \in Nat, NEW room, Ends(room, dim)
  PROVE  Advances(Times(n, Full(h)), w, dim, room)
<1> SUFFICES ASSUME NEW q \in Nat, q + w <= dim PROVE Way(Times(n, Full(h)), q, q + w, room)
  BY DEF Advances
<1>1. Ends(room, q + n * h)
  BY DEF Ends
<1>2. QED
  BY <1>1, FullLoads

LEMMA AdvancesByOne ==
  ASSUME NEW w \in Nat, NEW dim \in Nat, NEW room, Ends(room, dim)
  PROVE  Advances(<<Full(w)>>, w, dim, room)
<1> SUFFICES ASSUME NEW q \in Nat, q + w <= dim PROVE Way(<<Full(w)>>, q, q + w, room)
  BY DEF Advances
<1>1. Ends(room, q + w)
  BY DEF Ends
<1>2. QED
  BY <1>1, OneFull

\* Turns until the end of the vector, in either kind of loop; a do-while needs one.
LEMMA TurnsToTheEnd ==
  ASSUME NEW isa, NEW w \in Nat \ {0}, NEW p \in Nat, NEW turns \in Nat, NEW dim \in Nat,
         p + turns * w = dim, NEW room, Ends(room, dim),
         NEW before, Way(before, 0, p, room), NEW body, Advances(body, w, dim, room)
  PROVE  /\ Traverses(While(isa, before, body), dim, room)
         /\ turns > 0 => Traverses(DoWhile(isa, before, body), dim, room)
<1>1. \A t \in 0..(turns - 1) : Way(body, p + t * w, p + (t + 1) * w, room)
  <2>1. p + turns * w <= dim /\ w \in Nat
    OBVIOUS
  <2>2. QED
    BY <2>1, TurnsAdvance
<1>2. Way(<<>>, p + turns * w, dim, room)
  BY NoLoad
<1>3. \A i \in 1..2 : dim + 0 <= room[i]
  BY DEF Ends
<1>4. ASSUME NEW k, k = While(isa, before, body) PROVE Traverses(k, dim, room)
  <2>1. /\ k.before = before /\ k.body = body /\ k.after = <<>> /\ k.loop = "while"
        /\ k.extra = <<0, 0>> /\ DOMAIN k = KernelFields
    BY <1>4 DEF While, Kernel, KernelFields
  <2>2. Course(k, dim, room, p, w, turns)
    BY <1>1, <1>2, <1>3, <2>1 DEF Course
  <2>3. QED
    BY <2>1, <2>2 DEF Traverses
<1>5. ASSUME NEW k, k = DoWhile(isa, before, body), turns > 0 PROVE Traverses(k, dim, room)
  <2>1. /\ k.before = before /\ k.body = body /\ k.after = <<>> /\ k.loop = "do"
        /\ k.extra = <<0, 0>> /\ DOMAIN k = KernelFields
    BY <1>5 DEF DoWhile, Kernel, KernelFields
  <2>2. Course(k, dim, room, p, w, turns)
    BY <1>1, <1>2, <1>3, <1>5, <2>1 DEF Course
  <2>3. QED
    BY <2>1, <2>2 DEF Traverses
<1>6. QED
  BY <1>4, <1>5

\* The residual, then whole chunks.
LEMMA ResidualThenChunks ==
  ASSUME NEW isa, NEW c \in Nat \ {0}, NEW dim \in Nat, NEW room, Ends(room, dim),
         NEW before, Way(before, 0, dim % c, room), NEW body, Advances(body, c, dim, room)
  PROVE  /\ Traverses(While(isa, before, body), dim, room)
         /\ dim >= c => Traverses(DoWhile(isa, before, body), dim, room)
<1>1. PICK q \in Nat, e \in 0..(c - 1) : q = dim \div c /\ e = dim % c /\ dim = q * c + e
  BY DivMod
<1>2. e + q * c = dim /\ e \in Nat /\ (dim >= c => q > 0)
  BY <1>1
<1>3. QED
  BY <1>1, <1>2, TurnsToTheEnd

\* A loop of a given number of turns.
LEMMA TurnsOfFor ==
  ASSUME NEW isa, NEW w \in Nat, NEW p \in Nat, NEW turns \in Nat, NEW dim \in Nat, NEW room,
         Ends(room, dim), p + turns * w <= dim,
         NEW before, Way(before, 0, p, room), NEW body, Advances(body, w, dim, room),
         NEW after, Way(after, p + turns * w, dim, room)
  PROVE  Traverses(For(isa, before, turns, body, after), dim, room)
<1>1. \A t \in 0..(turns - 1) : Way(body, p + t * w, p + (t + 1) * w, room)
  BY TurnsAdvance
<1>2. \A i \in 1..2 : dim + 0 <= room[i]
  BY DEF Ends
<1>3. PICK k : k = For(isa, before, turns, body, after)
  OBVIOUS
<1>4. /\ k.before = before /\ k.body = body /\ k.after = after /\ k.loop = "for"
      /\ k.times = turns /\ k.extra = <<0, 0>> /\ DOMAIN k = KernelFields
  BY <1>3 DEF For, Kernel, KernelFields
<1>5. Course(k, dim, room, p, w, turns)
  BY <1>1, <1>2, <1>4 DEF Course
<1>6. QED
  BY <1>3, <1>4, <1>5 DEF Traverses

\* What is read behind the coordinates.
Behind(room, dim, extra1, extra2) ==
  /\ extra1 \in Nat /\ dim + extra1 <= room[1]
  /\ extra2 \in Nat /\ dim + extra2 <= room[2]

LEMMA ReadingBehind ==
  ASSUME NEW k, NEW dim \in Nat, NEW room, Traverses(k, dim, room),
         NEW extra1, NEW extra2, Behind(room, dim, extra1, extra2)
  PROVE  Traverses(Reading(k, extra1, extra2), dim, room)
<1>1. PICK p \in Nat, w \in Nat, turns \in Nat : Course(k, dim, room, p, w, turns)
  BY DEF Traverses
<1>2. PICK l : l = Reading(k, extra1, extra2)
  OBVIOUS
<1>3. /\ DOMAIN l = KernelFields /\ l.before = k.before /\ l.body = k.body /\ l.after = k.after
      /\ l.loop = k.loop /\ l.times = k.times /\ l.extra = <<extra1, extra2>>
  BY <1>2 DEF Reading, Traverses, KernelFields
<1>4. Course(l, dim, room, p, w, turns)
  BY <1>1, <1>3 DEF Course, Behind
<1>5. QED
  BY <1>2, <1>3, <1>4 DEF Traverses

-----------------------------------------------------------------------------
(* The shapes of the kernels for x86-64.                                    *)

\* The residual in one load.
LEMMA WholeResidual ==
  ASSUME NEW isa, NEW c \in Nat \ {0}, NEW dim \in Nat, dim >= c, NEW room, Ends(room, dim),
         NEW r, r = dim % c
  PROVE  /\ Traverses(DoWhile(isa, When(r > 0, Masked(r)), <<Full(c)>>), dim, room)
         /\ Traverses(DoWhile(isa, When(r > 0, Assigned(Masked(r))), <<Full(c)>>), dim, room)
         /\ Traverses(DoWhile(isa, When(r > 0, Assigned(Partial(r, c))), <<Full(c)>>), dim, room)
<1>1. r \in Nat /\ r <= c /\ c \in Nat /\ Ends(room, c)
  BY DEF Ends
<1>2. /\ Way(When(r > 0, Masked(r)), 0, r, room)
      /\ Way(When(r > 0, Assigned(Masked(r))), 0, r, room)
      /\ Way(When(r > 0, Assigned(Partial(r, c))), 0, r, room)
  BY <1>1, PartFirst
<1>3. Advances(<<Full(c)>>, c, dim, room)
  BY AdvancesByOne
<1>4. QED
  BY <1>2, <1>3, ResidualThenChunks

\* Part of a register of half a chunk, then a whole one if the residual has it.
LEMMA ResidualByHalves ==
  ASSUME NEW isa, NEW h \in Nat \ {0}, NEW c, c = 2 * h, NEW dim \in Nat, NEW room,
         Ends(room, dim), NEW r, r = dim % c,
         NEW first, Way(first, 0, r % h, room)
  PROVE  LET before == first \o When(r >= h, Full(h)) IN
         /\ Traverses(While(isa, before, Times(2, Full(h))), dim, room)
         /\ dim >= c => Traverses(DoWhile(isa, before, Times(2, Full(h))), dim, room)
<1> DEFINE before == first \o When(r >= h, Full(h))
<1>1. c \in Nat \ {0} /\ r \in 0..(2 * h - 1)
  OBVIOUS
<1>2. Ends(room, r)
  BY <1>1 DEF Ends
<1>3. Way(before, 0, r, room)
  BY <1>1, <1>2, HalfNext
<1>4. Advances(Times(2, Full(h)), c, dim, room)
  BY AdvancesByFull
<1> HIDE DEF before
<1>5. /\ Traverses(While(isa, before, Times(2, Full(h))), dim, room)
      /\ dim >= c => Traverses(DoWhile(isa, before, Times(2, Full(h))), dim, room)
  BY <1>1, <1>3, <1>4, ResidualThenChunks
<1>6. QED
  BY <1>5 DEF before

\* Part of a register, then as many whole ones as the residual has.
LEMMA ResidualByPieces ==
  ASSUME NEW isa, NEW h \in Nat \ {0}, NEW n \in Nat \ {0}, NEW c, c = n * h, NEW dim \in Nat,
         NEW room, Ends(room, dim), NEW r, r = dim % c,
         NEW first, Way(first, 0, r % h, room)
  PROVE  LET before == first \o Times(r \div h, Full(h)) IN
         /\ Traverses(While(isa, before, Times(n, Full(h))), dim, room)
         /\ dim >= c => Traverses(DoWhile(isa, before, Times(n, Full(h))), dim, room)
         /\ dim >= c => Traverses(DoWhile(isa, before, <<Full(h)>>), dim, room)
<1> DEFINE before == first \o Times(r \div h, Full(h))
<1>1. c \in Nat \ {0}
  OBVIOUS
<1>2. PICK q \in Nat, e \in 0..(c - 1) : q = dim \div c /\ e = dim % c /\ dim = q * c + e
  BY <1>1, DivMod
<1>3. r = e /\ r \in Nat /\ r <= dim
  <2>1. r = e /\ r \in Nat
    BY <1>1, <1>2
  <2>2. q * c >= 0
    BY <1>1
  <2>3. QED
    BY <1>1, <1>2, <2>1, <2>2
<1>4. Ends(room, 0 + r) /\ 0 + (r % h) = r % h /\ 0 + r = r
  BY <1>3 DEF Ends
<1>5. Way(before, 0, r, room)
  <2>1. Way(first, 0, 0 + (r % h), room)
    BY <1>4
  <2>2. Way(before, 0, 0 + r, room)
    BY <1>3, <1>4, <2>1, PiecesNext
  <2>3. QED
    BY <1>4, <2>2
<1>6. Advances(Times(n, Full(h)), c, dim, room)
  BY AdvancesByFull
<1>7. Advances(<<Full(h)>>, h, dim, room)
  BY AdvancesByOne
<1> HIDE DEF before
<1>8. /\ Traverses(While(isa, before, Times(n, Full(h))), dim, room)
      /\ dim >= c => Traverses(DoWhile(isa, before, Times(n, Full(h))), dim, room)
  BY <1>1, <1>5, <1>6, ResidualThenChunks
<1>9. ASSUME dim >= c PROVE Traverses(DoWhile(isa, before, <<Full(h)>>), dim, room)
  <2>1. q > 0
    <3>1. SUFFICES ASSUME q = 0 PROVE FALSE
      OBVIOUS
    <3>2. q * c = 0
      BY <1>1, <3>1
    <3>3. QED
      BY <1>1, <1>2, <1>9, <3>2
  <2>2. PICK turns \in Nat : turns = q * n
    OBVIOUS
  <2>3. turns > 0
    BY <2>1, <2>2
  <2>4. r + turns * h = dim
    <3>1. turns * h = q * c
      BY <2>2
    <3>2. QED
      BY <1>2, <1>3, <3>1
  <2>5. QED
    BY <1>3, <1>5, <1>7, <2>3, <2>4, TurnsToTheEnd
<1>10. QED
  BY <1>8, <1>9 DEF before

\* The part of a register that comes first.
LEMMA PartOfResidual ==
  ASSUME NEW h \in Nat \ {0}, NEW r \in Nat, NEW room, Ends(room, h)
  PROVE  /\ Way(When(r % h > 0, Masked(r % h)), 0, r % h, room)
         /\ Way(When(r % h > 0, Assigned(Masked(r % h))), 0, r % h, room)
         /\ Way(When(r % h > 0, Partial(r % h, h)), 0, r % h, room)
         /\ Way(When(r % h > 0, Assigned(Partial(r % h, h))), 0, r % h, room)
<1>1. r % h \in Nat /\ r % h <= h /\ h \in Nat
  OBVIOUS
<1>2. QED
  BY <1>1, PartFirst

LEMMA HalvesLoop ==
  ASSUME NEW isa, NEW h \in Nat \ {0}, NEW c, c = 2 * h, NEW dim \in Nat, dim >= h,
         NEW room, Ends(room, dim)
  PROVE  LET r == dim % c IN
         /\ dim >= c =>
              Traverses(DoWhile(isa, When(r % h > 0, Assigned(Partial(r % h, h))) \o When(r >= h, Full(h)),
                                Times(2, Full(h))), dim, room)
         /\ dim >= c =>
              Traverses(DoWhile(isa, When(r % h > 0, Partial(r % h, h)) \o When(r >= h, Full(h)),
                                Times(2, Full(h))), dim, room)
         /\ Traverses(While(isa, When(r % h > 0, Partial(r % h, h)) \o When(r >= h, Full(h)),
                            Times(2, Full(h))), dim, room)
         /\ Traverses(While(isa, When(r % h > 0, Masked(r % h)) \o When(r >= h, Full(h)),
                            Times(2, Full(h))), dim, room)
<1>1. PICK r : r = dim % c
  OBVIOUS
<1>2. r \in Nat /\ h <= dim
  BY <1>1
<1>3. Ends(room, h)
  BY <1>2 DEF Ends
<1>4. /\ Way(When(r % h > 0, Masked(r % h)), 0, r % h, room)
      /\ Way(When(r % h > 0, Partial(r % h, h)), 0, r % h, room)
      /\ Way(When(r % h > 0, Assigned(Partial(r % h, h))), 0, r % h, room)
  BY <1>2, <1>3, PartOfResidual
<1>5. QED
  BY <1>1, <1>4, ResidualByHalves, Zenon

LEMMA PiecesLoop ==
  ASSUME NEW isa, NEW h \in Nat \ {0}, NEW n \in Nat \ {0}, NEW c, c = n * h,
         NEW dim \in Nat, dim >= h, NEW room, Ends(room, dim)
  PROVE  LET r == dim % c IN
         /\ dim >= c =>
             /\ Traverses(DoWhile(isa, When(r % h > 0, Assigned(Masked(r % h))) \o Times(r \div h, Full(h)),
                                  Times(n, Full(h))), dim, room)
             /\ Traverses(DoWhile(isa, When(r % h > 0, Assigned(Masked(r % h))) \o Times(r \div h, Full(h)),
                                  <<Full(h)>>), dim, room)
             /\ Traverses(DoWhile(isa, When(r % h > 0, Assigned(Partial(r % h, h))) \o Times(r \div h, Full(h)),
                                  Times(n, Full(h))), dim, room)
             /\ Traverses(DoWhile(isa, When(r % h > 0, Partial(r % h, h)) \o Times(r \div h, Full(h)),
                                  Times(n, Full(h))), dim, room)
         /\ Traverses(While(isa, When(r % h > 0, Partial(r % h, h)) \o Times(r \div h, Full(h)),
                            Times(n, Full(h))), dim, room)
<1>1. PICK r : r = dim % c
  OBVIOUS
<1>2. r \in Nat /\ c \in Nat \ {0}
  BY <1>1
<1>3. Ends(room, h)
  BY DEF Ends
<1>4. /\ Way(When(r % h > 0, Assigned(Masked(r % h))), 0, r % h, room)
      /\ Way(When(r % h > 0, Partial(r % h, h)), 0, r % h, room)
      /\ Way(When(r % h > 0, Assigned(Partial(r % h, h))), 0, r % h, room)
  BY <1>2, <1>3, PartOfResidual
<1>5. QED
  BY <1>1, <1>4, ResidualByPieces, Zenon

-----------------------------------------------------------------------------
(* The files for x86-64.                                                    *)

\* Fewer coordinates are left to the functions without optimization.
Shortest(func) ==
  CASE func \in {"FP64_IP", "FP64_L2"} -> 8
    [] func \in {"FP32_IP", "FP32_L2", "SQ8_FP32_IP", "SQ8_FP32_Cosine", "SQ8_FP32_L2"} -> 16
    [] func \in SQ8_SQ8s -> 64
    [] OTHER -> 32

\* The elements behind the coordinates of the two blobs.
MetadataOf(func) ==
  CASE func \in {"INT8_Cosine", "UINT8_Cosine"}    -> <<4, 4>>
    [] func \in {"SQ8_FP32_IP", "SQ8_FP32_Cosine"} -> <<12, 1>>
    [] func = "SQ8_FP32_L2"                        -> <<16, 2>>
    [] func \in {"SQ8_SQ8_IP", "SQ8_SQ8_Cosine"}   -> <<12, 12>>
    [] func = "SQ8_SQ8_L2"                         -> <<16, 16>>
    [] OTHER                                       -> <<0, 0>>

RoomFor(func, dim, room) ==
  \A i \in 1..2 : room[i] \in Nat /\ dim + MetadataOf(func)[i] <= room[i]

LEMMA Sizes ==
  /\ 2 \in Nat \ {0} /\ 4 \in Nat \ {0} /\ 8 \in Nat \ {0} /\ 16 \in Nat \ {0}
  /\ 32 \in Nat \ {0} /\ 64 \in Nat \ {0}
  /\ 8 = 2 * 4 /\ 16 = 2 * 8 /\ 32 = 2 * 16 /\ 64 = 2 * 32
  /\ 8 = 4 * 2 /\ 16 = 4 * 4 /\ 32 = 4 * 8 /\ 64 = 4 * 16
OBVIOUS

LEMMA HalvesOf16 == 8 \in Nat \ {0} /\ 16 = 2 * 8
OBVIOUS

LEMMA HalvesOf32 == 16 \in Nat \ {0} /\ 32 = 2 * 16
OBVIOUS

LEMMA PiecesOf16 == 4 \in Nat \ {0} /\ 16 = 4 * 4
OBVIOUS

LEMMA PiecesOf32 == 4 \in Nat \ {0} /\ 8 \in Nat \ {0} /\ 32 = 4 * 8
OBVIOUS

LEMMA AVX512BF16_VL_Traverses ==
  ASSUME NEW dim \in Nat, dim >= 32, NEW room, Ends(room, dim)
  PROVE  Traverses(AVX512BF16_VL("BF16_IP", dim), dim, room)
<1>1. Traverses(BF16_InnerProductSIMD32_AVX512BF16_VL(dim, dim % 32), dim, room)
  BY Sizes, WholeResidual, Zenon DEF BF16_InnerProductSIMD32_AVX512BF16_VL
<1>2. QED
  BY <1>1 DEF AVX512BF16_VL, CHOOSE_IMPLEMENTATION

LEMMA AVX512FP16_VL_Traverses ==
  ASSUME NEW func \in FP16s, NEW dim \in Nat, dim >= 32, NEW room, Ends(room, dim)
  PROVE  Traverses(AVX512FP16_VL(func, dim), dim, room)
<1>1. /\ Traverses(FP16_InnerProductSIMD32_AVX512FP16_VL(dim, dim % 32), dim, room)
      /\ Traverses(FP16_L2SqrSIMD32_AVX512FP16_VL(dim, dim % 32), dim, room)
  BY Sizes, WholeResidual, Zenon
     DEF FP16_InnerProductSIMD32_AVX512FP16_VL, FP16_L2SqrSIMD32_AVX512FP16_VL
<1>2. QED
  BY <1>1 DEF AVX512FP16_VL, FP16s, CHOOSE_IMPLEMENTATION

LEMMA AVX512BW_VBMI2_Traverses ==
  ASSUME NEW func \in BF16s, NEW dim \in Nat, dim >= 32, NEW room, Ends(room, dim)
  PROVE  Traverses(AVX512BW_VBMI2(func, dim), dim, room)
<1>1. PICK r \in 0..31 : r = dim % 32
  OBVIOUS
<1>2. PICK n \in 0..15 : n = r % 16
  OBVIOUS
<1>3. /\ r >= 16 => r = 16 + n
      /\ ~(r >= 16) => r = n
      /\ ~(r \notin {0, 16}) => n = 0
  BY <1>2
<1>4. PICK p \in {0, 16} : p = IF r >= 16 THEN 16 ELSE 0
  OBVIOUS
<1>5. r = p + n /\ Ends(room, r) /\ Ends(room, 0 + 16) /\ Ends(room, p + n)
  BY <1>3, <1>4 DEF Ends
<1>6. Way(When(r >= 16, Masked(16)), 0, p, room)
  <2>1. Fits(Masked(16), 0, 0 + 16, room)
    BY <1>5, FullFits
  <2>2. /\ (r >= 16) \in BOOLEAN /\ 0 \in Nat /\ p \in Nat
        /\ (r >= 16 => Fits(Masked(16), 0, p, room)) /\ (~(r >= 16) => p = 0)
    BY <1>4, <2>1
  <2>3. QED
    BY <2>2, LoadWhen
<1>7. Way(When(r \notin {0, 16}, Masked(r % 16)), p, r, room)
  <2>1. Fits(Masked(n), p, p + n, room)
    BY <1>5, FullFits
  <2>2. /\ (r \notin {0, 16}) \in BOOLEAN /\ p \in Nat /\ r \in Nat
        /\ (r \notin {0, 16} => Fits(Masked(n), p, r, room))
        /\ (~(r \notin {0, 16}) => r = p)
    BY <1>3, <1>5, <2>1
  <2>3. QED
    BY <1>2, <2>2, LoadWhen
<1>8. PICK before : before = When(r >= 16, Masked(16)) \o When(r \notin {0, 16}, Masked(r % 16))
  OBVIOUS
<1>9. Way(before, 0, dim % 32, room)
  BY <1>1, <1>6, <1>7, <1>8, OneAfterOther
<1>10. Advances(<<Full(32)>>, 32, dim, room)
  BY AdvancesByOne
<1>11. \A isa : Traverses(DoWhile(isa, before, <<Full(32)>>), dim, room)
  BY <1>9, <1>10, Sizes, ResidualThenChunks, Zenon
<1>12. QED
  BY <1>1, <1>8, <1>11
     DEF AVX512BW_VBMI2, BF16s, CHOOSE_IMPLEMENTATION, BF16_InnerProductSIMD32_AVX512BW_VBMI2,
         BF16_L2SqrSIMD32_AVX512BW_VBMI2

LEMMA AVX512F_Traverses ==
  ASSUME NEW func \in Floats \cup FP16s, NEW dim \in Nat, dim >= Shortest(func),
         NEW room, Ends(room, dim)
  PROVE  Traverses(AVX512F(func, dim), dim, room)
<1>1. ASSUME dim >= 16
      PROVE  /\ Traverses(FP32_InnerProductSIMD16_AVX512(dim, dim % 16), dim, room)
             /\ Traverses(FP32_L2SqrSIMD16_AVX512(dim, dim % 16), dim, room)
  BY <1>1, Sizes, WholeResidual, Zenon
     DEF FP32_InnerProductSIMD16_AVX512, FP32_L2SqrSIMD16_AVX512
<1>2. ASSUME dim >= 8
      PROVE  /\ Traverses(FP64_InnerProductSIMD8_AVX512(dim, dim % 8), dim, room)
             /\ Traverses(FP64_L2SqrSIMD8_AVX512(dim, dim % 8), dim, room)
  BY <1>2, Sizes, WholeResidual, Zenon
     DEF FP64_InnerProductSIMD8_AVX512, FP64_L2SqrSIMD8_AVX512
<1>3. ASSUME dim >= 32
      PROVE  /\ Traverses(FP16_InnerProductSIMD32_AVX512(dim, dim % 32), dim, room)
             /\ Traverses(FP16_L2SqrSIMD32_AVX512(dim, dim % 32), dim, room)
  <2>1. dim >= 16
    BY <1>3
  <2>2. QED
    BY <1>3, <2>1, HalvesOf32, HalvesLoop, Zenon
       DEF FP16_InnerProductSIMD32_AVX512, FP16_L2SqrSIMD32_AVX512
<1>4. QED
  BY <1>1, <1>2, <1>3 DEF AVX512F, Floats, FP16s, Shortest, CHOOSE_IMPLEMENTATION

LEMMA AVX_Traverses ==
  ASSUME NEW func \in Floats, NEW dim \in Nat, dim >= Shortest(func), NEW room, Ends(room, dim)
  PROVE  Traverses(AVX(func, dim), dim, room)
<1>1. ASSUME dim >= 16
      PROVE  /\ Traverses(FP32_InnerProductSIMD16_AVX(dim, dim % 16), dim, room)
             /\ Traverses(FP32_L2SqrSIMD16_AVX(dim, dim % 16), dim, room)
  <2>1. dim >= 8
    BY <1>1
  <2>2. QED
    BY <1>1, <2>1, Sizes, HalvesLoop, Zenon
       DEF FP32_InnerProductSIMD16_AVX, FP32_L2SqrSIMD16_AVX
<1>2. ASSUME dim >= 8
      PROVE  /\ Traverses(FP64_InnerProductSIMD8_AVX(dim, dim % 8), dim, room)
             /\ Traverses(FP64_L2SqrSIMD8_AVX(dim, dim % 8), dim, room)
  <2>1. dim >= 4
    BY <1>2
  <2>2. QED
    BY <1>2, <2>1, Sizes, HalvesLoop, Zenon
       DEF FP64_InnerProductSIMD8_AVX, FP64_L2SqrSIMD8_AVX
<1>3. QED
  BY <1>1, <1>2 DEF AVX, Floats, Shortest, CHOOSE_IMPLEMENTATION

LEMMA F16C_Traverses ==
  ASSUME NEW func \in FP16s, NEW dim \in Nat, dim >= 32, NEW room, Ends(room, dim)
  PROVE  Traverses(F16C(func, dim), dim, room)
<1>1. dim >= 8
  OBVIOUS
<1>2. Traverses(FP16_InnerProductSIMD32_F16C(dim, dim % 32), dim, room)
  BY <1>1, PiecesOf32, PiecesLoop, Zenon DEF FP16_InnerProductSIMD32_F16C
<1>3. Traverses(FP16_L2SqrSIMD32_F16C(dim, dim % 32), dim, room)
  BY <1>1, PiecesOf32, PiecesLoop, Zenon DEF FP16_L2SqrSIMD32_F16C
<1>4. QED
  BY <1>2, <1>3 DEF F16C, FP16s, CHOOSE_IMPLEMENTATION

\* The IP kernel for singles loads one, two or three of them by different means.
LEMMA SSE_Traverses ==
  ASSUME NEW func \in Floats, NEW dim \in Nat, dim >= Shortest(func), NEW room, Ends(room, dim)
  PROVE  Traverses(SSE(func, dim), dim, room)
<1>1. ASSUME dim >= 16 PROVE Traverses(FP32_InnerProductSIMD16_SSE(dim, dim % 16), dim, room)
  <2>1. dim >= 4
    BY <1>1
  <2>2. QED
    BY <1>1, <2>1, Sizes, PiecesLoop, Zenon DEF FP32_InnerProductSIMD16_SSE
<1>2. ASSUME dim >= 16 PROVE Traverses(FP32_L2SqrSIMD16_SSE(dim, dim % 16), dim, room)
  <2>1. PICK r \in 0..15 : r = dim % 16
    OBVIOUS
  <2>2. PICK n \in 0..3 : n = r % 4
    OBVIOUS
  <2>3. PICK p \in {0, 3} : p = IF n = 3 THEN 3 ELSE 0
    OBVIOUS
  <2>4. Ends(room, 4) /\ Ends(room, n)
    BY <1>2 DEF Ends
  <2>5. Way(When(n = 3, Assigned(Partial(3, 4))), 0, p, room)
    <3>1. Fits(Partial(3, 4), 0, 3, room)
      <4>1. Ends(room, 0 + 4) /\ 0 + 3 = 3
        BY <2>4
      <4>2. QED
        BY <4>1, PartialFits
    <3>2. Fits(Assigned(Partial(3, 4)), 0, 3, room)
      BY <3>1, AssignedFits
    <3>3. /\ (n = 3) \in BOOLEAN /\ 0 \in Nat /\ p \in Nat
          /\ (n = 3 => Fits(Assigned(Partial(3, 4)), 0, p, room)) /\ (~(n = 3) => p = 0)
      BY <2>3, <3>2
    <3>4. QED
      BY <3>3, LoadWhen
  <2>6. Way(When(n \in {1, 2}, Assigned(Masked(n))), p, n, room)
    <3>1. Fits(Masked(n), 0, n, room)
      <4>1. Ends(room, 0 + n) /\ 0 + n = n
        BY <2>4
      <4>2. QED
        BY <4>1, FullFits
    <3>2. Fits(Assigned(Masked(n)), 0, n, room)
      BY <3>1, AssignedFits
    <3>3. /\ (n \in {1, 2}) \in BOOLEAN /\ n \in Nat /\ p \in Nat
          /\ (n \in {1, 2} => Fits(Assigned(Masked(n)), p, n, room)) /\ (~(n \in {1, 2}) => n = p)
      BY <2>3, <3>2
    <3>4. QED
      BY <3>3, LoadWhen
  <2>7. PICK first : first = When(n = 3, Assigned(Partial(3, 4)))
                               \o When(n \in {1, 2}, Assigned(Masked(n)))
    OBVIOUS
  <2>8. Way(first, 0, r % 4, room)
    BY <2>2, <2>5, <2>6, <2>7, OneAfterOther
  <2>9. Traverses(DoWhile(COMPILE_FLAGS.SSE, first \o Times(r \div 4, Full(4)), Times(4, Full(4))), dim, room)
    BY <1>2, <2>1, <2>8, Sizes, ResidualByPieces, Zenon
  <2>10. QED
    BY <2>1, <2>2, <2>7, <2>9 DEF FP32_L2SqrSIMD16_SSE
<1>3. ASSUME dim >= 8
      PROVE  /\ Traverses(FP64_InnerProductSIMD8_SSE(dim, dim % 8), dim, room)
             /\ Traverses(FP64_L2SqrSIMD8_SSE(dim, dim % 8), dim, room)
  <2>1. PICK r \in 0..7 : r = dim % 8
    OBVIOUS
  <2>2. When(r % 2 = 1, Assigned(Masked(1))) = When(r % 2 > 0, Assigned(Masked(r % 2)))
    <3>1. r % 2 \in {0, 1}
      OBVIOUS
    <3>2. QED
      BY <3>1 DEF When
  <2>3. dim >= 2
    BY <1>3
  <2>4. Traverses(DoWhile(COMPILE_FLAGS.SSE, When(r % 2 > 0, Assigned(Masked(r % 2))) \o Times(r \div 2, Full(2)),
                          Times(4, Full(2))), dim, room)
    BY <1>3, <2>1, <2>3, Sizes, PiecesLoop, Zenon
  <2>5. QED
    BY <2>1, <2>2, <2>4 DEF FP64_InnerProductSIMD8_SSE, FP64_L2SqrSIMD8_SSE
<1>4. QED
  BY <1>1, <1>2, <1>3 DEF SSE, Floats, Shortest, CHOOSE_IMPLEMENTATION

\* Three steps: the fewest are masked, four come from half a register, the rest are whole.
LEMMA SSE3_Traverses ==
  ASSUME NEW func \in BF16s, NEW dim \in Nat, dim >= 32, NEW room, Ends(room, dim)
  PROVE  Traverses(SSE3(func, dim), dim, room)
<1>1. PICK r \in 0..31 : r = dim % 32
  OBVIOUS
<1>2. PICK n \in 0..7 : n = r % 8
  OBVIOUS
<1>3. PICK m \in 0..3 : m = r % 4
  OBVIOUS
<1>4. (n >= 4 => n = m + 4) /\ (~(n >= 4) => n = m)
  BY <1>2, <1>3
<1>5. Ends(room, 4) /\ Ends(room, m + 8)
  BY DEF Ends
<1>6. Way(When(m > 0, Masked(m)), 0, m, room)
  BY <1>3, <1>5, Sizes, PartOfResidual
<1>7. Way(When(n >= 4, Partial(4, 8)), m, n, room)
  <2>1. Fits(Partial(4, 8), m, m + 4, room)
    BY <1>5, PartialFits
  <2>2. /\ (n >= 4) \in BOOLEAN /\ n \in Nat /\ m \in Nat
        /\ (n >= 4 => Fits(Partial(4, 8), m, n, room)) /\ (~(n >= 4) => n = m)
    BY <1>4, <2>1
  <2>3. QED
    BY <2>2, LoadWhen
<1>8. PICK first : first = When(m > 0, Masked(m)) \o When(n >= 4, Partial(4, 8))
  OBVIOUS
<1>9. Way(first, 0, r % 8, room)
  BY <1>2, <1>6, <1>7, <1>8, OneAfterOther
<1>10. Traverses(DoWhile(COMPILE_FLAGS.SSE3, first \o Times(r \div 8, Full(8)), Times(4, Full(8))), dim, room)
  BY <1>1, <1>9, Sizes, ResidualByPieces, Zenon
<1>11. QED
  BY <1>1, <1>2, <1>3, <1>8, <1>10
     DEF SSE3, BF16s, CHOOSE_IMPLEMENTATION, BF16_InnerProductSIMD32_SSE3, BF16_L2SqrSIMD32_SSE3

\* The lanes blended in from the halves are those of the first r elements.
LEMMA HalvesAreLanes ==
  ASSUME NEW r \in 0..15
  PROVE  HalvesUsed(r) = Lanes(r)
<1>1. ASSUME NEW n \in 0..8, NEW i
      PROVE  /\ i \in LowHalf(n) <=> (i \in 0..3 /\ i < n) \/ (i \in 8..11 /\ i < n + 4)
             /\ i \in HighHalf(n) <=> (i \in 4..7 /\ i < n + 4) \/ (i \in 12..15 /\ i < n + 8)
  BY DEF LowHalf, HighHalf
<1>2. CASE r <= 4
  <2>1. \A i : i \in HalvesUsed(r) <=> i \in Lanes(r)
    BY <1>1, <1>2 DEF HalvesUsed, Lanes
  <2>2. QED
    BY <2>1
<1>3. CASE r > 4 /\ r <= 8
  <2>1. \A i : i \in HalvesUsed(r) <=> i \in Lanes(r)
    BY <1>1, <1>3 DEF HalvesUsed, Lanes
  <2>2. QED
    BY <2>1
<1>4. CASE r > 8 /\ r < 12
  <2>1. \A i : i \in HalvesUsed(r) <=> i \in Lanes(r)
    BY <1>1, <1>4 DEF HalvesUsed, Lanes
  <2>2. QED
    BY <2>1
<1>5. CASE r >= 12
  <2>1. \A i : i \in HalvesUsed(r) <=> i \in Lanes(r)
    BY <1>1, <1>5 DEF HalvesUsed, Lanes
  <2>2. QED
    BY <2>1
<1>6. QED
  BY <1>2, <1>3, <1>4, <1>5

LEMMA RoomBehind ==
  ASSUME NEW func \in Floats \cup BF16s \cup FP16s \cup Integers8 \cup SQ8_FP32s \cup SQ8_SQ8s,
         NEW dim \in Nat, NEW room, RoomFor(func, dim, room)
  PROVE  /\ Ends(room, dim)
         /\ func \in {"INT8_Cosine", "UINT8_Cosine"} => Behind(room, dim, NormBytes, NormBytes)
         /\ func \in SQ8_FP32s => Behind(room, dim, UpTo(StorageDelta), QuerySum + 1)
         /\ func = "SQ8_FP32_L2" => Behind(room, dim, UpTo(StorageSquares), QuerySquares + 1)
         /\ func \in SQ8_SQ8s => Behind(room, dim, UpTo(StorageSum), UpTo(StorageSum))
         /\ func = "SQ8_SQ8_L2" => Behind(room, dim, UpTo(StorageSquares), UpTo(StorageSquares))
<1>1. PICK m : m = MetadataOf(func)
  OBVIOUS
<1>2. /\ room[1] \in Nat /\ dim + m[1] <= room[1]
      /\ room[2] \in Nat /\ dim + m[2] <= room[2]
  BY <1>1 DEF RoomFor
<1> USE DEF UpTo, Float, StorageDelta, StorageSum, StorageSquares, QuerySum, QuerySquares, NormBytes
<1>3. CASE func \in {"INT8_Cosine", "UINT8_Cosine"}
  <2>1. m = <<4, 4>>
    BY <1>1, <1>3 DEF MetadataOf
  <2>2. QED
    BY <1>2, <1>3, <2>1 DEF Ends, Behind, SQ8_FP32s, SQ8_SQ8s
<1>4. CASE func \in SQ8_FP32s
  <2>1. m = IF func = "SQ8_FP32_L2" THEN <<16, 2>> ELSE <<12, 1>>
    BY <1>1, <1>4 DEF MetadataOf, SQ8_FP32s
  <2>2. QED
    BY <1>2, <1>4, <2>1 DEF Ends, Behind, SQ8_FP32s, SQ8_SQ8s
<1>5. CASE func \in SQ8_SQ8s
  <2>1. m = IF func = "SQ8_SQ8_L2" THEN <<16, 16>> ELSE <<12, 12>>
    BY <1>1, <1>5 DEF MetadataOf, SQ8_SQ8s
  <2>2. QED
    BY <1>2, <1>5, <2>1 DEF Ends, Behind, SQ8_FP32s, SQ8_SQ8s
<1>6. CASE func \in Floats \cup BF16s \cup FP16s \cup (Integers8 \ {"INT8_Cosine", "UINT8_Cosine"})
  <2>1. m = <<0, 0>>
    BY <1>1, <1>6 DEF MetadataOf, Floats, BF16s, FP16s, Integers8
  <2>2. QED
    BY <1>2, <1>6, <2>1 DEF Ends, Behind, SQ8_FP32s, SQ8_SQ8s, Floats, BF16s, FP16s, Integers8
<1>7. QED
  BY <1>3, <1>4, <1>5, <1>6

LEMMA AVX2_BF16_Traverses ==
  ASSUME NEW func \in BF16s, NEW dim \in Nat, dim >= 32, NEW room, Ends(room, dim)
  PROVE  Traverses(AVX2(func, dim), dim, room)
<1>1. PICK r \in 0..31 : r = dim % 32
  OBVIOUS
<1>2. PICK n \in 0..15 : n = r % 16
  OBVIOUS
<1>3. Load(HalvesUsed(n), 16, 16, n) = Partial(n, 16)
  BY HalvesAreLanes DEF Partial
<1>4. dim >= 16
  OBVIOUS
<1>5. Traverses(DoWhile(COMPILE_FLAGS.AVX2, When(r % 16 > 0, Partial(r % 16, 16)) \o When(r >= 16, Full(16)),
                        Times(2, Full(16))), dim, room)
  BY <1>1, <1>4, HalvesOf32, HalvesLoop, Zenon
<1>6. QED
  BY <1>1, <1>2, <1>3, <1>5
     DEF AVX2, BF16s, CHOOSE_IMPLEMENTATION, BF16_InnerProductSIMD32_AVX2, BF16_L2SqrSIMD32_AVX2

\* The kernels of SQ8 against singles read the metadata they need and no more.
LEMMA ReadingSQ8_FP32 ==
  ASSUME NEW func \in SQ8_FP32s, NEW dim \in Nat, NEW room, RoomFor(func, dim, room),
         NEW k, Traverses(k, dim, room)
  PROVE  LET ip == Reading(k, UpTo(StorageDelta), QuerySum + 1) IN
         /\ Traverses(ip, dim, room)
         /\ func = "SQ8_FP32_L2" =>
              Traverses(Reading(ip, UpTo(StorageSquares), QuerySquares + 1), dim, room)
<1>1. PICK ip : ip = Reading(k, UpTo(StorageDelta), QuerySum + 1)
  OBVIOUS
<1>2. /\ Behind(room, dim, UpTo(StorageDelta), QuerySum + 1)
      /\ func = "SQ8_FP32_L2" => Behind(room, dim, UpTo(StorageSquares), QuerySquares + 1)
  BY RoomBehind
<1>3. Traverses(ip, dim, room)
  BY <1>1, <1>2, ReadingBehind
<1>4. func = "SQ8_FP32_L2" =>
        Traverses(Reading(ip, UpTo(StorageSquares), QuerySquares + 1), dim, room)
  BY <1>2, <1>3, ReadingBehind
<1>5. QED
  BY <1>1, <1>3, <1>4

LEMMA ReadingSQ8_SQ8 ==
  ASSUME NEW func \in SQ8_SQ8s, NEW dim \in Nat, NEW room, RoomFor(func, dim, room),
         NEW k, Traverses(k, dim, room)
  PROVE  LET ip == Reading(k, UpTo(StorageSum), UpTo(StorageSum)) IN
         /\ Traverses(ip, dim, room)
         /\ func = "SQ8_SQ8_L2" =>
              Traverses(Reading(ip, UpTo(StorageSquares), UpTo(StorageSquares)), dim, room)
<1>1. PICK ip : ip = Reading(k, UpTo(StorageSum), UpTo(StorageSum))
  OBVIOUS
<1>2. /\ Behind(room, dim, UpTo(StorageSum), UpTo(StorageSum))
      /\ func = "SQ8_SQ8_L2" => Behind(room, dim, UpTo(StorageSquares), UpTo(StorageSquares))
  BY RoomBehind
<1>3. Traverses(ip, dim, room)
  BY <1>1, <1>2, ReadingBehind
<1>4. func = "SQ8_SQ8_L2" =>
        Traverses(Reading(ip, UpTo(StorageSquares), UpTo(StorageSquares)), dim, room)
  BY <1>2, <1>3, ReadingBehind
<1>5. QED
  BY <1>1, <1>3, <1>4

LEMMA AVX2_SQ8_Traverses ==
  ASSUME NEW func \in SQ8_FP32s, NEW dim \in Nat, dim >= 16, NEW room, RoomFor(func, dim, room)
  PROVE  Traverses(AVX2(func, dim), dim, room) /\ Traverses(AVX2_FMA(func, dim), dim, room)
<1>1. Ends(room, dim) /\ dim >= 8
  BY RoomBehind
<1>2. PICK k : k = DoWhile(COMPILE_FLAGS.AVX2, When((dim % 16) % 8 > 0, Assigned(Partial((dim % 16) % 8, 8)))
                                       \o When(dim % 16 >= 8, Full(8)), Times(2, Full(8)))
  OBVIOUS
<1>3. PICK l : l = DoWhile(COMPILE_FLAGS.AVX2_FMA,
                           When((dim % 16) % 8 > 0, Assigned(Partial((dim % 16) % 8, 8)))
                             \o When(dim % 16 >= 8, Full(8)), Times(2, Full(8)))
  OBVIOUS
<1>4. Traverses(k, dim, room) /\ Traverses(l, dim, room)
  BY <1>1, <1>2, <1>3, HalvesOf16, HalvesLoop, Zenon
<1>5. Traverses(AVX2(func, dim), dim, room)
  BY <1>2, <1>4, ReadingSQ8_FP32
     DEF AVX2, SQ8_FP32s, CHOOSE_IMPLEMENTATION, SQ8_FP32_InnerProductImp_AVX2,
         SQ8_FP32_InnerProductSIMD16_AVX2, SQ8_FP32_CosineSIMD16_AVX2, SQ8_FP32_L2SqrSIMD16_AVX2
<1>6. Traverses(AVX2_FMA(func, dim), dim, room)
  BY <1>3, <1>4, ReadingSQ8_FP32
     DEF AVX2_FMA, SQ8_FP32s, CHOOSE_IMPLEMENTATION, SQ8_FP32_InnerProductImp_FMA,
         SQ8_FP32_InnerProductSIMD16_AVX2_FMA, SQ8_FP32_CosineSIMD16_AVX2_FMA,
         SQ8_FP32_L2SqrSIMD16_AVX2_FMA
<1>7. QED
  BY <1>5, <1>6

LEMMA SSE4_Traverses ==
  ASSUME NEW func \in SQ8_FP32s, NEW dim \in Nat, dim >= 16, NEW room, RoomFor(func, dim, room)
  PROVE  Traverses(SSE4(func, dim), dim, room)
<1>1. Ends(room, dim) /\ dim >= 4
  BY RoomBehind
<1>2. PICK k : k = DoWhile(COMPILE_FLAGS.SSE4, When((dim % 16) % 4 > 0, Assigned(Masked((dim % 16) % 4)))
                                         \o Times((dim % 16) \div 4, Full(4)), <<Full(4)>>)
  OBVIOUS
<1>3. Traverses(k, dim, room)
  BY <1>1, <1>2, PiecesOf16, PiecesLoop, Zenon
<1>4. QED
  BY <1>2, <1>3, ReadingSQ8_FP32
     DEF SSE4, SQ8_FP32s, CHOOSE_IMPLEMENTATION, SQ8_FP32_InnerProductSIMD16_SSE4_IMP,
         SQ8_FP32_InnerProductSIMD16_SSE4, SQ8_FP32_CosineSIMD16_SSE4, SQ8_FP32_L2SqrSIMD16_SSE4

\* The UINT8 kernels load the whole residual; without one they need a whole chunk.
LEMMA UINT8_AVX512_Traverses ==
  ASSUME NEW dim \in Nat \ {0}, NEW room, Ends(room, dim)
  PROVE  /\ Traverses(UINT8_InnerProductImp_AVX512(dim, dim % 64), dim, room)
         /\ Traverses(UINT8_L2SqrSIMD64_AVX512F_BW_VL_VNNI(dim, dim % 64), dim, room)
<1>1. PICK r \in 0..63 : r = dim % 64
  OBVIOUS
<1>2. Advances(<<Full(64)>>, 64, dim, room)
  BY AdvancesByOne
<1>3. CASE r > 0
  <2>1. PICK before : before = <<Masked(r)>>
    OBVIOUS
  <2>2. Ends(room, 0 + r) /\ 0 + r = r
    <3>1. r <= dim
      BY <1>1
    <3>2. QED
      BY <3>1 DEF Ends
  <2>3. Way(before, 0, dim % 64, room)
    <3>1. Way(<<Full(r)>>, 0, 0 + r, room)
      BY <2>2, OneFull
    <3>2. QED
      BY <1>1, <2>1, <2>2, <3>1 DEF Masked
  <2>4. Traverses(While(COMPILE_FLAGS.AVX512F_BW_VL_VNNI, before, <<Full(64)>>), dim, room)
    BY <1>2, <2>3, Sizes, ResidualThenChunks, Zenon
  <2>5. QED
    BY <1>1, <1>3, <2>1, <2>4
       DEF UINT8_InnerProductImp_AVX512, UINT8_L2SqrSIMD64_AVX512F_BW_VL_VNNI
<1>4. CASE r = 0
  <2>1. dim >= 64
    BY <1>1, <1>4
  <2>2. PICK before : before = <<>>
    OBVIOUS
  <2>3. Way(before, 0, dim % 64, room)
    BY <1>1, <1>4, <2>2, NoLoad
  <2>4. Traverses(DoWhile(COMPILE_FLAGS.AVX512F_BW_VL_VNNI, before, <<Full(64)>>), dim, room)
    BY <1>2, <2>1, <2>3, Sizes, ResidualThenChunks, Zenon
  <2>5. QED
    BY <1>1, <1>4, <2>2, <2>4
       DEF UINT8_InnerProductImp_AVX512, UINT8_L2SqrSIMD64_AVX512F_BW_VL_VNNI
<1>5. QED
  BY <1>1, <1>3, <1>4

LEMMA VNNI_Integers_Traverses ==
  ASSUME NEW func \in Integers8, NEW dim \in Nat, dim >= 32, NEW room, RoomFor(func, dim, room)
  PROVE  Traverses(AVX512F_BW_VL_VNNI(func, dim), dim, room)
<1>1. Ends(room, dim) /\ dim # 0
  BY RoomBehind
<1>2. /\ Traverses(INT8_InnerProductImp_AVX512(dim, dim % 64), dim, room)
      /\ Traverses(INT8_L2SqrSIMD64_AVX512F_BW_VL_VNNI(dim, dim % 64), dim, room)
  <2>1. PICK h, c : h = 32 /\ c = 64
    OBVIOUS
  <2>2. h \in Nat \ {0} /\ c = 2 * h /\ dim >= h
    BY <2>1
  <2>3. PICK r : r = dim % c
    OBVIOUS
  <2>4. \A isa : /\ Traverses(While(isa, When(r % h > 0, Masked(r % h)) \o When(r >= h, Full(h)),
                                    Times(2, Full(h))), dim, room)
                 /\ Traverses(While(isa, When(r % h > 0, Partial(r % h, h)) \o When(r >= h, Full(h)),
                                    Times(2, Full(h))), dim, room)
    BY <1>1, <2>2, <2>3, HalvesLoop, Zenon
  <2>5. QED
    BY <2>1, <2>3, <2>4 DEF INT8_InnerProductImp_AVX512, INT8_L2SqrSIMD64_AVX512F_BW_VL_VNNI
<1>3. /\ Traverses(UINT8_InnerProductImp_AVX512(dim, dim % 64), dim, room)
      /\ Traverses(UINT8_L2SqrSIMD64_AVX512F_BW_VL_VNNI(dim, dim % 64), dim, room)
  BY <1>1, UINT8_AVX512_Traverses
<1>4. func \in {"INT8_Cosine", "UINT8_Cosine"} =>
        /\ Traverses(INT8_CosineSIMD64_AVX512F_BW_VL_VNNI(dim, dim % 64), dim, room)
        /\ Traverses(UINT8_CosineSIMD64_AVX512F_BW_VL_VNNI(dim, dim % 64), dim, room)
  BY <1>2, <1>3, RoomBehind, ReadingBehind
     DEF INT8_CosineSIMD64_AVX512F_BW_VL_VNNI, UINT8_CosineSIMD64_AVX512F_BW_VL_VNNI
<1>5. QED
  BY <1>2, <1>3, <1>4
     DEF Integers8, AVX512F_BW_VL_VNNI, CHOOSE_IMPLEMENTATION,
         INT8_InnerProductSIMD64_AVX512F_BW_VL_VNNI, UINT8_InnerProductSIMD64_AVX512F_BW_VL_VNNI

LEMMA VNNI_SQ8_FP32_Traverses ==
  ASSUME NEW func \in SQ8_FP32s, NEW dim \in Nat, dim >= 16, NEW room, RoomFor(func, dim, room)
  PROVE  Traverses(AVX512F_BW_VL_VNNI(func, dim), dim, room)
<1>1. Ends(room, dim)
  BY RoomBehind
<1>2. PICK r \in 0..15 : r = dim % 16
  OBVIOUS
<1>3. PICK load : load = Load(Lanes(r), 16, r, r)
  OBVIOUS
<1>4. Way(When(r > 0, Assigned(load)), 0, r, room)
  <2>1. Fits(load, 0, r, room)
    BY <1>1, <1>3 DEF Fits, Load, Loads, Lanes, Ends
  <2>2. Fits(Assigned(load), 0, r, room)
    BY <2>1, AssignedFits
  <2>3. (r > 0) \in BOOLEAN /\ 0 \in Nat /\ r \in Nat /\ (~(r > 0) => r = 0)
    OBVIOUS
  <2>4. QED
    BY <2>2, <2>3, LoadWhen
<1>5. Advances(<<Full(16)>>, 16, dim, room)
  <2>1. 16 \in Nat
    OBVIOUS
  <2>2. QED
    BY <1>1, <2>1, AdvancesByOne
<1>6. PICK k : k = DoWhile(COMPILE_FLAGS.AVX512F_BW_VL_VNNI, When(r > 0, Assigned(load)), <<Full(16)>>)
  OBVIOUS
<1>7. Traverses(k, dim, room)
  <2>1. PICK before : before = When(r > 0, Assigned(load))
    OBVIOUS
  <2>2. Way(before, 0, dim % 16, room)
    BY <1>2, <1>4, <2>1
  <2>3. Traverses(DoWhile(COMPILE_FLAGS.AVX512F_BW_VL_VNNI, before, <<Full(16)>>), dim, room)
    BY <1>1, <1>5, <2>2, Sizes, ResidualThenChunks, Zenon
  <2>4. QED
    BY <1>6, <2>1, <2>3
<1>8. QED
  BY <1>2, <1>3, <1>6, <1>7, ReadingSQ8_FP32
     DEF SQ8_FP32s, AVX512F_BW_VL_VNNI, CHOOSE_IMPLEMENTATION, SQ8_FP32_InnerProductImp_AVX512,
         SQ8_FP32_InnerProductSIMD16_AVX512F_BW_VL_VNNI,
         SQ8_FP32_CosineSIMD16_AVX512F_BW_VL_VNNI, SQ8_FP32_L2SqrSIMD16_AVX512F_BW_VL_VNNI

LEMMA VNNI_SQ8_SQ8_Traverses ==
  ASSUME NEW func \in SQ8_SQ8s, NEW dim \in Nat \ {0}, NEW room, RoomFor(func, dim, room)
  PROVE  Traverses(AVX512F_BW_VL_VNNI(func, dim), dim, room)
<1>1. Ends(room, dim)
  BY RoomBehind
<1>2. PICK k : k = UINT8_InnerProductImp_AVX512(dim, dim % 64)
  OBVIOUS
<1>3. Traverses(k, dim, room)
  BY <1>1, <1>2, UINT8_AVX512_Traverses
<1>4. QED
  BY <1>2, <1>3, ReadingSQ8_SQ8
     DEF SQ8_SQ8s, AVX512F_BW_VL_VNNI, CHOOSE_IMPLEMENTATION, SQ8_SQ8_InnerProductImp,
         SQ8_SQ8_InnerProductSIMD64_AVX512F_BW_VL_VNNI,
         SQ8_SQ8_CosineSIMD64_AVX512F_BW_VL_VNNI, SQ8_SQ8_L2SqrSIMD64_AVX512F_BW_VL_VNNI

-----------------------------------------------------------------------------
(* The shapes of the NEON kernels, and their files.                         *)

\* Whole chunks first; of what is left, whole registers and then single elements.
LEMMA ChunksThenRest ==
  ASSUME NEW isa, NEW h \in Nat \ {0}, NEW n \in Nat \ {0}, NEW c, c = n * h,
         NEW dim \in Nat, NEW room, Ends(room, dim), NEW r, r = dim % c
  PROVE  Traverses(For(isa, <<>>, dim \div c, Times(n, Full(h)),
                       Times(r \div h, Full(h)) \o When(r % h > 0, Masked(r % h))), dim, room)
<1>1. c \in Nat \ {0}
  OBVIOUS
<1>2. PICK q \in Nat, e \in 0..(c - 1) : q = dim \div c /\ e = dim % c /\ dim = q * c + e
  BY <1>1, DivMod
<1>3. PICK m \in Nat, f \in 0..(h - 1) : m = r \div h /\ f = r % h /\ r = m * h + f
  <2>1. r \in Nat
    BY <1>2
  <2>2. QED
    BY <2>1, DivMod
<1>4. PICK p \in Nat : p = q * c
  BY <1>1
<1>5. dim = p + r /\ r = e
  BY <1>2, <1>4
<1>6. PICK s \in Nat : s = m * h
  OBVIOUS
<1>7. r = s + f /\ (p + s) + f = dim /\ Ends(room, p + m * h) /\ Ends(room, (p + s) + f)
  <2>1. r = s + f /\ m * h = s /\ f >= 0
    BY <1>3, <1>6
  <2>2. (p + s) + f = dim /\ p + s <= dim
    BY <1>5, <2>1
  <2>3. QED
    BY <2>1, <2>2 DEF Ends
<1>8. Way(Times(m, Full(h)), p, p + m * h, room)
  BY <1>7, FullLoads
<1>9. Way(When(f > 0, Masked(f)), p + s, dim, room)
  <2>1. Fits(Masked(f), p + s, (p + s) + f, room)
    BY <1>7, FullFits
  <2>2. (f > 0) \in BOOLEAN /\ p + s \in Nat /\ dim \in Nat /\ (~(f > 0) => dim = p + s)
    BY <1>7
  <2>3. QED
    BY <1>7, <2>1, <2>2, LoadWhen
<1>10. PICK after : after = Times(m, Full(h)) \o When(f > 0, Masked(f))
  OBVIOUS
<1>11. Way(after, 0 + q * c, dim, room) /\ 0 + q * c <= dim
  <2>1. Way(after, p, dim, room)
    BY <1>6, <1>8, <1>9, <1>10, OneAfterOther
  <2>2. 0 + q * c = p /\ p <= dim
    BY <1>2, <1>4, <1>5
  <2>3. QED
    BY <2>1, <2>2
<1>12. Advances(Times(n, Full(h)), c, dim, room)
  BY AdvancesByFull
<1>13. Way(<<>>, 0, 0, room) /\ 0 \in Nat /\ c \in Nat
  BY <1>1, NoLoad
<1>14. Traverses(For(isa, <<>>, q, Times(n, Full(h)), after), dim, room)
  BY <1>11, <1>12, <1>13, TurnsOfFor
<1>15. QED
  BY <1>2, <1>3, <1>10, <1>14

\* A step that uses four of the eight bytes it loads: the metadata is behind the last ones.
LEMMA StepLoads ==
  ASSUME NEW dim \in Nat, NEW room, Ends(room, dim), dim + 4 <= room[1],
         NEW n \in Nat, NEW p \in Nat, p + n * 4 <= dim
  PROVE  Way(Times(n, InnerProductStepSQ8_FP32_NEON), p, p + n * 4, room)
<1>1. PICK load : load = InnerProductStepSQ8_FP32_NEON
  OBVIOUS
<1>2. /\ load \in Loads /\ load.step = 4 /\ load.uses = Lanes(4) /\ ~load.assigns
      /\ load.reads = <<8, 4>>
  BY <1>1 DEF InnerProductStepSQ8_FP32_NEON, Load, Loads, Lanes
<1>3. ASSUME NEW k \in 1..n PROVE Fits(load, p + (k - 1) * load.step, p + k * load.step, room)
  <2>1. PICK m \in Nat : m = p + (k - 1) * 4
    OBVIOUS
  <2>2. m + 4 = p + k * 4 /\ m + 4 <= dim
    BY <2>1
  <2>3. Fits(load, m, m + 4, room)
    BY <1>2, <2>2 DEF Fits, Ends
  <2>4. QED
    BY <1>2, <2>1, <2>2, <2>3
<1>4. Way(Times(n, load), p, p + n * load.step, room)
  BY <1>2, <1>3, RepeatedLoad
<1>5. QED
  BY <1>1, <1>2, <1>4

LEMMA SQ8_FP32_NEON_Traverses ==
  ASSUME NEW func \in SQ8_FP32s, NEW dim \in Nat, NEW room, RoomFor(func, dim, room)
  PROVE  Traverses(NEON(func, dim), dim, room)
<1>1. Ends(room, dim) /\ dim + 4 <= room[1]
  <2>1. Ends(room, dim) /\ Behind(room, dim, UpTo(StorageDelta), QuerySum + 1)
    BY RoomBehind
  <2>2. dim + 8 <= room[1] /\ room[1] \in Nat
    BY <2>1 DEF Behind, Ends, UpTo, Float, StorageDelta
  <2>3. QED
    BY <2>1, <2>2
<1>2. PICK step : step = InnerProductStepSQ8_FP32_NEON
  OBVIOUS
<1>3. PICK q \in Nat, r \in 0..(16 - 1) : q = dim \div 16 /\ r = dim % 16 /\ dim = q * 16 + r
  BY Sizes, DivMod
<1>4. PICK m \in 0..3 : m = r \div 4
  OBVIOUS
<1>5. PICK f \in 0..3 : f = r % 4
  OBVIOUS
<1>6. r = m * 4 + f
  BY <1>4, <1>5
<1>7. PICK p \in Nat : p = q * 16
  OBVIOUS
<1>8. (p + m * 4) + f = dim /\ p + m * 4 \in Nat /\ p + m * 4 <= dim
  BY <1>3, <1>6, <1>7
<1>9. Way(Times(m, step), p, p + m * 4, room)
  BY <1>1, <1>2, <1>8, StepLoads
<1>10. Way(When(f > 0, Masked(f)), p + m * 4, dim, room)
  <2>1. Ends(room, (p + m * 4) + f)
    BY <1>1, <1>8
  <2>2. Fits(Masked(f), p + m * 4, (p + m * 4) + f, room)
    BY <1>8, <2>1, FullFits
  <2>3. (f > 0) \in BOOLEAN /\ (~(f > 0) => dim = p + m * 4)
    BY <1>8
  <2>4. QED
    BY <1>8, <2>2, <2>3, LoadWhen
<1>11. PICK after : after = Times(m, step) \o When(f > 0, Masked(f))
  OBVIOUS
<1>12. Way(after, 0 + q * 16, dim, room) /\ 0 + q * 16 <= dim
  <2>1. Way(after, p, dim, room)
    BY <1>9, <1>10, <1>11, OneAfterOther
  <2>2. 0 + q * 16 = p /\ p <= dim
    BY <1>3, <1>7
  <2>3. QED
    BY <2>1, <2>2
<1>13. Advances(Times(4, step), 16, dim, room)
  <2>1. ASSUME NEW s \in Nat, s + 16 <= dim PROVE Way(Times(4, step), s, s + 16, room)
    <3>1. s + 4 * 4 = s + 16 /\ s + 4 * 4 <= dim /\ 4 \in Nat
      BY <2>1
    <3>2. Way(Times(4, step), s, s + 4 * 4, room)
      BY <1>1, <1>2, <3>1, StepLoads
    <3>3. QED
      BY <3>1, <3>2
  <2>2. QED
    BY <2>1 DEF Advances
<1>14. PICK k : k = For(COMPILE_FLAGS.NEON, <<>>, q, Times(4, step), after)
  OBVIOUS
<1>15. Traverses(k, dim, room)
  <2>1. Way(<<>>, 0, 0, room) /\ 0 \in Nat /\ 16 \in Nat
    BY NoLoad
  <2>2. QED
    BY <1>1, <1>12, <1>13, <1>14, <2>1, TurnsOfFor, Zenon
<1>16. QED
  BY <1>2, <1>3, <1>4, <1>5, <1>11, <1>14, <1>15, ReadingSQ8_FP32
     DEF NEON, SQ8_FP32s, CHOOSE_IMPLEMENTATION, SQ8_FP32_InnerProductSIMD16_NEON_IMP,
         SQ8_FP32_InnerProductSIMD16_NEON, SQ8_FP32_CosineSIMD16_NEON, SQ8_FP32_L2SqrSIMD16_NEON

LEMMA Floats_NEON_Traverses ==
  ASSUME NEW func \in Floats, NEW dim \in Nat, NEW room, Ends(room, dim)
  PROVE  Traverses(NEON(func, dim), dim, room)
<1>1. /\ Traverses(FP32_InnerProductSIMD16_NEON(dim, dim % 16), dim, room)
      /\ Traverses(FP32_L2SqrSIMD16_NEON(dim, dim % 16), dim, room)
  BY Sizes, ChunksThenRest, Zenon DEF FP32_InnerProductSIMD16_NEON, FP32_L2SqrSIMD16_NEON
<1>2. PICK r \in 0..7 : r = dim % 8
  OBVIOUS
<1>3. When(r % 2 = 1, Masked(1)) = When(r % 2 > 0, Masked(r % 2))
  <2>1. r % 2 \in {0, 1}
    OBVIOUS
  <2>2. QED
    BY <2>1 DEF When
<1>4. Traverses(For(COMPILE_FLAGS.NEON, <<>>, dim \div 8, Times(4, Full(2)),
                    Times(r \div 2, Full(2)) \o When(r % 2 > 0, Masked(r % 2))), dim, room)
  BY <1>2, Sizes, ChunksThenRest, Zenon
<1>5. /\ Traverses(FP64_InnerProductSIMD8_NEON(dim, dim % 8), dim, room)
      /\ Traverses(FP64_L2SqrSIMD8_NEON(dim, dim % 8), dim, room)
  BY <1>2, <1>3, <1>4 DEF FP64_InnerProductSIMD8_NEON, FP64_L2SqrSIMD8_NEON
<1>6. QED
  BY <1>1, <1>5 DEF NEON, Floats, CHOOSE_IMPLEMENTATION

LEMMA NEON_HP_Traverses ==
  ASSUME NEW func \in FP16s, NEW dim \in Nat, dim >= 8, NEW room, Ends(room, dim)
  PROVE  Traverses(NEON_HP(func, dim), dim, room)
<1>1. \A isa : Traverses(While(isa, When((dim % 32) % 8 > 0, Partial((dim % 32) % 8, 8))
                                      \o Times((dim % 32) \div 8, Full(8)), Times(4, Full(8))), dim, room)
  BY PiecesOf32, PiecesLoop, Zenon
<1>2. QED
  BY <1>1 DEF NEON_HP, FP16s, CHOOSE_IMPLEMENTATION, FP16_InnerProduct_NEON_HP, FP16_L2Sqr_NEON_HP

LEMMA NEON_BF16_Traverses ==
  ASSUME NEW func \in BF16s, NEW dim \in Nat, dim >= 8, NEW room, Ends(room, dim)
  PROVE  Traverses(NEON_BF16(func, dim), dim, room)
<1>1. \A isa : Traverses(While(isa, When((dim % 32) % 8 > 0, Partial((dim % 32) % 8, 8))
                                      \o Times((dim % 32) \div 8, Full(8)), Times(4, Full(8))), dim, room)
  BY PiecesOf32, PiecesLoop, Zenon
<1>2. QED
  BY <1>1 DEF NEON_BF16, BF16s, CHOOSE_IMPLEMENTATION, BF16_InnerProduct_NEON, BF16_L2Sqr_NEON

\* The loops on integers, which INT8, UINT8 and SQ8 vectors share: the part of a register
\* first, then whole chunks, then the whole registers left.
LEMMA IntegerLoopsTraverse ==
  ASSUME NEW dim \in Nat, dim >= 16, NEW room, Ends(room, dim)
  PROVE  LET r == dim % 64 IN
         /\ Traverses(INT8_InnerProductImp_NEON(dim, r), dim, room)
         /\ Traverses(UINT8_InnerProductImp_NEON(dim, r), dim, room)
         /\ Traverses(INT8_L2SqrSIMD16_NEON(dim, r), dim, room)
         /\ Traverses(UINT8_L2SqrSIMD16_NEON(dim, r), dim, room)
         /\ Traverses(INT8_InnerProductImp_DOTPROD(dim, r), dim, room)
         /\ Traverses(UINT8_InnerProductImp_DOTPROD(dim, r), dim, room)
         /\ Traverses(INT8_L2SqrSIMD16_NEON_DOTPROD(dim, r), dim, room)
         /\ Traverses(UINT8_L2SqrSIMD16_NEON_DOTPROD(dim, r), dim, room)
<1>1. PICK q \in Nat, e \in 0..(64 - 1) : q = dim \div 64 /\ e = dim % 64 /\ dim = q * 64 + e
  BY Sizes, DivMod
<1>2. PICK r \in 0..63 : r = dim % 64 /\ r = e
  BY <1>1
<1>3. PICK n \in 0..15 : n = r % 16
  BY <1>2
<1>4. PICK m \in 0..3 : m = r \div 16
  BY <1>2
<1>5. r = m * 16 + n
  BY <1>2, <1>3, <1>4
<1>6. PICK first : first = When(n > 0, Partial(n, 16))
  OBVIOUS
<1>7. Way(first, 0, n, room)
  <2>1. Ends(room, 16)
    BY DEF Ends
  <2>2. QED
    BY <1>2, <1>3, <1>6, <2>1, Sizes, PartOfResidual
<1>8. PICK p \in Nat : p = n + q * 64
  OBVIOUS
<1>9. p + m * 16 = dim /\ p <= dim
  BY <1>1, <1>2, <1>5, <1>8
<1>10. n + q * 64 <= dim /\ n + q * 64 = p
  BY <1>8, <1>9
<1>11. Way(Times(m, Full(16)), n + q * 64, dim, room)
  <2>1. Ends(room, p + m * 16)
    BY <1>9
  <2>2. Way(Times(m, Full(16)), p, p + m * 16, room)
    BY <2>1, FullLoads
  <2>3. QED
    BY <1>9, <1>10, <2>2
<1>12. ASSUME NEW isa PROVE Traverses(For(isa, first, q, Times(4, Full(16)), Times(m, Full(16))), dim, room)
  <2>1. Advances(Times(4, Full(16)), 64, dim, room)
    BY AdvancesByFull
  <2>2. n \in Nat /\ 64 \in Nat
    OBVIOUS
  <2>3. QED
    BY <1>7, <1>10, <1>11, <2>1, <2>2, TurnsOfFor, Zenon
<1>13. PICK l \in 0..1 : l = r \div 32
  BY <1>2
<1>14. PICK b \in 0..1 : b = (r % 32) \div 16
  BY <1>2
<1>15. m * 16 = l * 32 + b * 16
  BY <1>2, <1>4, <1>13, <1>14
<1>16. PICK after : after = Times(l, Full(32)) \o When(b >= 1, Full(16))
  OBVIOUS
<1>17. Way(after, n + q * 64, dim, room)
  <2>1. p + l * 32 \in Nat /\ dim = (p + l * 32) + b * 16 /\ Ends(room, p + l * 32)
    BY <1>9, <1>15 DEF Ends
  <2>2. Way(Times(l, Full(32)), p, p + l * 32, room)
    BY <2>1, FullLoads
  <2>3. Way(When(b >= 1, Full(16)), p + l * 32, dim, room)
    <3>1. CASE b = 1
      <4>1. Ends(room, (p + l * 32) + 16) /\ (p + l * 32) + 16 = dim
        BY <2>1, <3>1
      <4>2. Fits(Full(16), p + l * 32, dim, room)
        BY <2>1, <4>1, FullFits
      <4>3. (b >= 1) \in BOOLEAN /\ b >= 1
        BY <3>1
      <4>4. QED
        BY <2>1, <4>2, <4>3, LoadWhen
    <3>2. CASE b = 0
      <4>1. (b >= 1) \in BOOLEAN /\ ~(b >= 1) /\ dim = p + l * 32
        BY <2>1, <3>2
      <4>2. QED
        BY <2>1, <4>1, LoadWhen
    <3>3. QED
      BY <3>1, <3>2
  <2>4. Way(after, p, dim, room)
    BY <1>16, <2>2, <2>3, OneAfterOther
  <2>5. QED
    BY <1>10, <2>4
<1>18. ASSUME NEW isa PROVE Traverses(For(isa, first, q, Times(2, Full(32)), after), dim, room)
  <2>1. Advances(Times(2, Full(32)), 64, dim, room)
    BY AdvancesByFull
  <2>2. n \in Nat /\ 64 \in Nat
    OBVIOUS
  <2>3. QED
    BY <1>7, <1>10, <1>17, <2>1, <2>2, TurnsOfFor, Zenon
<1>19. /\ Traverses(INT8_InnerProductImp_NEON(dim, r), dim, room)
       /\ Traverses(UINT8_InnerProductImp_NEON(dim, r), dim, room)
       /\ Traverses(INT8_L2SqrSIMD16_NEON(dim, r), dim, room)
       /\ Traverses(UINT8_L2SqrSIMD16_NEON(dim, r), dim, room)
  BY <1>1, <1>3, <1>4, <1>6, <1>12, <1>13, <1>14, <1>16, <1>18
     DEF INT8_InnerProductImp_NEON, UINT8_InnerProductImp_NEON, INT8_L2SqrSIMD16_NEON,
         UINT8_L2SqrSIMD16_NEON
<1>20. /\ Traverses(INT8_InnerProductImp_DOTPROD(dim, r), dim, room)
       /\ Traverses(UINT8_InnerProductImp_DOTPROD(dim, r), dim, room)
       /\ Traverses(INT8_L2SqrSIMD16_NEON_DOTPROD(dim, r), dim, room)
       /\ Traverses(UINT8_L2SqrSIMD16_NEON_DOTPROD(dim, r), dim, room)
  BY <1>1, <1>3, <1>4, <1>6, <1>12, <1>13, <1>14, <1>16, <1>18
     DEF INT8_InnerProductImp_DOTPROD, UINT8_InnerProductImp_DOTPROD,
         INT8_L2SqrSIMD16_NEON_DOTPROD, UINT8_L2SqrSIMD16_NEON_DOTPROD
<1>21. QED
  BY <1>2, <1>19, <1>20

LEMMA Integers_NEON_Traverse ==
  ASSUME NEW func \in Integers8, NEW dim \in Nat, dim >= 16, NEW room, RoomFor(func, dim, room)
  PROVE  Traverses(NEON(func, dim), dim, room) /\ Traverses(NEON_DOTPROD(func, dim), dim, room)
<1>1. Ends(room, dim)
  BY RoomBehind
<1>2. PICK r : r = dim % 64
  OBVIOUS
<1>3. /\ Traverses(INT8_InnerProductImp_NEON(dim, r), dim, room)
      /\ Traverses(UINT8_InnerProductImp_NEON(dim, r), dim, room)
      /\ Traverses(INT8_L2SqrSIMD16_NEON(dim, r), dim, room)
      /\ Traverses(UINT8_L2SqrSIMD16_NEON(dim, r), dim, room)
      /\ Traverses(INT8_InnerProductImp_DOTPROD(dim, r), dim, room)
      /\ Traverses(UINT8_InnerProductImp_DOTPROD(dim, r), dim, room)
      /\ Traverses(INT8_L2SqrSIMD16_NEON_DOTPROD(dim, r), dim, room)
      /\ Traverses(UINT8_L2SqrSIMD16_NEON_DOTPROD(dim, r), dim, room)
  BY <1>1, <1>2, IntegerLoopsTraverse
<1>4. func \in {"INT8_Cosine", "UINT8_Cosine"} =>
        /\ Traverses(INT8_CosineSIMD_NEON(dim, r), dim, room)
        /\ Traverses(UINT8_CosineSIMD_NEON(dim, r), dim, room)
        /\ Traverses(INT8_CosineSIMD_NEON_DOTPROD(dim, r), dim, room)
        /\ Traverses(UINT8_CosineSIMD_NEON_DOTPROD(dim, r), dim, room)
  BY <1>3, RoomBehind, ReadingBehind
     DEF INT8_CosineSIMD_NEON, UINT8_CosineSIMD_NEON, INT8_CosineSIMD_NEON_DOTPROD,
         UINT8_CosineSIMD_NEON_DOTPROD
<1>5. Traverses(NEON(func, dim), dim, room)
  BY <1>2, <1>3, <1>4
     DEF Integers8, NEON, CHOOSE_IMPLEMENTATION, INT8_InnerProductSIMD16_NEON,
         UINT8_InnerProductSIMD16_NEON
<1>6. Traverses(NEON_DOTPROD(func, dim), dim, room)
  BY <1>2, <1>3, <1>4
     DEF Integers8, NEON_DOTPROD, CHOOSE_IMPLEMENTATION, INT8_InnerProductSIMD16_NEON_DOTPROD,
         UINT8_InnerProductSIMD16_NEON_DOTPROD
<1>7. QED
  BY <1>5, <1>6

LEMMA SQ8_SQ8_NEON_Traverse ==
  ASSUME NEW func \in SQ8_SQ8s, NEW dim \in Nat, dim >= 16, NEW room, RoomFor(func, dim, room)
  PROVE  Traverses(NEON(func, dim), dim, room) /\ Traverses(NEON_DOTPROD(func, dim), dim, room)
<1>1. Ends(room, dim)
  BY RoomBehind
<1>2. PICK k : k = UINT8_InnerProductImp_NEON(dim, dim % 64)
  OBVIOUS
<1>3. PICK l : l = UINT8_InnerProductImp_DOTPROD(dim, dim % 64)
  OBVIOUS
<1>4. Traverses(k, dim, room) /\ Traverses(l, dim, room)
  BY <1>1, <1>2, <1>3, IntegerLoopsTraverse
<1>5. Traverses(NEON(func, dim), dim, room)
  BY <1>2, <1>4, ReadingSQ8_SQ8
     DEF SQ8_SQ8s, NEON, CHOOSE_IMPLEMENTATION, SQ8_SQ8_InnerProductSIMD64_NEON_IMP,
         SQ8_SQ8_InnerProductSIMD64_NEON, SQ8_SQ8_CosineSIMD64_NEON, SQ8_SQ8_L2SqrSIMD64_NEON
<1>6. Traverses(NEON_DOTPROD(func, dim), dim, room)
  BY <1>3, <1>4, ReadingSQ8_SQ8
     DEF SQ8_SQ8s, NEON_DOTPROD, CHOOSE_IMPLEMENTATION, SQ8_SQ8_InnerProductSIMD64_NEON_DOTPROD_IMP,
         SQ8_SQ8_InnerProductSIMD64_NEON_DOTPROD, SQ8_SQ8_CosineSIMD64_NEON_DOTPROD,
         SQ8_SQ8_L2SqrSIMD64_NEON_DOTPROD
<1>7. QED
  BY <1>5, <1>6

-----------------------------------------------------------------------------
(* The SVE kernels, for any size of a register.                             *)

\* Turns of four registers, what is left of whole ones, and what fills none.
LEMMA Registers ==
  ASSUME NEW c \in Nat \ {0}, NEW dim \in Nat
  PROVE  \E q \in Nat, a \in 0..3, e \in 0..(c - 1) :
            /\ dim % c = e
            /\ (dim \div c) % 4 = a
            /\ dim \div (4 * c) = q
            /\ (dim - e) \div (4 * c) = q
            /\ dim = q * (4 * c) + a * c + e
            /\ (4 * q + a) * c = q * (4 * c) + a * c
<1>1. PICK m \in Nat, e \in 0..(c - 1) : m = dim \div c /\ e = dim % c /\ dim = m * c + e
  BY DivMod
<1>2. PICK q \in Nat, a \in 0..(4 - 1) : q = m \div 4 /\ a = m % 4 /\ m = q * 4 + a
  BY Sizes, DivMod
<1>3. PICK d \in Nat \ {0} : d = 4 * c
  OBVIOUS
<1>4. PICK s \in Nat : s = a * c
  BY <1>2
<1>5. s + e \in 0..(d - 1) /\ s \in 0..(d - 1)
  <2>1. a \in {0, 1, 2, 3}
    BY <1>2
  <2>2. s \in {0, c, 2 * c, 3 * c}
    BY <1>4, <2>1
  <2>3. QED
    BY <1>3, <2>2
<1>6. m * c = q * d + s
  BY <1>2, <1>3, <1>4
<1>7. dim = q * d + (s + e) /\ dim - e = q * d + s
  <2>1. m * c \in Nat /\ q * d \in Nat
    BY <1>3
  <2>2. QED
    BY <1>1, <1>6, <2>1
<1>8. dim \div d = q /\ (dim - e) \div d = q
  BY <1>5, <1>7, DivUnique
<1>9. (4 * q + a) * c = q * d + s
  BY <1>2, <1>6
<1>10. q * d \in Nat /\ dim = q * d + s + e
  BY <1>3, <1>7
<1>11. a \in 0..3 /\ dim % c = e /\ (dim \div c) % 4 = a
  <2>1. a \in 0..3
    BY <1>2
  <2>2. dim % c = e /\ (dim \div c) % 4 = a
    BY <1>1, <1>2, Zenon
  <2>3. QED
    BY <2>1, <2>2
<1>12. QED
  BY <1>3, <1>4, <1>8, <1>9, <1>10, <1>11

LEMMA SVEKernelTraverses ==
  ASSUME NEW isa, NEW c \in Nat \ {0}, NEW dim \in Nat, NEW room, Ends(room, dim)
  PROVE  Traverses(SVEKernel(isa, dim, CHOOSE_SVE_IMPLEMENTATION(dim, c)), dim, room)
<1>1. PICK q \in Nat, a \in 0..3, e \in 0..(c - 1) :
            /\ dim % c = e
            /\ (dim \div c) % 4 = a
            /\ dim \div (4 * c) = q
            /\ (dim - e) \div (4 * c) = q
            /\ dim = q * (4 * c) + a * c + e
            /\ (4 * q + a) * c = q * (4 * c) + a * c
  BY Registers, Zenon
<1>2. PICK p \in Nat : p = q * (4 * c)
  OBVIOUS
<1>3. PICK s \in Nat : s = a * c
  OBVIOUS
<1>4. dim = (p + s) + e /\ (4 * q + a) * c = p + s /\ p <= dim
  BY <1>1, <1>2, <1>3
<1>5. Way(Times(a, Full(c)), p, p + s, room)
  <2>1. Ends(room, p + a * c)
    BY <1>3, <1>4 DEF Ends
  <2>2. a \in Nat /\ c \in Nat
    OBVIOUS
  <2>3. QED
    BY <1>3, <2>1, <2>2, FullLoads
<1>6. Way(When(e # 0, Masked(e)), p + s, dim, room)
  <2>1. Fits(Masked(e), p + s, (p + s) + e, room)
    BY <1>4, FullFits
  <2>2. (e # 0) \in BOOLEAN /\ (~(e # 0) => dim = p + s) /\ p + s \in Nat
    BY <1>4
  <2>3. QED
    BY <1>4, <2>1, <2>2, LoadWhen
<1>7. PICK after : after = Times(a, Full(c)) \o When(e # 0, Masked(e))
  OBVIOUS
<1>8. Way(after, 0 + q * (4 * c), dim, room) /\ 0 + q * (4 * c) <= dim
  <2>1. Way(after, p, dim, room)
    BY <1>5, <1>6, <1>7, OneAfterOther
  <2>2. 0 + q * (4 * c) = p
    BY <1>2
  <2>3. QED
    BY <1>4, <2>1, <2>2
<1>9. Advances(Times(4, Full(c)), 4 * c, dim, room)
  BY AdvancesByFull
<1>10. Traverses(For(isa, <<>>, q, Times(4, Full(c)), after), dim, room)
  <2>1. Way(<<>>, 0, 0, room) /\ 0 \in Nat /\ 4 * c \in Nat
    BY NoLoad
  <2>2. QED
    BY <1>8, <1>9, <2>1, TurnsOfFor, Zenon
<1>11. PICK t : t = CHOOSE_SVE_IMPLEMENTATION(dim, c)
  OBVIOUS
<1>12. t.chunk = c /\ t.partial = (e # 0) /\ t.additional = a
  BY <1>1, <1>11 DEF CHOOSE_SVE_IMPLEMENTATION
<1>13. SVEKernel(isa, dim, t)
         = For(isa, <<>>, q, Times(4, Full(c)),
               Times(a, Full(c))
                 \o When(e # 0, Masked(IF dim - (p + s) < c THEN dim - (p + s) ELSE c)))
  BY <1>1, <1>4, <1>12 DEF SVEKernel
<1>14. (IF dim - (p + s) < c THEN dim - (p + s) ELSE c) = e
  BY <1>4
<1>15. QED
  BY <1>7, <1>10, <1>11, <1>13, <1>14

LEMMA SVE_SQ8_FP32_Traverses ==
  ASSUME NEW func \in SQ8_FP32s, NEW c \in Nat \ {0}, NEW dim \in Nat, NEW room,
         RoomFor(func, dim, room)
  PROVE  LET t == CHOOSE_SVE_IMPLEMENTATION(dim, c) IN
         /\ Traverses(SQ8_FP32_InnerProductSIMD_SVE_IMP(dim, t), dim, room)
         /\ func = "SQ8_FP32_L2" => Traverses(SQ8_FP32_L2SqrSIMD_SVE(dim, t), dim, room)
<1>1. PICK q \in Nat, a \in 0..3, e \in 0..(c - 1) :
            /\ dim % c = e
            /\ (dim \div c) % 4 = a
            /\ dim \div (4 * c) = q
            /\ (dim - e) \div (4 * c) = q
            /\ dim = q * (4 * c) + a * c + e
            /\ (4 * q + a) * c = q * (4 * c) + a * c
  BY Registers, Zenon
<1>2. Ends(room, dim)
  BY RoomBehind
<1>3. PICK p \in Nat : p = q * (4 * c)
  OBVIOUS
<1>4. PICK s \in Nat : s = a * c
  OBVIOUS
<1>5. dim = (e + p) + s /\ e \in Nat
  BY <1>1, <1>3, <1>4
<1>6. PICK before : before = When(e > 0, Assigned(Masked(e)))
  OBVIOUS
<1>7. Way(before, 0, e, room)
  <2>1. Ends(room, e) /\ e <= e
    BY <1>2, <1>5 DEF Ends
  <2>2. QED
    BY <1>5, <1>6, <2>1, PartFirst
<1>8. Way(Times(a, Full(c)), e + q * (4 * c), dim, room) /\ e + q * (4 * c) <= dim
  <2>1. Ends(room, (e + p) + a * c) /\ (e + p) + a * c = dim /\ e + p <= dim
    BY <1>2, <1>4, <1>5
  <2>2. a \in Nat /\ c \in Nat /\ e + p \in Nat
    BY <1>5
  <2>3. Way(Times(a, Full(c)), e + p, (e + p) + a * c, room)
    BY <2>1, <2>2, FullLoads
  <2>4. QED
    BY <1>3, <2>1, <2>3
<1>9. Advances(Times(4, Full(c)), 4 * c, dim, room)
  BY <1>2, AdvancesByFull
<1>10. PICK k : k = For(SVEFlags, before, q, Times(4, Full(c)), Times(a, Full(c)))
  OBVIOUS
<1>11. Traverses(k, dim, room)
  <2>1. e \in Nat /\ 4 * c \in Nat
    BY <1>5
  <2>2. QED
    BY <1>2, <1>7, <1>8, <1>9, <1>10, <2>1, TurnsOfFor, Zenon
<1>12. PICK t : t = CHOOSE_SVE_IMPLEMENTATION(dim, c)
  OBVIOUS
<1>13. t.chunk = c /\ t.partial = (e # 0) /\ t.additional = a
  BY <1>1, <1>12 DEF CHOOSE_SVE_IMPLEMENTATION
<1>14. (IF t.partial THEN dim % t.chunk ELSE 0) = e
  BY <1>1, <1>13
<1>15. SQ8_FP32_InnerProductSIMD_SVE_IMP(dim, t) = Reading(k, UpTo(StorageDelta), QuerySum + 1)
  BY <1>1, <1>6, <1>10, <1>13, <1>14 DEF SQ8_FP32_InnerProductSIMD_SVE_IMP
<1>16. QED
  BY <1>11, <1>12, <1>15, ReadingSQ8_FP32 DEF SQ8_FP32_L2SqrSIMD_SVE

LEMMA RegisterSizes ==
  ASSUME NEW cpu \in Cpus, "sve" \in cpu.has
  PROVE  /\ svcntb(cpu.vl) \in Nat \ {0} /\ svcnth(cpu.vl) \in Nat \ {0}
         /\ svcntw(cpu.vl) \in Nat \ {0} /\ svcntd(cpu.vl) \in Nat \ {0}
<1>1. cpu.vl \in {16 * k : k \in 1..16}
  BY CpuAssumption
<1>2. PICK k \in 1..16 : cpu.vl = 16 * k
  BY <1>1
<1>3. PICK vl : vl = 16 * k
  OBVIOUS
<1>4. vl \in Nat \ {0} /\ vl \div 2 = 8 * k /\ vl \div 4 = 4 * k /\ vl \div 8 = 2 * k
  BY <1>3
<1>5. QED
  BY <1>2, <1>3, <1>4 DEF svcntb, svcnth, svcntw, svcntd

LEMMA SVE_Traverses ==
  ASSUME NEW cpu \in Cpus, "sve" \in cpu.has,
         NEW func \in Floats \cup FP16s \cup Integers8 \cup SQ8_FP32s \cup SQ8_SQ8s,
         NEW dim \in Nat, NEW room, RoomFor(func, dim, room)
  PROVE  Traverses(SVE(func, dim, cpu.vl), dim, room)
<1>1. PICK vl : vl = cpu.vl
  OBVIOUS
<1>2. /\ svcntb(vl) \in Nat \ {0} /\ svcnth(vl) \in Nat \ {0}
      /\ svcntw(vl) \in Nat \ {0} /\ svcntd(vl) \in Nat \ {0}
  BY <1>1, RegisterSizes
<1>3. Ends(room, dim)
  BY RoomBehind
<1> DEFINE T(c) == CHOOSE_SVE_IMPLEMENTATION(dim, c)
<1>4. \A isa : \A c \in Nat \ {0} : Traverses(SVEKernel(isa, dim, T(c)), dim, room)
  BY <1>3, SVEKernelTraverses
<1>5. \A c \in Nat \ {0} :
        /\ func \in {"INT8_Cosine", "UINT8_Cosine"} =>
             Traverses(Reading(SVEKernel(SVEFlags, dim, T(c)), NormBytes, NormBytes), dim, room)
        /\ func \in SQ8_SQ8s =>
             Traverses(Reading(SVEKernel(SVEFlags, dim, T(c)), UpTo(StorageSum), UpTo(StorageSum)), dim, room)
        /\ func = "SQ8_SQ8_L2" =>
             Traverses(Reading(Reading(SVEKernel(SVEFlags, dim, T(c)), UpTo(StorageSum), UpTo(StorageSum)),
                               UpTo(StorageSquares), UpTo(StorageSquares)), dim, room)
  <2> TAKE c \in Nat \ {0}
  <2>1. PICK k : k = SVEKernel(SVEFlags, dim, T(c))
    OBVIOUS
  <2>2. Traverses(k, dim, room)
    BY <1>4, <2>1
  <2> HIDE DEF T
  <2>3. func \in {"INT8_Cosine", "UINT8_Cosine"} =>
          Traverses(Reading(k, NormBytes, NormBytes), dim, room)
    BY <2>2, RoomBehind, ReadingBehind
  <2>4. func \in SQ8_SQ8s =>
             Traverses(Reading(k, UpTo(StorageSum), UpTo(StorageSum)), dim, room)
    BY <2>2, ReadingSQ8_SQ8
  <2>5. func = "SQ8_SQ8_L2" =>
             Traverses(Reading(Reading(k, UpTo(StorageSum), UpTo(StorageSum)),
                               UpTo(StorageSquares), UpTo(StorageSquares)), dim, room)
    BY <2>2, ReadingSQ8_SQ8 DEF SQ8_SQ8s
  <2>6. QED
    BY <2>1, <2>3, <2>4, <2>5
<1>6. func \in SQ8_FP32s => \A c \in Nat \ {0} :
        /\ Traverses(SQ8_FP32_InnerProductSIMD_SVE_IMP(dim, T(c)), dim, room)
        /\ func = "SQ8_FP32_L2" => Traverses(SQ8_FP32_L2SqrSIMD_SVE(dim, T(c)), dim, room)
  BY SVE_SQ8_FP32_Traverses
<1> HIDE DEF T
<1>7. CASE func \in Floats
  BY <1>1, <1>2, <1>4, <1>7
     DEF Floats, SVE, T, FP32_InnerProductSIMD_SVE, FP32_L2SqrSIMD_SVE, FP64_InnerProductSIMD_SVE,
         FP64_L2SqrSIMD_SVE
<1>8. CASE func \in FP16s
  BY <1>1, <1>2, <1>4, <1>8 DEF FP16s, SVE, T, FP16_InnerProduct_SVE, FP16_L2Sqr_SVE
<1>9. CASE func \in Integers8
  BY <1>1, <1>2, <1>4, <1>5, <1>9
     DEF Integers8, SVE, T, INT8_L2SqrSIMD_SVE, INT8_InnerProductSIMD_SVE, INT8_InnerProductImp_SVE,
         INT8_CosineSIMD_SVE, UINT8_L2SqrSIMD_SVE, UINT8_InnerProductSIMD_SVE,
         UINT8_InnerProductImp_SVE, UINT8_CosineSIMD_SVE
<1>10. CASE func \in SQ8_FP32s
  BY <1>1, <1>2, <1>6, <1>10
     DEF SQ8_FP32s, SVE, T, SQ8_FP32_InnerProductSIMD_SVE, SQ8_FP32_CosineSIMD_SVE
<1>11. CASE func \in SQ8_SQ8s
  BY <1>1, <1>2, <1>5, <1>11
     DEF SQ8_SQ8s, SVE, T, SQ8_SQ8_InnerProductSIMD_SVE, SQ8_SQ8_InnerProductSIMD_SVE_IMP,
         SQ8_SQ8_CosineSIMD_SVE, SQ8_SQ8_L2SqrSIMD_SVE, UINT8_InnerProductImp_SVE
<1>12. QED
  BY <1>7, <1>8, <1>9, <1>10, <1>11

LEMMA SVE_BF16_Traverses ==
  ASSUME NEW cpu \in Cpus, "svebf16" \in cpu.has, NEW func \in BF16s,
         NEW dim \in Nat, NEW room, Ends(room, dim)
  PROVE  Traverses(SVE_BF16(func, dim, cpu.vl), dim, room)
<1>1. "sve" \in cpu.has
  BY CpuAssumption
<1>2. svcnth(cpu.vl) \in Nat \ {0}
  BY <1>1, RegisterSizes
<1>3. Traverses(SVEKernel(COMPILE_FLAGS.SVE_BF16, dim, CHOOSE_SVE_IMPLEMENTATION(dim, svcnth(cpu.vl))), dim, room)
  BY <1>2, SVEKernelTraverses
<1>4. QED
  BY <1>3 DEF SVE_BF16, BF16s, BF16_InnerProduct_SVE, BF16_L2Sqr_SVE

-----------------------------------------------------------------------------
(* The functions without optimization.                                      *)

LEMMA PlainTraverses ==
  ASSUME NEW dim \in Nat, NEW room, Ends(room, dim)
  PROVE  Traverses(Plain(dim), dim, room)
<1>1. Advances(<<Full(1)>>, 1, dim, room)
  <2>1. 1 \in Nat
    OBVIOUS
  <2>2. QED
    BY <2>1, AdvancesByOne
<1>2. /\ 0 \in Nat /\ 1 \in Nat /\ Way(<<>>, 0, 0, room)
      /\ 0 + dim * 1 <= dim /\ Way(<<>>, 0 + dim * 1, dim, room)
  <2>1. 0 + dim * 1 = dim
    OBVIOUS
  <2>2. Way(<<>>, dim, dim, room) /\ Way(<<>>, 0, 0, room)
    BY NoLoad
  <2>3. QED
    BY <2>1, <2>2
<1>3. QED
  BY <1>1, <1>2, TurnsOfFor, Zenon DEF Plain

LEMMA NaiveSQ8_FP32_Traverses ==
  ASSUME NEW func \in SQ8_FP32s, NEW dim \in Nat, NEW room, RoomFor(func, dim, room)
  PROVE  /\ Traverses(SQ8_FP32_InnerProduct(dim), dim, room)
         /\ Traverses(SQ8_FP32_Cosine(dim), dim, room)
         /\ func = "SQ8_FP32_L2" => Traverses(SQ8_FP32_L2Sqr(dim), dim, room)
<1>1. Ends(room, dim)
  BY RoomBehind
<1>2. PICK q \in Nat, r \in 0..(4 - 1) : q = dim \div 4 /\ r = dim % 4 /\ dim = q * 4 + r
  BY Sizes, DivMod
<1>3. Way(Times(r, Full(1)), 0 + q * 4, dim, room) /\ 0 + q * 4 <= dim
  <2>1. PICK p \in Nat : p = q * 4
    OBVIOUS
  <2>2. p + r * 1 = dim /\ 0 + q * 4 = p /\ Ends(room, p + r * 1) /\ p <= dim
    BY <1>1, <1>2, <2>1
  <2>3. r \in Nat /\ 1 \in Nat
    OBVIOUS
  <2>4. Way(Times(r, Full(1)), p, p + r * 1, room)
    BY <2>2, <2>3, FullLoads
  <2>5. QED
    BY <2>2, <2>4
<1>4. Advances(Times(4, Full(1)), 4, dim, room)
  <2>1. 4 \in Nat /\ 1 \in Nat /\ 4 = 4 * 1
    OBVIOUS
  <2>2. QED
    BY <1>1, <2>1, AdvancesByFull, Zenon
<1>5. PICK k : k = For({}, <<>>, q, Times(4, Full(1)), Times(r, Full(1)))
  OBVIOUS
<1>6. Traverses(k, dim, room)
  <2>1. Way(<<>>, 0, 0, room) /\ 0 \in Nat /\ 4 \in Nat
    BY NoLoad
  <2>2. QED
    BY <1>1, <1>3, <1>4, <1>5, <2>1, TurnsOfFor, Zenon
<1>7. SQ8_FP32_InnerProduct_Impl(dim) = Reading(k, UpTo(StorageDelta), QuerySum + 1)
  BY <1>2, <1>5 DEF SQ8_FP32_InnerProduct_Impl
<1>8. QED
  BY <1>6, <1>7, ReadingSQ8_FP32
     DEF SQ8_FP32_InnerProduct, SQ8_FP32_Cosine, SQ8_FP32_L2Sqr

LEMMA NaiveSQ8_SQ8_Traverses ==
  ASSUME NEW func \in SQ8_SQ8s, NEW dim \in Nat, NEW room, RoomFor(func, dim, room)
  PROVE  /\ Traverses(SQ8_SQ8_InnerProduct(dim), dim, room)
         /\ Traverses(SQ8_SQ8_Cosine(dim), dim, room)
         /\ func = "SQ8_SQ8_L2" => Traverses(SQ8_SQ8_L2Sqr(dim), dim, room)
<1>1. PICK k : k = Plain(dim)
  OBVIOUS
<1>2. Traverses(k, dim, room)
  BY <1>1, RoomBehind, PlainTraverses
<1>3. QED
  BY <1>1, <1>2, ReadingSQ8_SQ8
     DEF SQ8_SQ8_InnerProduct_Impl, SQ8_SQ8_InnerProduct, SQ8_SQ8_Cosine, SQ8_SQ8_L2Sqr

LEMMA NaiveIntegersTraverse ==
  ASSUME NEW func \in Integers8, NEW dim \in Nat, NEW room, RoomFor(func, dim, room)
  PROVE  /\ Traverses(Plain(dim), dim, room)
         /\ func \in {"INT8_Cosine", "UINT8_Cosine"} =>
              Traverses(Reading(Plain(dim), NormBytes, NormBytes), dim, room)
<1>1. PICK k : k = Plain(dim)
  OBVIOUS
<1>2. Traverses(k, dim, room)
  BY <1>1, RoomBehind, PlainTraverses
<1>3. QED
  BY <1>1, <1>2, RoomBehind, ReadingBehind

-----------------------------------------------------------------------------
(* The choosers: every file is given the dimensions its kernels are for.    *)

LEMMA ChooseAnyDimARM_Traverses ==
  ASSUME NEW cpu \in Cpus, NEW dim \in Nat \ {0}, NEW func \in Floats \cup SQ8_FP32s,
         NEW room, RoomFor(func, dim, room), NEW naive, Traverses(naive, dim, room)
  PROVE  Traverses(ChooseAnyDimARM(cpu, dim, func, naive), dim, room)
<1>1. cpu.has \cap {"sve2", "svebf16"} # {} => "sve" \in cpu.has
  BY CpuAssumption
<1>2. "sve" \in cpu.has => Traverses(SVE(func, dim, cpu.vl), dim, room)
  BY SVE_Traverses
<1>3. Ends(room, dim)
  BY RoomBehind
<1>4. Traverses(NEON(func, dim), dim, room)
  BY <1>3, Floats_NEON_Traverses, SQ8_FP32_NEON_Traverses
<1>5. QED
  BY <1>1, <1>2, <1>4 DEF Has, ChooseAnyDimARM, SVE2

LEMMA ChooseIntegerARM_Traverses ==
  ASSUME NEW cpu \in Cpus, NEW dim \in Nat \ {0}, NEW func \in Integers8 \cup SQ8_SQ8s,
         NEW room, RoomFor(func, dim, room), NEW naive, Traverses(naive, dim, room)
  PROVE  Traverses(ChooseIntegerARM(cpu, dim, func, naive), dim, room)
<1>1. cpu.has \cap {"sve2", "svebf16"} # {} => "sve" \in cpu.has
  BY CpuAssumption
<1>2. "sve" \in cpu.has => Traverses(SVE(func, dim, cpu.vl), dim, room)
  BY SVE_Traverses
<1>3. dim >= 16 => /\ Traverses(NEON(func, dim), dim, room)
                   /\ Traverses(NEON_DOTPROD(func, dim), dim, room)
  BY Integers_NEON_Traverse, SQ8_SQ8_NEON_Traverse
<1>4. QED
  BY <1>1, <1>2, <1>3 DEF Has, ChooseIntegerARM, SVE2

LEMMA ChooseFloat_Traverses ==
  ASSUME NEW cpu \in Cpus, NEW dim \in Nat \ {0}, NEW func \in Floats,
         NEW room, RoomFor(func, dim, room), NEW naive, Traverses(naive, dim, room)
  PROVE  Traverses(ChooseFloat(cpu, dim, func, naive, Shortest(func)), dim, room)
<1>1. PICK chunk \in Nat : chunk = Shortest(func)
  BY DEF Floats, Shortest
<1>2. Ends(room, dim)
  BY RoomBehind
<1>3. dim >= chunk => /\ Traverses(AVX512F(func, dim), dim, room)
                      /\ Traverses(AVX(func, dim), dim, room)
                      /\ Traverses(SSE(func, dim), dim, room)
  BY <1>1, <1>2, AVX512F_Traverses, AVX_Traverses, SSE_Traverses
<1>4. Traverses(ChooseAnyDimARM(cpu, dim, func, naive), dim, room)
  BY ChooseAnyDimARM_Traverses
<1>5. dim < chunk \/ dim >= chunk
  BY <1>1
<1>6. QED
  BY <1>1, <1>3, <1>4, <1>5 DEF ChooseFloat

LEMMA BF16_GetDistFunc_Traverse ==
  ASSUME NEW cpu \in Cpus, NEW dim \in Nat \ {0}, NEW room, Ends(room, dim)
  PROVE  /\ Traverses(IP_BF16_GetDistFunc(cpu, dim), dim, room)
         /\ Traverses(L2_BF16_GetDistFunc(cpu, dim), dim, room)
<1>1. Traverses(BF16_InnerProduct(dim), dim, room) /\ Traverses(BF16_L2Sqr(dim), dim, room)
  BY PlainTraverses DEF BF16_InnerProduct, BF16_L2Sqr
<1>2. dim >= 32 => Traverses(AVX512BF16_VL("BF16_IP", dim), dim, room)
  BY AVX512BF16_VL_Traverses
<1>3. ASSUME NEW func \in BF16s
      PROVE  /\ "svebf16" \in cpu.has => Traverses(SVE_BF16(func, dim, cpu.vl), dim, room)
             /\ dim >= 8 => Traverses(NEON_BF16(func, dim), dim, room)
             /\ dim >= 32 => /\ Traverses(AVX512BW_VBMI2(func, dim), dim, room)
                             /\ Traverses(AVX2(func, dim), dim, room)
                             /\ Traverses(SSE3(func, dim), dim, room)
  BY SVE_BF16_Traverses, NEON_BF16_Traverses, AVX512BW_VBMI2_Traverses, AVX2_BF16_Traverses,
     SSE3_Traverses
<1>4. dim < 32 \/ dim >= 32
  OBVIOUS
<1>5. Traverses(IP_BF16_GetDistFunc(cpu, dim), dim, room)
  BY <1>1, <1>2, <1>3, <1>4 DEF Has, IP_BF16_GetDistFunc, BF16s
<1>6. Traverses(L2_BF16_GetDistFunc(cpu, dim), dim, room)
  BY <1>1, <1>3, <1>4 DEF Has, L2_BF16_GetDistFunc, BF16s
<1>7. QED
  BY <1>5, <1>6

LEMMA ChooseFP16_Traverses ==
  ASSUME NEW cpu \in Cpus, NEW dim \in Nat \ {0}, NEW func \in FP16s,
         NEW room, RoomFor(func, dim, room), NEW naive, Traverses(naive, dim, room)
  PROVE  Traverses(ChooseFP16(cpu, dim, func, naive), dim, room)
<1>1. cpu.has \cap {"sve2", "svebf16"} # {} => "sve" \in cpu.has
  BY CpuAssumption
<1>2. "sve" \in cpu.has => Traverses(SVE(func, dim, cpu.vl), dim, room)
  BY SVE_Traverses
<1>3. Ends(room, dim)
  BY RoomBehind
<1>4. dim >= 8 => Traverses(NEON_HP(func, dim), dim, room)
  BY <1>3, NEON_HP_Traverses
<1>5. dim >= 32 => /\ Traverses(AVX512FP16_VL(func, dim), dim, room)
                   /\ Traverses(AVX512F(func, dim), dim, room)
                   /\ Traverses(F16C(func, dim), dim, room)
  <2>1. Shortest(func) = 32
    BY DEF Shortest, FP16s, SQ8_SQ8s
  <2>2. QED
    BY <1>3, <2>1, AVX512FP16_VL_Traverses, AVX512F_Traverses, F16C_Traverses
<1>6. dim < 32 \/ dim >= 32
  OBVIOUS
<1>7. QED
  BY <1>1, <1>2, <1>4, <1>5, <1>6 DEF Has, ChooseFP16, SVE2

LEMMA ChooseInteger_Traverses ==
  ASSUME NEW cpu \in Cpus, NEW dim \in Nat \ {0}, NEW func \in Integers8,
         NEW room, RoomFor(func, dim, room), NEW naive, Traverses(naive, dim, room)
  PROVE  Traverses(ChooseInteger(cpu, dim, func, naive), dim, room)
<1>1. dim >= 32 => Traverses(AVX512F_BW_VL_VNNI(func, dim), dim, room)
  BY VNNI_Integers_Traverses
<1>2. Traverses(ChooseIntegerARM(cpu, dim, func, naive), dim, room)
  BY ChooseIntegerARM_Traverses
<1>3. dim < 32 \/ dim >= 32
  OBVIOUS
<1>4. QED
  BY <1>1, <1>2, <1>3 DEF ChooseInteger

LEMMA ChooseSQ8_FP32_Traverses ==
  ASSUME NEW cpu \in Cpus, NEW dim \in Nat \ {0}, NEW func \in SQ8_FP32s,
         NEW room, RoomFor(func, dim, room), NEW naive, Traverses(naive, dim, room)
  PROVE  Traverses(ChooseSQ8_FP32(cpu, dim, func, naive), dim, room)
<1>1. dim >= 16 => /\ Traverses(AVX512F_BW_VL_VNNI(func, dim), dim, room)
                   /\ Traverses(AVX2_FMA(func, dim), dim, room)
                   /\ Traverses(AVX2(func, dim), dim, room)
                   /\ Traverses(SSE4(func, dim), dim, room)
  BY VNNI_SQ8_FP32_Traverses, AVX2_SQ8_Traverses, SSE4_Traverses
<1>2. Traverses(ChooseAnyDimARM(cpu, dim, func, naive), dim, room)
  BY ChooseAnyDimARM_Traverses
<1>3. dim < 16 \/ dim >= 16
  OBVIOUS
<1>4. QED
  BY <1>1, <1>2, <1>3 DEF ChooseSQ8_FP32

LEMMA ChooseSQ8_SQ8_Traverses ==
  ASSUME NEW cpu \in Cpus, NEW dim \in Nat \ {0}, NEW func \in SQ8_SQ8s,
         NEW room, RoomFor(func, dim, room), NEW naive, Traverses(naive, dim, room)
  PROVE  Traverses(ChooseSQ8_SQ8(cpu, dim, func, naive), dim, room)
<1>1. Traverses(AVX512F_BW_VL_VNNI(func, dim), dim, room)
  BY VNNI_SQ8_SQ8_Traverses
<1>2. Traverses(ChooseIntegerARM(cpu, dim, func, naive), dim, room)
  BY ChooseIntegerARM_Traverses
<1>3. QED
  BY <1>1, <1>2 DEF ChooseSQ8_SQ8

\* The blobs the preprocessors make have the metadata the chosen function reads.
LEMMA GetDistFuncTraverses ==
  ASSUME NEW cpu \in Cpus, NEW dim \in Nat \ {0}, NEW type \in Types, NEW metric \in Metrics
  PROVE  Traverses(GetDistFunc(type, metric, cpu, dim), dim, ProcessedBlobs(type, metric, dim))
<1>1. PICK room : room = ProcessedBlobs(type, metric, dim)
  OBVIOUS
<1>2. CASE type \in {"FP32", "FP64", "BF16", "FP16"}
  <2>1. room[1] = dim /\ room[2] = dim
    <3>1. room = [i \in 1..2 |-> dim + <<0, 0>>[i]]
      BY <1>1, <1>2 DEF ProcessedBlobs
    <3>2. QED
      BY <3>1
  <2>2. \A func \in Floats \cup FP16s : MetadataOf(func) = <<0, 0>>
    BY DEF Floats, FP16s, MetadataOf
  <2>3. Ends(room, dim) /\ \A func \in Floats \cup FP16s : RoomFor(func, dim, room)
    BY <2>1, <2>2 DEF Ends, RoomFor
  <2>4. Traverses(Plain(dim), dim, room)
    BY <2>3, PlainTraverses
  <2>5. \A func \in Floats :
           Traverses(ChooseFloat(cpu, dim, func, Plain(dim), Shortest(func)), dim, room)
    BY <2>3, <2>4, ChooseFloat_Traverses
  <2>6. CASE type = "FP32"
    <3>1. Shortest("FP32_IP") = 16 /\ Shortest("FP32_L2") = 16
      BY DEF Shortest, SQ8_SQ8s
    <3>2. "FP32_IP" \in Floats /\ "FP32_L2" \in Floats
      BY DEF Floats
    <3>3. /\ Traverses(ChooseFloat(cpu, dim, "FP32_IP", Plain(dim), Shortest("FP32_IP")), dim, room)
          /\ Traverses(ChooseFloat(cpu, dim, "FP32_L2", Plain(dim), Shortest("FP32_L2")), dim, room)
      BY <2>5, <3>2
    <3>4. /\ Traverses(IP_FP32_GetDistFunc(cpu, dim), dim, room)
          /\ Traverses(L2_FP32_GetDistFunc(cpu, dim), dim, room)
      BY <3>1, <3>3
         DEF IP_FP32_GetDistFunc, L2_FP32_GetDistFunc, FP32_InnerProduct, FP32_L2Sqr
    <3>5. QED
      BY <1>1, <2>6, <3>4 DEF GetDistFunc, Metrics
  <2>7. CASE type = "FP64"
    <3>1. Shortest("FP64_IP") = 8 /\ Shortest("FP64_L2") = 8
      BY DEF Shortest, SQ8_SQ8s
    <3>2. "FP64_IP" \in Floats /\ "FP64_L2" \in Floats
      BY DEF Floats
    <3>3. /\ Traverses(ChooseFloat(cpu, dim, "FP64_IP", Plain(dim), Shortest("FP64_IP")), dim, room)
          /\ Traverses(ChooseFloat(cpu, dim, "FP64_L2", Plain(dim), Shortest("FP64_L2")), dim, room)
      BY <2>5, <3>2
    <3>4. /\ Traverses(IP_FP64_GetDistFunc(cpu, dim), dim, room)
          /\ Traverses(L2_FP64_GetDistFunc(cpu, dim), dim, room)
      BY <3>1, <3>3
         DEF IP_FP64_GetDistFunc, L2_FP64_GetDistFunc, FP64_InnerProduct, FP64_L2Sqr
    <3>5. QED
      BY <1>1, <2>7, <3>4 DEF GetDistFunc, Metrics
  <2>8. CASE type = "BF16"
    <3>1. /\ Traverses(IP_BF16_GetDistFunc(cpu, dim), dim, room)
          /\ Traverses(L2_BF16_GetDistFunc(cpu, dim), dim, room)
      BY <2>3, BF16_GetDistFunc_Traverse
    <3>2. QED
      BY <1>1, <2>8, <3>1 DEF GetDistFunc, Metrics
  <2>9. CASE type = "FP16"
    <3>1. /\ Traverses(IP_FP16_GetDistFunc(cpu, dim), dim, room)
          /\ Traverses(L2_FP16_GetDistFunc(cpu, dim), dim, room)
      BY <2>3, <2>4, ChooseFP16_Traverses
         DEF FP16s, IP_FP16_GetDistFunc, L2_FP16_GetDistFunc, FP16_InnerProduct, FP16_L2Sqr
    <3>2. QED
      BY <1>1, <2>9, <3>1 DEF GetDistFunc, Metrics
  <2>10. QED
    BY <1>2, <2>6, <2>7, <2>8, <2>9
<1>3. CASE type \in {"INT8", "UINT8"}
  <2>1. room = [i \in 1..2 |-> dim + (IF metric = "Cosine" THEN <<4, 4>> ELSE <<0, 0>>)[i]]
    BY <1>1, <1>3 DEF ProcessedBlobs, IntegerBlob, NormBytes
  <2>2. room[1] \in Nat /\ room[2] \in Nat /\ dim <= room[1] /\ dim <= room[2]
    BY <2>1
  <2>3. metric = "Cosine" => dim + 4 = room[1] /\ dim + 4 = room[2]
    BY <2>1
  <2>4. ASSUME NEW func \in Integers8, func \in {"INT8_Cosine", "UINT8_Cosine"} => metric = "Cosine"
        PROVE  RoomFor(func, dim, room)
    <3>1. CASE func \in {"INT8_Cosine", "UINT8_Cosine"}
      BY <2>2, <2>3, <2>4, <3>1 DEF RoomFor, MetadataOf
    <3>2. CASE ~ (func \in {"INT8_Cosine", "UINT8_Cosine"})
      <4>1. MetadataOf(func) = <<0, 0>>
        BY <3>2 DEF MetadataOf, Integers8
      <4>2. QED
        BY <2>2, <4>1 DEF RoomFor
    <3>3. QED
      BY <3>1, <3>2
  <2>5. ASSUME NEW func \in Integers8 \ {"INT8_Cosine", "UINT8_Cosine"}
        PROVE  Traverses(ChooseInteger(cpu, dim, func, Plain(dim)), dim, room)
    BY <2>4, NaiveIntegersTraverse, ChooseInteger_Traverses
  <2>6. ASSUME NEW func \in {"INT8_Cosine", "UINT8_Cosine"}, metric = "Cosine"
        PROVE  Traverses(ChooseInteger(cpu, dim, func, Reading(Plain(dim), NormBytes, NormBytes)),
                         dim, room)
    <3>1. func \in Integers8
      BY DEF Integers8
    <3>2. QED
      BY <2>4, <2>6, <3>1, NaiveIntegersTraverse, ChooseInteger_Traverses
  <2>7. CASE type = "INT8"
    <3>1. /\ Traverses(IP_INT8_GetDistFunc(cpu, dim), dim, room)
          /\ Traverses(L2_INT8_GetDistFunc(cpu, dim), dim, room)
      BY <2>5 DEF Integers8, IP_INT8_GetDistFunc, L2_INT8_GetDistFunc, INT8_InnerProduct, INT8_L2Sqr
    <3>2. metric = "Cosine" => Traverses(Cosine_INT8_GetDistFunc(cpu, dim), dim, room)
      BY <2>6 DEF Cosine_INT8_GetDistFunc, INT8_Cosine
    <3>3. QED
      BY <1>1, <2>7, <3>1, <3>2 DEF GetDistFunc, Metrics
  <2>8. CASE type = "UINT8"
    <3>1. /\ Traverses(IP_UINT8_GetDistFunc(cpu, dim), dim, room)
          /\ Traverses(L2_UINT8_GetDistFunc(cpu, dim), dim, room)
      BY <2>5
         DEF Integers8, IP_UINT8_GetDistFunc, L2_UINT8_GetDistFunc, UINT8_InnerProduct, UINT8_L2Sqr
    <3>2. metric = "Cosine" => Traverses(Cosine_UINT8_GetDistFunc(cpu, dim), dim, room)
      BY <2>6 DEF Cosine_UINT8_GetDistFunc, UINT8_Cosine
    <3>3. QED
      BY <1>1, <2>8, <3>1, <3>2 DEF GetDistFunc, Metrics
  <2>9. QED
    BY <1>3, <2>7, <2>8
<1>4. CASE type = "SQ8_FP32"
  <2>1. room = [i \in 1..2 |-> dim + (IF metric = "L2" THEN <<16, 2>> ELSE <<12, 1>>)[i]]
    <3>1. /\ StorageBlob(metric) = IF metric = "L2" THEN 16 ELSE 12
          /\ QueryMetadataCount(metric) = IF metric = "L2" THEN 2 ELSE 1
      BY DEF StorageBlob, Float, StorageMetadataCount, QueryMetadataCount
    <3>2. room = [i \in 1..2 |-> dim + <<StorageBlob(metric), QueryMetadataCount(metric)>>[i]]
      BY <1>1, <1>4 DEF ProcessedBlobs
    <3>3. QED
      BY <3>1, <3>2
  <2>2. room[1] \in Nat /\ room[2] \in Nat /\ dim + 12 <= room[1] /\ dim + 1 <= room[2]
    BY <2>1
  <2>3. metric = "L2" => dim + 16 = room[1] /\ dim + 2 = room[2]
    BY <2>1
  <2>4. /\ RoomFor("SQ8_FP32_IP", dim, room) /\ RoomFor("SQ8_FP32_Cosine", dim, room)
        /\ metric = "L2" => RoomFor("SQ8_FP32_L2", dim, room)
    BY <2>2, <2>3 DEF RoomFor, MetadataOf
  <2>5. /\ Traverses(IP_SQ8_FP32_GetDistFunc(cpu, dim), dim, room)
        /\ Traverses(Cosine_SQ8_FP32_GetDistFunc(cpu, dim), dim, room)
        /\ metric = "L2" => Traverses(L2_SQ8_FP32_GetDistFunc(cpu, dim), dim, room)
    BY <2>4, NaiveSQ8_FP32_Traverses, ChooseSQ8_FP32_Traverses
       DEF SQ8_FP32s, IP_SQ8_FP32_GetDistFunc, Cosine_SQ8_FP32_GetDistFunc, L2_SQ8_FP32_GetDistFunc
  <2>6. QED
    BY <1>1, <1>4, <2>5 DEF GetDistFunc, Metrics
<1>5. CASE type = "SQ8_SQ8"
  <2>1. room = [i \in 1..2 |-> dim + (IF metric = "L2" THEN <<16, 16>> ELSE <<12, 12>>)[i]]
    <3>1. StorageBlob(metric) = IF metric = "L2" THEN 16 ELSE 12
      BY DEF StorageBlob, Float, StorageMetadataCount
    <3>2. room = [i \in 1..2 |-> dim + <<StorageBlob(metric), StorageBlob(metric)>>[i]]
      BY <1>1, <1>5 DEF ProcessedBlobs
    <3>3. QED
      BY <3>1, <3>2
  <2>2. room[1] \in Nat /\ room[2] \in Nat /\ dim + 12 <= room[1] /\ dim + 12 <= room[2]
    BY <2>1
  <2>3. metric = "L2" => dim + 16 = room[1] /\ dim + 16 = room[2]
    BY <2>1
  <2>4. /\ RoomFor("SQ8_SQ8_IP", dim, room) /\ RoomFor("SQ8_SQ8_Cosine", dim, room)
        /\ metric = "L2" => RoomFor("SQ8_SQ8_L2", dim, room)
    BY <2>2, <2>3 DEF RoomFor, MetadataOf
  <2>5. /\ Traverses(IP_SQ8_SQ8_GetDistFunc(cpu, dim), dim, room)
        /\ Traverses(Cosine_SQ8_SQ8_GetDistFunc(cpu, dim), dim, room)
        /\ metric = "L2" => Traverses(L2_SQ8_SQ8_GetDistFunc(cpu, dim), dim, room)
    BY <2>4, NaiveSQ8_SQ8_Traverses, ChooseSQ8_SQ8_Traverses
       DEF SQ8_SQ8s, IP_SQ8_SQ8_GetDistFunc, Cosine_SQ8_SQ8_GetDistFunc, L2_SQ8_SQ8_GetDistFunc
  <2>6. QED
    BY <1>1, <1>5, <2>5 DEF GetDistFunc, Metrics
<1>6. QED
  BY <1>2, <1>3, <1>4, <1>5 DEF Types

-----------------------------------------------------------------------------
(* A run of the chosen kernel stays on its course.                          *)

IndexOnCourse ==
  index # None =>
    /\ index.dim \in Nat
    /\ \A i \in 1..2 : index.blobs[i] \in Nat
    /\ Traverses(index.kernel, index.dim, index.blobs)

\* Where the pointers are, and that everything before them is accumulated.
At(p, w, turns) ==
  \/ call.phase = "before" /\ call.turn = 0 /\ Clean(call, 0, call.blobs)
  \/ call.phase = "loop" /\ call.turn \in 0..turns /\ Clean(call, p + call.turn * w, call.blobs)
  \/ call.phase = "done" /\ Clean(call, call.dim, call.blobs)

CallOnCourse ==
  call # None =>
    /\ call.dim \in Nat
    /\ \A i \in 1..2 : call.blobs[i] \in Nat
    /\ \E p, w, turns \in Nat :
         Course(call.kernel, call.dim, call.blobs, p, w, turns) /\ At(p, w, turns)

\* The loop ends after its turns, neither earlier nor later.
LEMMA LoopEnds ==
  ASSUME NEW p \in Nat, NEW w \in Nat, NEW turns \in Nat,
         Course(call.kernel, call.dim, call.blobs, p, w, turns),
         call.turn \in 0..turns, call.pos = p + call.turn * w
  PROVE  Again <=> call.turn < turns
<1>1. PICK t \in 0..turns : t = call.turn
  OBVIOUS
<1>2. CASE call.kernel.loop = "for"
  BY <1>1, <1>2 DEF Course, Again
<1>3. ASSUME w > 0 PROVE p + t * w < p + turns * w <=> t < turns
  <2>1. t < turns => turns * w = t * w + (turns - t) * w /\ (turns - t) * w > 0
    BY <1>3
  <2>2. t * w \in Nat /\ turns * w \in Nat
    OBVIOUS
  <2>3. t < turns \/ t = turns
    OBVIOUS
  <2>4. QED
    BY <2>1, <2>2, <2>3
<1>4. CASE call.kernel.loop = "while"
  <2>1. w > 0 /\ p + turns * w = call.dim
    BY <1>4 DEF Course
  <2>2. call.pos < call.dim <=> t < turns
    BY <1>1, <1>3, <2>1
  <2>3. QED
    BY <1>1, <1>4, <2>2 DEF Again
<1>5. CASE call.kernel.loop = "do"
  <2>1. w > 0 /\ turns > 0 /\ p + turns * w = call.dim
    BY <1>5 DEF Course
  <2>2. call.pos < call.dim <=> t < turns
    BY <1>1, <1>3, <2>1
  <2>3. call.turn = 0 => t < turns
    BY <1>1, <2>1
  <2>4. QED
    BY <1>1, <1>5, <2>2, <2>3 DEF Again
<1>6. QED
  BY <1>2, <1>4, <1>5 DEF Course

LEMMA BlobsAreNat ==
  ASSUME NEW type \in Types, NEW metric \in Metrics, NEW dim \in Nat
  PROVE  \A i \in 1..2 : ProcessedBlobs(type, metric, dim)[i] \in Nat
BY DEF Types, ProcessedBlobs, IntegerBlob, NormBytes, StorageBlob, Float, StorageMetadataCount,
       QueryMetadataCount

LEMMA CreateOnCourse ==
  ASSUME Create PROVE IndexOnCourse'
<1>1. PICK type \in Types, metric \in Metrics, cpu \in Cpus, dim \in Dims :
        index' = [phase  |-> "created", cpu |-> cpu, dim |-> dim,
                  blobs  |-> ProcessedBlobs(type, metric, dim),
                  kernel |-> GetDistFunc(type, metric, cpu, dim)]
  BY DEF Create
<1>2. dim \in Nat \ {0}
  BY DimsAssumption
<1>3. Traverses(GetDistFunc(type, metric, cpu, dim), dim, ProcessedBlobs(type, metric, dim))
  BY <1>2, GetDistFuncTraverses
<1>4. \A i \in 1..2 : ProcessedBlobs(type, metric, dim)[i] \in Nat
  BY <1>2, BlobsAreNat
<1>5. QED
  BY <1>1, <1>2, <1>3, <1>4 DEF IndexOnCourse

LEMMA CallStarts ==
  ASSUME IndexOnCourse, Call PROVE CallOnCourse'
<1>1. call' = [phase |-> "before", kernel |-> index.kernel, dim |-> index.dim,
               blobs |-> index.blobs, turn |-> 0,
               pos |-> 0, used |-> {}, twice |-> {}, top |-> <<0, 0>>]
  BY DEF Call
<1>2. /\ index.dim \in Nat /\ \A i \in 1..2 : index.blobs[i] \in Nat
      /\ \E p, w, turns \in Nat : Course(index.kernel, index.dim, index.blobs, p, w, turns)
  BY DEF IndexOnCourse, Call, Traverses
<1>3. /\ call'.phase = "before" /\ call'.turn = 0 /\ call'.kernel = index.kernel
      /\ call'.dim = index.dim /\ call'.blobs = index.blobs
  BY <1>1
<1>4. /\ DOMAIN call' = Fields /\ call' = [f \in DOMAIN call' |-> call'[f]]
      /\ call'.pos = 0 /\ call'.used = {} /\ call'.twice = {}
      /\ call'.top[1] = 0 /\ call'.top[2] = 0
  BY <1>1 DEF Fields
<1>5. Lanes(0) = {}
  BY DEF Lanes
<1>6. Clean(call', 0, call'.blobs)
  BY <1>2, <1>3, <1>4, <1>5 DEF Clean
<1>7. QED
  BY <1>2, <1>3, <1>6 DEF CallOnCourse, At

LEMMA BeforeLoopOnCourse ==
  ASSUME CallOnCourse, BeforeLoop PROVE CallOnCourse'
<1>1. call # None
  BY DEF BeforeLoop, None
<1>2. PICK p, w, turns \in Nat :
        Course(call.kernel, call.dim, call.blobs, p, w, turns) /\ At(p, w, turns)
  BY <1>1 DEF CallOnCourse
<1>3. call.turn = 0 /\ Clean(call, 0, call.blobs)
  BY <1>2 DEF At, BeforeLoop
<1>4. PICK ran : ran = Run(call, call.kernel.before)
  OBVIOUS
<1>5. Clean(ran, p, call.blobs) /\ SameCall(call, ran)
  BY <1>2, <1>3, <1>4, RunsTheWay DEF Course
<1>6. call' = [ran EXCEPT !.phase = "loop"]
  BY <1>4 DEF BeforeLoop
<1>7. /\ Clean(call', p, call.blobs) /\ call'.phase = "loop" /\ call'.turn = 0
      /\ call'.kernel = call.kernel /\ call'.dim = call.dim /\ call'.blobs = call.blobs
  <2>1. /\ Clean(call', p, call.blobs) /\ call'.phase = "loop" /\ call'.turn = ran.turn
        /\ call'.kernel = ran.kernel /\ call'.dim = ran.dim /\ call'.blobs = ran.blobs
    BY <1>5, <1>6 DEF Clean, Fields
  <2>2. QED
    BY <1>3, <1>5, <2>1 DEF SameCall
<1>8. p + 0 * w = p /\ 0 \in 0..turns
  OBVIOUS
<1>9. At(p, w, turns)'
  BY <1>7, <1>8 DEF At
<1>10. QED
  BY <1>1, <1>2, <1>7, <1>9 DEF CallOnCourse

LEMMA TurnOnCourse ==
  ASSUME CallOnCourse, Turn PROVE CallOnCourse'
<1>1. call # None
  BY DEF Turn, None
<1>2. PICK p, w, turns \in Nat :
        Course(call.kernel, call.dim, call.blobs, p, w, turns) /\ At(p, w, turns)
  BY <1>1 DEF CallOnCourse
<1>3. call.turn \in 0..turns /\ Clean(call, p + call.turn * w, call.blobs)
  BY <1>2 DEF At, Turn
<1>4. PICK t \in 0..(turns - 1) : t = call.turn
  <2>1. call.turn < turns
    BY <1>2, <1>3, LoopEnds DEF Turn, Clean
  <2>2. QED
    BY <1>3, <2>1
<1>5. PICK ran : ran = Run(call, call.kernel.body)
  OBVIOUS
<1>6. Clean(ran, p + (t + 1) * w, call.blobs) /\ SameCall(call, ran)
  <2>1. Way(call.kernel.body, p + t * w, p + (t + 1) * w, call.blobs)
    BY <1>2 DEF Course
  <2>2. QED
    BY <1>3, <1>4, <1>5, <2>1, RunsTheWay
<1>7. call' = [ran EXCEPT !.turn = t + 1]
  BY <1>4, <1>5, <1>6 DEF Turn, SameCall
<1>8. /\ Clean(call', p + (t + 1) * w, call.blobs) /\ call'.phase = "loop" /\ call'.turn = t + 1
      /\ call'.kernel = call.kernel /\ call'.dim = call.dim /\ call'.blobs = call.blobs
  <2>1. /\ Clean(call', p + (t + 1) * w, call.blobs) /\ call'.phase = ran.phase
        /\ call'.turn = t + 1 /\ call'.kernel = ran.kernel /\ call'.dim = ran.dim
        /\ call'.blobs = ran.blobs
    <3>1. PICK q : q = p + (t + 1) * w
      OBVIOUS
    <3>2. PICK next : next = t + 1
      OBVIOUS
    <3>3. Clean(ran, q, call.blobs) /\ call' = [ran EXCEPT !.turn = next]
      BY <1>6, <1>7, <3>1, <3>2
    <3>4. /\ Clean(call', q, call.blobs) /\ call'.phase = ran.phase /\ call'.turn = next
          /\ call'.kernel = ran.kernel /\ call'.dim = ran.dim /\ call'.blobs = ran.blobs
      BY <3>3 DEF Clean, Fields
    <3>5. QED
      BY <3>1, <3>2, <3>4
  <2>2. call.phase = "loop"
    BY DEF Turn
  <2>3. QED
    BY <1>6, <2>1, <2>2 DEF SameCall
<1>9. t + 1 \in 0..turns
  OBVIOUS
<1>10. At(p, w, turns)'
  BY <1>8, <1>9 DEF At
<1>11. QED
  BY <1>1, <1>2, <1>8, <1>10 DEF CallOnCourse

LEMMA AfterLoopOnCourse ==
  ASSUME CallOnCourse, AfterLoop PROVE CallOnCourse'
<1>1. call # None
  BY DEF AfterLoop, None
<1>2. PICK p, w, turns \in Nat :
        Course(call.kernel, call.dim, call.blobs, p, w, turns) /\ At(p, w, turns)
  BY <1>1 DEF CallOnCourse
<1>3. call.turn \in 0..turns /\ Clean(call, p + call.turn * w, call.blobs)
  BY <1>2 DEF At, AfterLoop
<1>4. call.turn = turns
  <2>1. ~(call.turn < turns)
    BY <1>2, <1>3, LoopEnds DEF AfterLoop, Clean
  <2>2. PICK t \in 0..turns : t = call.turn
    BY <1>3
  <2>3. QED
    BY <2>1, <2>2
<1>5. PICK ran : ran = Run(call, call.kernel.after)
  OBVIOUS
<1>6. Clean(ran, call.dim, call.blobs) /\ SameCall(call, ran)
  BY <1>2, <1>3, <1>4, <1>5, RunsTheWay DEF Course
<1>7. PICK top : top = [i \in 1..2 |-> IF call.kernel.extra[i] = 0 THEN ran.top[i]
                                       ELSE Larger(ran.top[i], call.dim + call.kernel.extra[i])]
  OBVIOUS
<1>8. \A i \in 1..2 : top[i] \in Int /\ top[i] <= call.blobs[i]
  <2>1. call.dim \in Nat
    BY <1>1 DEF CallOnCourse
  <2>2. \A i \in 1..2 : /\ call.kernel.extra[i] \in Nat
                        /\ call.dim + call.kernel.extra[i] <= call.blobs[i]
    BY <1>2 DEF Course
  <2>3. \A i \in 1..2 : ran.top[i] \in Int /\ ran.top[i] <= call.blobs[i]
    BY <1>6 DEF Clean
  <2>4. QED
    BY <1>7, <2>1, <2>2, <2>3 DEF Larger
<1>9. DOMAIN ran = Fields
  BY <1>6 DEF Clean
<1>10. call' = [ran EXCEPT !.phase = "done", !.top = top]
  BY <1>5, <1>7, <1>9 DEF AfterLoop, Fields
<1>11. /\ DOMAIN call' = Fields /\ call' = [f \in DOMAIN call' |-> call'[f]]
       /\ call'.phase = "done" /\ call'.top = top
       /\ call'.pos = ran.pos /\ call'.used = ran.used /\ call'.twice = ran.twice
       /\ call'.kernel = ran.kernel /\ call'.dim = ran.dim /\ call'.blobs = ran.blobs
  BY <1>9, <1>10 DEF Fields
<1>12. call'.kernel = call.kernel /\ call'.dim = call.dim /\ call'.blobs = call.blobs
  BY <1>6, <1>11 DEF SameCall
<1>13. Clean(call', call.dim, call.blobs)
  BY <1>6, <1>8, <1>11 DEF Clean
<1>14. At(p, w, turns)'
  BY <1>11, <1>12, <1>13 DEF At
<1>15. QED
  BY <1>1, <1>2, <1>12, <1>14 DEF CallOnCourse

\* The inductive invariant of the runs.
OnCourse == IndexOnCourse /\ CallOnCourse

LEMMA StaysOnCourse == Spec => []OnCourse
<1>1. Init => OnCourse
  BY DEF Init, OnCourse, IndexOnCourse, CallOnCourse
<1>2. OnCourse /\ [Next]_vars => OnCourse'
  <2> SUFFICES ASSUME OnCourse, [Next]_vars PROVE OnCourse'
    OBVIOUS
  <2>1. CASE Create
    <3>1. call' = None
      BY <2>1 DEF Create
    <3>2. QED
      BY <2>1, <3>1, CreateOnCourse DEF OnCourse, CallOnCourse
  <2>2. CASE Call
    <3>1. index' = None
      BY <2>2 DEF Call
    <3>2. QED
      BY <2>2, <3>1, CallStarts DEF OnCourse, IndexOnCourse
  <2>3. CASE BeforeLoop
    <3>1. IndexOnCourse'
      BY <2>3 DEF BeforeLoop, OnCourse, IndexOnCourse
    <3>2. QED
      BY <2>3, <3>1, BeforeLoopOnCourse DEF OnCourse
  <2>4. CASE Turn
    <3>1. IndexOnCourse'
      BY <2>4 DEF Turn, OnCourse, IndexOnCourse
    <3>2. QED
      BY <2>4, <3>1, TurnOnCourse DEF OnCourse
  <2>5. CASE AfterLoop
    <3>1. IndexOnCourse'
      BY <2>5 DEF AfterLoop, OnCourse, IndexOnCourse
    <3>2. QED
      BY <2>5, <3>1, AfterLoopOnCourse DEF OnCourse
  <2>6. CASE Return
    <3>1. call' = None /\ index' = index
      BY <2>6 DEF Return
    <3>2. QED
      BY <3>1 DEF OnCourse, IndexOnCourse, CallOnCourse
  <2>7. CASE UNCHANGED vars
    BY <2>7 DEF vars, OnCourse, IndexOnCourse, CallOnCourse, At
  <2>8. QED
    BY <2>1, <2>2, <2>3, <2>4, <2>5, <2>6, <2>7 DEF Next
<1>3. QED
  BY <1>1, <1>2, PTL DEF Spec

\* Whatever the type, the metric, the CPU and the dimension, the distance a chosen function
\* returns has accumulated every coordinate, and none of them twice (spaces/IP, spaces/L2 and
\* the choosers of spaces/functions, IP_space.cpp and L2_space.cpp).
THEOREM EveryCoordinateOnce == Spec => []EachCoordinateOnce
<1>1. OnCourse => EachCoordinateOnce
  <2> SUFFICES ASSUME OnCourse, call.phase = "done"
               PROVE  call.used = Lanes(call.dim) /\ call.twice = {}
    BY DEF EachCoordinateOnce
  <2>1. call # None
    BY DEF None
  <2>2. Clean(call, call.dim, call.blobs)
    BY <2>1 DEF OnCourse, CallOnCourse, At
  <2>3. QED
    BY <2>2 DEF Clean
<1>2. QED
  BY <1>1, StaysOnCourse, PTL

\* At no time has a chosen function read past the end of either blob as the preprocessors make
\* it, neither by loading a whole register of which it uses a part nor in the metadata.
THEOREM EveryReadInBlob == Spec => []ReadsStayInBlob
<1>1. OnCourse => ReadsStayInBlob
  <2> SUFFICES ASSUME OnCourse, call # None
               PROVE  \A i \in 1..2 : call.top[i] <= call.blobs[i]
    BY DEF ReadsStayInBlob
  <2>1. \E p : Clean(call, p, call.blobs)
    BY DEF OnCourse, CallOnCourse, At
  <2>2. QED
    BY <2>1 DEF Clean
<1>2. QED
  BY <1>1, StaysOnCourse, PTL

=============================================================================
