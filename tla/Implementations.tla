-------------------------- MODULE Implementations --------------------------
(***************************************************************************)
(* The files of spaces/functions.  Each is compiled for one combination of *)
(* instruction sets and holds a Choose_<func>_implementation_<file> for    *)
(* each distance function it has a kernel for; here they are one operator  *)
(* for each file, with func, such as "FP32_L2", as an argument.            *)
(***************************************************************************)
EXTENDS KernelsX86, KernelsARM

(* The macros of implementation_chooser.h: which instance of a kernel      *)
(* template is taken, by the remainder of the dimension, or by what is     *)
(* left of it when a register has chunk elements.                          *)
CHOOSE_IMPLEMENTATION(dim, chunk) == dim % chunk

CHOOSE_SVE_IMPLEMENTATION(dim, chunk) ==
  [chunk |-> chunk, partial |-> dim % chunk # 0, additional |-> (dim \div chunk) % 4]

(* x86-64. *)

AVX512BF16_VL(func, dim) ==
  CASE func = "BF16_IP" -> BF16_InnerProductSIMD32_AVX512BF16_VL(dim, CHOOSE_IMPLEMENTATION(dim, 32))

AVX512FP16_VL(func, dim) ==
  CASE func = "FP16_IP" -> FP16_InnerProductSIMD32_AVX512FP16_VL(dim, CHOOSE_IMPLEMENTATION(dim, 32))
    [] func = "FP16_L2" -> FP16_L2SqrSIMD32_AVX512FP16_VL(dim, CHOOSE_IMPLEMENTATION(dim, 32))

AVX512BW_VBMI2(func, dim) ==
  CASE func = "BF16_IP" -> BF16_InnerProductSIMD32_AVX512BW_VBMI2(dim, CHOOSE_IMPLEMENTATION(dim, 32))
    [] func = "BF16_L2" -> BF16_L2SqrSIMD32_AVX512BW_VBMI2(dim, CHOOSE_IMPLEMENTATION(dim, 32))

AVX512F(func, dim) ==
  CASE func = "FP32_IP" -> FP32_InnerProductSIMD16_AVX512(dim, CHOOSE_IMPLEMENTATION(dim, 16))
    [] func = "FP64_IP" -> FP64_InnerProductSIMD8_AVX512(dim, CHOOSE_IMPLEMENTATION(dim, 8))
    [] func = "FP32_L2" -> FP32_L2SqrSIMD16_AVX512(dim, CHOOSE_IMPLEMENTATION(dim, 16))
    [] func = "FP64_L2" -> FP64_L2SqrSIMD8_AVX512(dim, CHOOSE_IMPLEMENTATION(dim, 8))
    [] func = "FP16_IP" -> FP16_InnerProductSIMD32_AVX512(dim, CHOOSE_IMPLEMENTATION(dim, 32))
    [] func = "FP16_L2" -> FP16_L2SqrSIMD32_AVX512(dim, CHOOSE_IMPLEMENTATION(dim, 32))

AVX512F_BW_VL_VNNI(func, dim) ==
  CASE func = "INT8_L2"         -> INT8_L2SqrSIMD64_AVX512F_BW_VL_VNNI(dim, CHOOSE_IMPLEMENTATION(dim, 64))
    [] func = "INT8_IP"         -> INT8_InnerProductSIMD64_AVX512F_BW_VL_VNNI(dim, CHOOSE_IMPLEMENTATION(dim, 64))
    [] func = "INT8_Cosine"     -> INT8_CosineSIMD64_AVX512F_BW_VL_VNNI(dim, CHOOSE_IMPLEMENTATION(dim, 64))
    [] func = "UINT8_L2"        -> UINT8_L2SqrSIMD64_AVX512F_BW_VL_VNNI(dim, CHOOSE_IMPLEMENTATION(dim, 64))
    [] func = "UINT8_IP"        -> UINT8_InnerProductSIMD64_AVX512F_BW_VL_VNNI(dim, CHOOSE_IMPLEMENTATION(dim, 64))
    [] func = "UINT8_Cosine"    -> UINT8_CosineSIMD64_AVX512F_BW_VL_VNNI(dim, CHOOSE_IMPLEMENTATION(dim, 64))
    [] func = "SQ8_FP32_IP"     -> SQ8_FP32_InnerProductSIMD16_AVX512F_BW_VL_VNNI(dim, CHOOSE_IMPLEMENTATION(dim, 16))
    [] func = "SQ8_FP32_Cosine" -> SQ8_FP32_CosineSIMD16_AVX512F_BW_VL_VNNI(dim, CHOOSE_IMPLEMENTATION(dim, 16))
    [] func = "SQ8_FP32_L2"     -> SQ8_FP32_L2SqrSIMD16_AVX512F_BW_VL_VNNI(dim, CHOOSE_IMPLEMENTATION(dim, 16))
    [] func = "SQ8_SQ8_IP"      -> SQ8_SQ8_InnerProductSIMD64_AVX512F_BW_VL_VNNI(dim, CHOOSE_IMPLEMENTATION(dim, 64))
    [] func = "SQ8_SQ8_Cosine"  -> SQ8_SQ8_CosineSIMD64_AVX512F_BW_VL_VNNI(dim, CHOOSE_IMPLEMENTATION(dim, 64))
    [] func = "SQ8_SQ8_L2"      -> SQ8_SQ8_L2SqrSIMD64_AVX512F_BW_VL_VNNI(dim, CHOOSE_IMPLEMENTATION(dim, 64))

AVX2(func, dim) ==
  CASE func = "BF16_IP"         -> BF16_InnerProductSIMD32_AVX2(dim, CHOOSE_IMPLEMENTATION(dim, 32))
    [] func = "BF16_L2"         -> BF16_L2SqrSIMD32_AVX2(dim, CHOOSE_IMPLEMENTATION(dim, 32))
    [] func = "SQ8_FP32_IP"     -> SQ8_FP32_InnerProductSIMD16_AVX2(dim, CHOOSE_IMPLEMENTATION(dim, 16))
    [] func = "SQ8_FP32_Cosine" -> SQ8_FP32_CosineSIMD16_AVX2(dim, CHOOSE_IMPLEMENTATION(dim, 16))
    [] func = "SQ8_FP32_L2"     -> SQ8_FP32_L2SqrSIMD16_AVX2(dim, CHOOSE_IMPLEMENTATION(dim, 16))

AVX2_FMA(func, dim) ==
  CASE func = "SQ8_FP32_IP"     -> SQ8_FP32_InnerProductSIMD16_AVX2_FMA(dim, CHOOSE_IMPLEMENTATION(dim, 16))
    [] func = "SQ8_FP32_Cosine" -> SQ8_FP32_CosineSIMD16_AVX2_FMA(dim, CHOOSE_IMPLEMENTATION(dim, 16))
    [] func = "SQ8_FP32_L2"     -> SQ8_FP32_L2SqrSIMD16_AVX2_FMA(dim, CHOOSE_IMPLEMENTATION(dim, 16))

F16C(func, dim) ==
  CASE func = "FP16_IP" -> FP16_InnerProductSIMD32_F16C(dim, CHOOSE_IMPLEMENTATION(dim, 32))
    [] func = "FP16_L2" -> FP16_L2SqrSIMD32_F16C(dim, CHOOSE_IMPLEMENTATION(dim, 32))

AVX(func, dim) ==
  CASE func = "FP32_IP" -> FP32_InnerProductSIMD16_AVX(dim, CHOOSE_IMPLEMENTATION(dim, 16))
    [] func = "FP64_IP" -> FP64_InnerProductSIMD8_AVX(dim, CHOOSE_IMPLEMENTATION(dim, 8))
    [] func = "FP32_L2" -> FP32_L2SqrSIMD16_AVX(dim, CHOOSE_IMPLEMENTATION(dim, 16))
    [] func = "FP64_L2" -> FP64_L2SqrSIMD8_AVX(dim, CHOOSE_IMPLEMENTATION(dim, 8))

SSE4(func, dim) ==
  CASE func = "SQ8_FP32_IP"     -> SQ8_FP32_InnerProductSIMD16_SSE4(dim, CHOOSE_IMPLEMENTATION(dim, 16))
    [] func = "SQ8_FP32_Cosine" -> SQ8_FP32_CosineSIMD16_SSE4(dim, CHOOSE_IMPLEMENTATION(dim, 16))
    [] func = "SQ8_FP32_L2"     -> SQ8_FP32_L2SqrSIMD16_SSE4(dim, CHOOSE_IMPLEMENTATION(dim, 16))

SSE3(func, dim) ==
  CASE func = "BF16_IP" -> BF16_InnerProductSIMD32_SSE3(dim, CHOOSE_IMPLEMENTATION(dim, 32))
    [] func = "BF16_L2" -> BF16_L2SqrSIMD32_SSE3(dim, CHOOSE_IMPLEMENTATION(dim, 32))

SSE(func, dim) ==
  CASE func = "FP32_IP" -> FP32_InnerProductSIMD16_SSE(dim, CHOOSE_IMPLEMENTATION(dim, 16))
    [] func = "FP64_IP" -> FP64_InnerProductSIMD8_SSE(dim, CHOOSE_IMPLEMENTATION(dim, 8))
    [] func = "FP32_L2" -> FP32_L2SqrSIMD16_SSE(dim, CHOOSE_IMPLEMENTATION(dim, 16))
    [] func = "FP64_L2" -> FP64_L2SqrSIMD8_SSE(dim, CHOOSE_IMPLEMENTATION(dim, 8))

-----------------------------------------------------------------------------
(* AArch64.                                                                *)

NEON(func, dim) ==
  CASE func = "INT8_IP"         -> INT8_InnerProductSIMD16_NEON(dim, CHOOSE_IMPLEMENTATION(dim, 64))
    [] func = "UINT8_IP"        -> UINT8_InnerProductSIMD16_NEON(dim, CHOOSE_IMPLEMENTATION(dim, 64))
    [] func = "FP32_IP"         -> FP32_InnerProductSIMD16_NEON(dim, CHOOSE_IMPLEMENTATION(dim, 16))
    [] func = "FP64_IP"         -> FP64_InnerProductSIMD8_NEON(dim, CHOOSE_IMPLEMENTATION(dim, 8))
    [] func = "INT8_Cosine"     -> INT8_CosineSIMD_NEON(dim, CHOOSE_IMPLEMENTATION(dim, 64))
    [] func = "UINT8_Cosine"    -> UINT8_CosineSIMD_NEON(dim, CHOOSE_IMPLEMENTATION(dim, 64))
    [] func = "FP32_L2"         -> FP32_L2SqrSIMD16_NEON(dim, CHOOSE_IMPLEMENTATION(dim, 16))
    [] func = "INT8_L2"         -> INT8_L2SqrSIMD16_NEON(dim, CHOOSE_IMPLEMENTATION(dim, 64))
    [] func = "UINT8_L2"        -> UINT8_L2SqrSIMD16_NEON(dim, CHOOSE_IMPLEMENTATION(dim, 64))
    [] func = "FP64_L2"         -> FP64_L2SqrSIMD8_NEON(dim, CHOOSE_IMPLEMENTATION(dim, 8))
    [] func = "SQ8_FP32_L2"     -> SQ8_FP32_L2SqrSIMD16_NEON(dim, CHOOSE_IMPLEMENTATION(dim, 16))
    [] func = "SQ8_FP32_IP"     -> SQ8_FP32_InnerProductSIMD16_NEON(dim, CHOOSE_IMPLEMENTATION(dim, 16))
    [] func = "SQ8_FP32_Cosine" -> SQ8_FP32_CosineSIMD16_NEON(dim, CHOOSE_IMPLEMENTATION(dim, 16))
    [] func = "SQ8_SQ8_IP"      -> SQ8_SQ8_InnerProductSIMD64_NEON(dim, CHOOSE_IMPLEMENTATION(dim, 64))
    [] func = "SQ8_SQ8_Cosine"  -> SQ8_SQ8_CosineSIMD64_NEON(dim, CHOOSE_IMPLEMENTATION(dim, 64))
    [] func = "SQ8_SQ8_L2"      -> SQ8_SQ8_L2SqrSIMD64_NEON(dim, CHOOSE_IMPLEMENTATION(dim, 64))

NEON_DOTPROD(func, dim) ==
  CASE func = "INT8_IP"        -> INT8_InnerProductSIMD16_NEON_DOTPROD(dim, CHOOSE_IMPLEMENTATION(dim, 64))
    [] func = "UINT8_IP"       -> UINT8_InnerProductSIMD16_NEON_DOTPROD(dim, CHOOSE_IMPLEMENTATION(dim, 64))
    [] func = "INT8_Cosine"    -> INT8_CosineSIMD_NEON_DOTPROD(dim, CHOOSE_IMPLEMENTATION(dim, 64))
    [] func = "UINT8_Cosine"   -> UINT8_CosineSIMD_NEON_DOTPROD(dim, CHOOSE_IMPLEMENTATION(dim, 64))
    [] func = "INT8_L2"        -> INT8_L2SqrSIMD16_NEON_DOTPROD(dim, CHOOSE_IMPLEMENTATION(dim, 64))
    [] func = "UINT8_L2"       -> UINT8_L2SqrSIMD16_NEON_DOTPROD(dim, CHOOSE_IMPLEMENTATION(dim, 64))
    [] func = "SQ8_SQ8_IP"     -> SQ8_SQ8_InnerProductSIMD64_NEON_DOTPROD(dim, CHOOSE_IMPLEMENTATION(dim, 64))
    [] func = "SQ8_SQ8_Cosine" -> SQ8_SQ8_CosineSIMD64_NEON_DOTPROD(dim, CHOOSE_IMPLEMENTATION(dim, 64))
    [] func = "SQ8_SQ8_L2"     -> SQ8_SQ8_L2SqrSIMD64_NEON_DOTPROD(dim, CHOOSE_IMPLEMENTATION(dim, 64))

NEON_HP(func, dim) ==
  CASE func = "FP16_L2" -> FP16_L2Sqr_NEON_HP(dim, CHOOSE_IMPLEMENTATION(dim, 32))
    [] func = "FP16_IP" -> FP16_InnerProduct_NEON_HP(dim, CHOOSE_IMPLEMENTATION(dim, 32))

NEON_BF16(func, dim) ==
  CASE func = "BF16_L2" -> BF16_L2Sqr_NEON(dim, CHOOSE_IMPLEMENTATION(dim, 32))
    [] func = "BF16_IP" -> BF16_InnerProduct_NEON(dim, CHOOSE_IMPLEMENTATION(dim, 32))

(* Elements of one, two, four and eight bytes in a register of vl bytes. *)
svcntb(vl) == vl
svcnth(vl) == vl \div 2
svcntw(vl) == vl \div 4
svcntd(vl) == vl \div 8

SVE(func, dim, vl) ==
  CASE func = "FP32_IP"         -> FP32_InnerProductSIMD_SVE(dim, CHOOSE_SVE_IMPLEMENTATION(dim, svcntw(vl)))
    [] func = "FP32_L2"         -> FP32_L2SqrSIMD_SVE(dim, CHOOSE_SVE_IMPLEMENTATION(dim, svcntw(vl)))
    [] func = "FP16_IP"         -> FP16_InnerProduct_SVE(dim, CHOOSE_SVE_IMPLEMENTATION(dim, svcnth(vl)))
    [] func = "FP16_L2"         -> FP16_L2Sqr_SVE(dim, CHOOSE_SVE_IMPLEMENTATION(dim, svcnth(vl)))
    [] func = "FP64_IP"         -> FP64_InnerProductSIMD_SVE(dim, CHOOSE_SVE_IMPLEMENTATION(dim, svcntd(vl)))
    [] func = "FP64_L2"         -> FP64_L2SqrSIMD_SVE(dim, CHOOSE_SVE_IMPLEMENTATION(dim, svcntd(vl)))
    [] func = "INT8_L2"         -> INT8_L2SqrSIMD_SVE(dim, CHOOSE_SVE_IMPLEMENTATION(dim, svcntb(vl)))
    [] func = "INT8_IP"         -> INT8_InnerProductSIMD_SVE(dim, CHOOSE_SVE_IMPLEMENTATION(dim, svcntb(vl)))
    [] func = "INT8_Cosine"     -> INT8_CosineSIMD_SVE(dim, CHOOSE_SVE_IMPLEMENTATION(dim, svcntb(vl)))
    [] func = "UINT8_L2"        -> UINT8_L2SqrSIMD_SVE(dim, CHOOSE_SVE_IMPLEMENTATION(dim, svcntb(vl)))
    [] func = "UINT8_IP"        -> UINT8_InnerProductSIMD_SVE(dim, CHOOSE_SVE_IMPLEMENTATION(dim, svcntb(vl)))
    [] func = "UINT8_Cosine"    -> UINT8_CosineSIMD_SVE(dim, CHOOSE_SVE_IMPLEMENTATION(dim, svcntb(vl)))
    [] func = "SQ8_FP32_IP"     -> SQ8_FP32_InnerProductSIMD_SVE(dim, CHOOSE_SVE_IMPLEMENTATION(dim, svcntw(vl)))
    [] func = "SQ8_FP32_Cosine" -> SQ8_FP32_CosineSIMD_SVE(dim, CHOOSE_SVE_IMPLEMENTATION(dim, svcntw(vl)))
    [] func = "SQ8_FP32_L2"     -> SQ8_FP32_L2SqrSIMD_SVE(dim, CHOOSE_SVE_IMPLEMENTATION(dim, svcntw(vl)))
    [] func = "SQ8_SQ8_IP"      -> SQ8_SQ8_InnerProductSIMD_SVE(dim, CHOOSE_SVE_IMPLEMENTATION(dim, svcntb(vl)))
    [] func = "SQ8_SQ8_Cosine"  -> SQ8_SQ8_CosineSIMD_SVE(dim, CHOOSE_SVE_IMPLEMENTATION(dim, svcntb(vl)))
    [] func = "SQ8_SQ8_L2"      -> SQ8_SQ8_L2SqrSIMD_SVE(dim, CHOOSE_SVE_IMPLEMENTATION(dim, svcntb(vl)))

\* The same instances of the same templates: the linker keeps one copy of
\* each (SVECopy), and both files hand it out.
SVE2(func, dim, vl) == SVE(func, dim, vl)

SVE_BF16(func, dim, vl) ==
  CASE func = "BF16_IP" -> BF16_InnerProduct_SVE(dim, CHOOSE_SVE_IMPLEMENTATION(dim, svcnth(vl)))
    [] func = "BF16_L2" -> BF16_L2Sqr_SVE(dim, CHOOSE_SVE_IMPLEMENTATION(dim, svcnth(vl)))

=============================================================================
