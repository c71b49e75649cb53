---------------------------- MODULE KernelsX86 ----------------------------
(***************************************************************************)
(* The distance kernels for x86-64, each as a function of the dimension    *)
(* and of residual, the dimension modulo its chunk (the template argument  *)
(* of the source).  All of them load the residual first and then whole     *)
(* chunks; all but the INT8 and UINT8 ones rely on there being at least    *)
(* one whole chunk.                                                        *)
(***************************************************************************)
EXTENDS Kernels

(* FP32: 16 floats a chunk. *)

FP32_InnerProductSIMD16_AVX512(dim, residual) ==
  DoWhile(COMPILE_FLAGS.AVX512F, When(residual > 0, Assigned(Masked(residual))), <<Full(16)>>)

FP32_L2SqrSIMD16_AVX512(dim, residual) ==
  DoWhile(COMPILE_FLAGS.AVX512F, When(residual > 0, Assigned(Masked(residual))), <<Full(16)>>)

FP32_InnerProductSIMD16_AVX(dim, residual) ==
  DoWhile(COMPILE_FLAGS.AVX,
          When(residual % 8 > 0, Assigned(Partial(residual % 8, 8)))
            \o When(residual >= 8, Full(8)),
          Times(2, Full(8)))

\* Mutant: the part of a register comes last and overwrites the sum.
FP32_L2PartLast(dim, residual) ==
  DoWhile(COMPILE_FLAGS.AVX,
          When(residual >= 8, Full(8))
            \o When(residual % 8 > 0, Assigned(Partial(residual % 8, 8))),
          Times(2, Full(8)))

FP32_L2SqrSIMD16_AVX(dim, residual) ==
  DoWhile(COMPILE_FLAGS.AVX,
          When(residual % 8 > 0, Assigned(Partial(residual % 8, 8)))
            \o When(residual >= 8, Full(8)),
          Times(2, Full(8)))

FP32_InnerProductSIMD16_SSE(dim, residual) ==
  DoWhile(COMPILE_FLAGS.SSE,
          When(residual % 4 > 0, Assigned(Masked(residual % 4)))
            \o Times(residual \div 4, Full(4)),
          Times(4, Full(4)))

FP32_L2SqrSIMD16_SSE(dim, residual) ==
  DoWhile(COMPILE_FLAGS.SSE,
          When(residual % 4 = 3, Assigned(Partial(3, 4)))
            \o When(residual % 4 \in {1, 2}, Assigned(Masked(residual % 4)))
            \o Times(residual \div 4, Full(4)),
          Times(4, Full(4)))

(* FP64: 8 doubles a chunk. *)

FP64_InnerProductSIMD8_AVX512(dim, residual) ==
  DoWhile(COMPILE_FLAGS.AVX512F, When(residual > 0, Assigned(Masked(residual))), <<Full(8)>>)

FP64_L2SqrSIMD8_AVX512(dim, residual) ==
  DoWhile(COMPILE_FLAGS.AVX512F, When(residual > 0, Assigned(Masked(residual))), <<Full(8)>>)

FP64_InnerProductSIMD8_AVX(dim, residual) ==
  DoWhile(COMPILE_FLAGS.AVX,
          When(residual % 4 > 0, Assigned(Partial(residual % 4, 4)))
            \o When(residual >= 4, Full(4)),
          Times(2, Full(4)))

FP64_L2SqrSIMD8_AVX(dim, residual) ==
  DoWhile(COMPILE_FLAGS.AVX,
          When(residual % 4 > 0, Assigned(Partial(residual % 4, 4)))
            \o When(residual >= 4, Full(4)),
          Times(2, Full(4)))

FP64_InnerProductSIMD8_SSE(dim, residual) ==
  DoWhile(COMPILE_FLAGS.SSE,
          When(residual % 2 = 1, Assigned(Masked(1))) \o Times(residual \div 2, Full(2)),
          Times(4, Full(2)))

FP64_L2SqrSIMD8_SSE(dim, residual) ==
  DoWhile(COMPILE_FLAGS.SSE,
          When(residual % 2 = 1, Assigned(Masked(1))) \o Times(residual \div 2, Full(2)),
          Times(4, Full(2)))

-----------------------------------------------------------------------------
(* BF16: 32 elements a chunk.                                              *)

BF16_InnerProductSIMD32_AVX512BF16_VL(dim, residual) ==
  DoWhile(COMPILE_FLAGS.AVX512BF16_VL,
          When(residual > 0, Masked(residual)), <<Full(32)>>)

BF16_InnerProductSIMD32_AVX512BW_VBMI2(dim, residual) ==
  DoWhile(COMPILE_FLAGS.AVX512BW_VBMI2,
          When(residual >= 16, Masked(16))
            \o When(residual \notin {0, 16}, Masked(residual % 16)),
          <<Full(32)>>)

BF16_L2SqrSIMD32_AVX512BW_VBMI2(dim, residual) ==
  DoWhile(COMPILE_FLAGS.AVX512BW_VBMI2,
          When(residual >= 16, Masked(16))
            \o When(residual \notin {0, 16}, Masked(residual % 16)),
          <<Full(32)>>)

(* Interleaving with zeros splits 16 elements in a low half, lanes 0-3 and *)
(* 8-11, and a high half, lanes 4-7 and 12-15; the first of each are       *)
(* blended in.                                                             *)
LowHalf(n)  == {i \in (0..3) \cup (8..11) : IF i < 4 THEN i < n ELSE i - 4 < n}
HighHalf(n) == {i \in (4..7) \cup (12..15) : IF i < 8 THEN i - 4 < n ELSE i - 8 < n}

HalvesUsed(r) ==
  CASE r <= 4          -> LowHalf(r)
    [] r > 4 /\ r <= 8  -> LowHalf(4) \cup HighHalf(r - 4)
    [] r > 8 /\ r < 12  -> LowHalf(r - 4) \cup HighHalf(4)
    [] OTHER           -> LowHalf(8) \cup HighHalf(r - 8)

BF16_InnerProductSIMD32_AVX2(dim, residual) ==
  LET r == residual % 16 IN
  DoWhile(COMPILE_FLAGS.AVX2,
          When(r > 0, Load(HalvesUsed(r), 16, 16, r)) \o When(residual >= 16, Full(16)),
          Times(2, Full(16)))

BF16_L2SqrSIMD32_AVX2(dim, residual) ==
  LET r == residual % 16 IN
  DoWhile(COMPILE_FLAGS.AVX2,
          When(r > 0, Load(HalvesUsed(r), 16, 16, r)) \o When(residual >= 16, Full(16)),
          Times(2, Full(16)))

BF16_InnerProductSIMD32_SSE3(dim, residual) ==
  DoWhile(COMPILE_FLAGS.SSE3,
          When(residual % 4 > 0, Masked(residual % 4))
            \o When(residual % 8 >= 4, Partial(4, 8))
            \o Times(residual \div 8, Full(8)),
          Times(4, Full(8)))

BF16_L2SqrSIMD32_SSE3(dim, residual) ==
  DoWhile(COMPILE_FLAGS.SSE3,
          When(residual % 4 > 0, Masked(residual % 4))
            \o When(residual % 8 >= 4, Partial(4, 8))
            \o Times(residual \div 8, Full(8)),
          Times(4, Full(8)))

(* FP16: 32 elements a chunk. *)

FP16_InnerProductSIMD32_AVX512FP16_VL(dim, residual) ==
  DoWhile(COMPILE_FLAGS.AVX512FP16_VL,
          When(residual > 0, Assigned(Partial(residual, 32))), <<Full(32)>>)

FP16_L2SqrSIMD32_AVX512FP16_VL(dim, residual) ==
  DoWhile(COMPILE_FLAGS.AVX512FP16_VL,
          When(residual > 0, Assigned(Partial(residual, 32))), <<Full(32)>>)

FP16_InnerProductSIMD32_AVX512(dim, residual) ==
  DoWhile(COMPILE_FLAGS.AVX512F,
          When(residual % 16 > 0, Assigned(Partial(residual % 16, 16)))
            \o When(residual >= 16, Full(16)),
          Times(2, Full(16)))

FP16_L2SqrSIMD32_AVX512(dim, residual) ==
  DoWhile(COMPILE_FLAGS.AVX512F,
          When(residual % 16 > 0, Assigned(Partial(residual % 16, 16)))
            \o When(residual >= 16, Full(16)),
          Times(2, Full(16)))

FP16_InnerProductSIMD32_F16C(dim, residual) ==
  DoWhile(COMPILE_FLAGS.F16C,
          When(residual % 8 > 0, Assigned(Partial(residual % 8, 8)))
            \o Times(residual \div 8, Full(8)),
          Times(4, Full(8)))

FP16_L2SqrSIMD32_F16C(dim, residual) ==
  DoWhile(COMPILE_FLAGS.F16C,
          When(residual % 8 > 0, Partial(residual % 8, 8))
            \o Times(residual \div 8, Full(8)),
          Times(4, Full(8)))

-----------------------------------------------------------------------------
(* INT8 and UINT8: 64 elements a chunk.                                    *)

INT8_InnerProductImp_AVX512(dim, residual) ==
  While(COMPILE_FLAGS.AVX512F_BW_VL_VNNI,
        When(residual % 32 > 0, Masked(residual % 32)) \o When(residual >= 32, Full(32)),
        Times(2, Full(32)))

INT8_InnerProductSIMD64_AVX512F_BW_VL_VNNI(dim, residual) ==
  INT8_InnerProductImp_AVX512(dim, residual)

INT8_CosineSIMD64_AVX512F_BW_VL_VNNI(dim, residual) ==
  Reading(INT8_InnerProductImp_AVX512(dim, residual), NormBytes, NormBytes)

INT8_L2SqrSIMD64_AVX512F_BW_VL_VNNI(dim, residual) ==
  While(COMPILE_FLAGS.AVX512F_BW_VL_VNNI,
        When(residual % 32 > 0, Partial(residual % 32, 32)) \o When(residual >= 32, Full(32)),
        Times(2, Full(32)))

UINT8_InnerProductImp_AVX512(dim, residual) ==
  IF residual > 0 THEN While(COMPILE_FLAGS.AVX512F_BW_VL_VNNI, <<Masked(residual)>>, <<Full(64)>>)
                  ELSE DoWhile(COMPILE_FLAGS.AVX512F_BW_VL_VNNI, <<>>, <<Full(64)>>)

UINT8_InnerProductSIMD64_AVX512F_BW_VL_VNNI(dim, residual) ==
  UINT8_InnerProductImp_AVX512(dim, residual)

UINT8_CosineSIMD64_AVX512F_BW_VL_VNNI(dim, residual) ==
  Reading(UINT8_InnerProductImp_AVX512(dim, residual), NormBytes, NormBytes)

UINT8_L2SqrSIMD64_AVX512F_BW_VL_VNNI(dim, residual) ==
  IF residual > 0 THEN While(COMPILE_FLAGS.AVX512F_BW_VL_VNNI, <<Masked(residual)>>, <<Full(64)>>)
                  ELSE DoWhile(COMPILE_FLAGS.AVX512F_BW_VL_VNNI, <<>>, <<Full(64)>>)

-----------------------------------------------------------------------------
(* SQ8 against FP32: 16 elements a chunk, metadata behind both.            *)

SQ8_FP32_InnerProductImp_AVX512(dim, residual) ==
  Reading(DoWhile(COMPILE_FLAGS.AVX512F_BW_VL_VNNI,
                  When(residual > 0, Assigned(Load(Lanes(residual), 16, residual, residual))),
                  <<Full(16)>>),
          UpTo(StorageDelta), QuerySum + 1)

SQ8_FP32_InnerProductSIMD16_AVX512F_BW_VL_VNNI(dim, residual) ==
  SQ8_FP32_InnerProductImp_AVX512(dim, residual)

SQ8_FP32_CosineSIMD16_AVX512F_BW_VL_VNNI(dim, residual) ==
  SQ8_FP32_InnerProductImp_AVX512(dim, residual)

SQ8_FP32_L2SqrSIMD16_AVX512F_BW_VL_VNNI(dim, residual) ==
  Reading(SQ8_FP32_InnerProductImp_AVX512(dim, residual),
          UpTo(StorageSquares), QuerySquares + 1)

SQ8_FP32_InnerProductImp_FMA(dim, residual) ==
  Reading(DoWhile(COMPILE_FLAGS.AVX2_FMA,
                  When(residual % 8 > 0, Assigned(Partial(residual % 8, 8)))
                    \o When(residual >= 8, Full(8)),
                  Times(2, Full(8))),
          UpTo(StorageDelta), QuerySum + 1)

SQ8_FP32_InnerProductSIMD16_AVX2_FMA(dim, residual) ==
  SQ8_FP32_InnerProductImp_FMA(dim, residual)

SQ8_FP32_CosineSIMD16_AVX2_FMA(dim, residual) ==
  SQ8_FP32_InnerProductImp_FMA(dim, residual)

SQ8_FP32_L2SqrSIMD16_AVX2_FMA(dim, residual) ==
  Reading(SQ8_FP32_InnerProductImp_FMA(dim, residual),
          UpTo(StorageSquares), QuerySquares + 1)

SQ8_FP32_InnerProductImp_AVX2(dim, residual) ==
  Reading(DoWhile(COMPILE_FLAGS.AVX2,
                  When(residual % 8 > 0, Assigned(Partial(residual % 8, 8)))
                    \o When(residual >= 8, Full(8)),
                  Times(2, Full(8))),
          UpTo(StorageDelta), QuerySum + 1)

SQ8_FP32_InnerProductSIMD16_AVX2(dim, residual) ==
  SQ8_FP32_InnerProductImp_AVX2(dim, residual)

SQ8_FP32_CosineSIMD16_AVX2(dim, residual) ==
  SQ8_FP32_InnerProductImp_AVX2(dim, residual)

SQ8_FP32_L2SqrSIMD16_AVX2(dim, residual) ==
  Reading(SQ8_FP32_InnerProductImp_AVX2(dim, residual),
          UpTo(StorageSquares), QuerySquares + 1)

SQ8_FP32_InnerProductSIMD16_SSE4_IMP(dim, residual) ==
  Reading(DoWhile(COMPILE_FLAGS.SSE4,
                  When(residual % 4 > 0, Assigned(Masked(residual % 4)))
                    \o Times(residual \div 4, Full(4)),
                  <<Full(4)>>),
          UpTo(StorageDelta), QuerySum + 1)

SQ8_FP32_InnerProductSIMD16_SSE4(dim, residual) ==
  SQ8_FP32_InnerProductSIMD16_SSE4_IMP(dim, residual)

SQ8_FP32_CosineSIMD16_SSE4(dim, residual) ==
  SQ8_FP32_InnerProductSIMD16_SSE4_IMP(dim, residual)

SQ8_FP32_L2SqrSIMD16_SSE4(dim, residual) ==
  Reading(SQ8_FP32_InnerProductSIMD16_SSE4_IMP(dim, residual),
          UpTo(StorageSquares), QuerySquares + 1)

(* SQ8 against SQ8. *)

SQ8_SQ8_InnerProductImp(dim, residual) ==
  Reading(UINT8_InnerProductImp_AVX512(dim, residual),
          UpTo(StorageSum), UpTo(StorageSum))

SQ8_SQ8_InnerProductSIMD64_AVX512F_BW_VL_VNNI(dim, residual) ==
  SQ8_SQ8_InnerProductImp(dim, residual)

SQ8_SQ8_CosineSIMD64_AVX512F_BW_VL_VNNI(dim, residual) ==
  SQ8_SQ8_InnerProductImp(dim, residual)

SQ8_SQ8_L2SqrSIMD64_AVX512F_BW_VL_VNNI(dim, residual) ==
  Reading(SQ8_SQ8_InnerProductImp(dim, residual),
          UpTo(StorageSquares), UpTo(StorageSquares))

=============================================================================
