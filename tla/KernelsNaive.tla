--------------------------- MODULE KernelsNaive ---------------------------
(***************************************************************************)
(* The distance functions without optimization, spaces/IP/IP.cpp and       *)
(* spaces/L2/L2.cpp: one coordinate in each turn of their loop, on any CPU *)
(* and for any dimension.                                                  *)
(***************************************************************************)
EXTENDS Kernels

Plain(dim) == For({}, <<>>, dim, <<Full(1)>>, <<>>)

FP32_InnerProduct(dim) == Plain(dim)
FP64_InnerProduct(dim) == Plain(dim)
BF16_InnerProduct(dim) == Plain(dim)
FP16_InnerProduct(dim) == Plain(dim)
INT8_InnerProduct(dim) == Plain(dim)
UINT8_InnerProduct(dim) == Plain(dim)

INT8_Cosine(dim) == Reading(Plain(dim), NormBytes, NormBytes)
UINT8_Cosine(dim) == Reading(Plain(dim), NormBytes, NormBytes)

FP32_L2Sqr(dim) == Plain(dim)
FP64_L2Sqr(dim) == Plain(dim)
BF16_L2Sqr(dim) == Plain(dim)
FP16_L2Sqr(dim) == Plain(dim)
INT8_L2Sqr(dim) == Plain(dim)
UINT8_L2Sqr(dim) == Plain(dim)

(* SQ8: four coordinates in each turn, the remainder one by one. *)
SQ8_FP32_InnerProduct_Impl(dim) ==
  Reading(For({}, <<>>, dim \div 4, Times(4, Full(1)), Times(dim % 4, Full(1))),
          UpTo(StorageDelta), QuerySum + 1)

SQ8_FP32_InnerProduct(dim) == SQ8_FP32_InnerProduct_Impl(dim)
SQ8_FP32_Cosine(dim)       == SQ8_FP32_InnerProduct(dim)

SQ8_FP32_L2Sqr(dim) ==
  Reading(SQ8_FP32_InnerProduct_Impl(dim), UpTo(StorageSquares), QuerySquares + 1)

SQ8_SQ8_InnerProduct_Impl(dim) == Reading(Plain(dim), UpTo(StorageSum), UpTo(StorageSum))

SQ8_SQ8_InnerProduct(dim) == SQ8_SQ8_InnerProduct_Impl(dim)
SQ8_SQ8_Cosine(dim)       == SQ8_SQ8_InnerProduct(dim)

SQ8_SQ8_L2Sqr(dim) ==
  Reading(SQ8_SQ8_InnerProduct_Impl(dim), UpTo(StorageSquares), UpTo(StorageSquares))

=============================================================================
