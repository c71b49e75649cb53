---------------------------- MODULE KernelsARM ----------------------------
(***************************************************************************)
(* The distance kernels for AArch64.  The NEON ones are functions of the   *)
(* dimension and of residual, the dimension modulo the chunk; the SVE ones *)
(* of the dimension and of the instance t of their template.               *)
(***************************************************************************)
EXTENDS Kernels

(* What the compiler and the linker make of the source. *)
CONSTANTS
  SharedCopy,
    \* TRUE: of the functions NEON.cpp and NEON_DOTPROD.cpp both instantiate
    \* under one name, the program has one copy, the one of NEON_DOTPROD.cpp;
    \* FALSE: either file uses its own (they are inlined)
  SVECopy,
    \* the file, SVE or SVE2, whose copy of the kernels is the one the program
    \* has: both files instantiate them all and take their addresses
  FP16FML
    \* TRUE: the compiler puts instructions of FP16FML, which its flags allow
    \* and no kernel is written with, in NEON_HP.cpp

ASSUME KernelsARMAssumption ==
  SharedCopy \in BOOLEAN /\ SVECopy \in {"SVE", "SVE2"} /\ FP16FML \in BOOLEAN

\* The build in which a kernel has no instructions but those asked for it.
NoForeignInstructions == ~SharedCopy /\ SVECopy = "SVE" /\ ~FP16FML

HPFlags == COMPILE_FLAGS.NEON_HP \ (IF FP16FML THEN {} ELSE {"asimdfhm"})

\* Of the copy of an SVE kernel that was linked, for either file.
SVEFlags == IF SVECopy = "SVE2" THEN COMPILE_FLAGS.SVE2 ELSE COMPILE_FLAGS.SVE

\* Of a kernel of the file own that calls a function both NEON files define.
SharedFlags(own) == own \cup (IF SharedCopy THEN COMPILE_FLAGS.NEON_DOTPROD ELSE {})

(* NEON, FP32 and FP64. *)

FP32_InnerProductSIMD16_NEON(dim, residual) ==
  For(COMPILE_FLAGS.NEON, <<>>, dim \div 16, Times(4, Full(4)),
      Times(residual \div 4, Full(4)) \o When(residual % 4 > 0, Masked(residual % 4)))

FP32_L2SqrSIMD16_NEON(dim, residual) ==
  For(COMPILE_FLAGS.NEON, <<>>, dim \div 16, Times(4, Full(4)),
      Times(residual \div 4, Full(4)) \o When(residual % 4 > 0, Masked(residual % 4)))

FP64_InnerProductSIMD8_NEON(dim, residual) ==
  For(COMPILE_FLAGS.NEON, <<>>, dim \div 8, Times(4, Full(2)),
      Times(residual \div 2, Full(2)) \o When(residual % 2 = 1, Masked(1)))

FP64_L2SqrSIMD8_NEON(dim, residual) ==
  For(COMPILE_FLAGS.NEON, <<>>, dim \div 8, Times(4, Full(2)),
      Times(residual \div 2, Full(2)) \o When(residual % 2 = 1, Masked(1)))

(* NEON, FP16 and BF16: 32 elements a chunk. *)

FP16_InnerProduct_NEON_HP(dim, residual) ==
  While(HPFlags,
        When(residual % 8 > 0, Partial(residual % 8, 8)) \o Times(residual \div 8, Full(8)),
        Times(4, Full(8)))

FP16_L2Sqr_NEON_HP(dim, residual) ==
  While(HPFlags,
        When(residual % 8 > 0, Partial(residual % 8, 8)) \o Times(residual \div 8, Full(8)),
        Times(4, Full(8)))

BF16_InnerProduct_NEON(dim, residual) ==
  While(COMPILE_FLAGS.NEON_BF16,
        When(residual % 8 > 0, Partial(residual % 8, 8)) \o Times(residual \div 8, Full(8)),
        Times(4, Full(8)))

BF16_L2Sqr_NEON(dim, residual) ==
  While(COMPILE_FLAGS.NEON_BF16,
        When(residual % 8 > 0, Partial(residual % 8, 8)) \o Times(residual \div 8, Full(8)),
        Times(4, Full(8)))

-----------------------------------------------------------------------------
(* NEON, INT8 and UINT8: 64 elements a chunk.                              *)

INT8_InnerProductImp_NEON(dim, residual) ==
  For(SharedFlags(COMPILE_FLAGS.NEON),
      When(residual % 16 > 0, Partial(residual % 16, 16)),
      dim \div 64, Times(4, Full(16)), Times(residual \div 16, Full(16)))

INT8_InnerProductSIMD16_NEON(dim, residual) == INT8_InnerProductImp_NEON(dim, residual)

INT8_CosineSIMD_NEON(dim, residual) ==
  Reading(INT8_InnerProductImp_NEON(dim, residual), NormBytes, NormBytes)

INT8_L2SqrSIMD16_NEON(dim, residual) ==
  For(COMPILE_FLAGS.NEON, When(residual % 16 > 0, Partial(residual % 16, 16)),
      dim \div 64, Times(2, Full(32)),
      Times(residual \div 32, Full(32)) \o When((residual % 32) \div 16 >= 1, Full(16)))

UINT8_InnerProductImp_NEON(dim, residual) ==
  For(SharedFlags(COMPILE_FLAGS.NEON),
      When(residual % 16 > 0, Partial(residual % 16, 16)),
      dim \div 64, Times(4, Full(16)), Times(residual \div 16, Full(16)))

UINT8_InnerProductSIMD16_NEON(dim, residual) == UINT8_InnerProductImp_NEON(dim, residual)

UINT8_CosineSIMD_NEON(dim, residual) ==
  Reading(UINT8_InnerProductImp_NEON(dim, residual), NormBytes, NormBytes)

UINT8_L2SqrSIMD16_NEON(dim, residual) ==
  For(COMPILE_FLAGS.NEON, When(residual % 16 > 0, Partial(residual % 16, 16)),
      dim \div 64, Times(2, Full(32)),
      Times(residual \div 32, Full(32)) \o When((residual % 32) \div 16 >= 1, Full(16)))

INT8_InnerProductImp_DOTPROD(dim, residual) ==
  For(SharedFlags(COMPILE_FLAGS.NEON_DOTPROD),
      When(residual % 16 > 0, Partial(residual % 16, 16)),
      dim \div 64, Times(4, Full(16)), Times(residual \div 16, Full(16)))

INT8_InnerProductSIMD16_NEON_DOTPROD(dim, residual) ==
  INT8_InnerProductImp_DOTPROD(dim, residual)

INT8_CosineSIMD_NEON_DOTPROD(dim, residual) ==
  Reading(INT8_InnerProductImp_DOTPROD(dim, residual), NormBytes, NormBytes)

INT8_L2SqrSIMD16_NEON_DOTPROD(dim, residual) ==
  For(COMPILE_FLAGS.NEON_DOTPROD, When(residual % 16 > 0, Partial(residual % 16, 16)),
      dim \div 64, Times(2, Full(32)),
      Times(residual \div 32, Full(32)) \o When((residual % 32) \div 16 >= 1, Full(16)))

UINT8_InnerProductImp_DOTPROD(dim, residual) ==
  For(SharedFlags(COMPILE_FLAGS.NEON_DOTPROD),
      When(residual % 16 > 0, Partial(residual % 16, 16)),
      dim \div 64, Times(4, Full(16)), Times(residual \div 16, Full(16)))

UINT8_InnerProductSIMD16_NEON_DOTPROD(dim, residual) ==
  UINT8_InnerProductImp_DOTPROD(dim, residual)

UINT8_CosineSIMD_NEON_DOTPROD(dim, residual) ==
  Reading(UINT8_InnerProductImp_DOTPROD(dim, residual), NormBytes, NormBytes)

UINT8_L2SqrSIMD16_NEON_DOTPROD(dim, residual) ==
  For(COMPILE_FLAGS.NEON_DOTPROD, When(residual % 16 > 0, Partial(residual % 16, 16)),
      dim \div 64, Times(2, Full(32)),
      Times(residual \div 32, Full(32)) \o When((residual % 32) \div 16 >= 1, Full(16)))

-----------------------------------------------------------------------------
(* NEON, SQ8.                                                              *)

\* Four coordinates are used of the eight bytes loaded.
InnerProductStepSQ8_FP32_NEON == Load(Lanes(4), 8, 4, 4)

SQ8_FP32_InnerProductSIMD16_NEON_IMP(dim, residual) ==
  Reading(For(COMPILE_FLAGS.NEON, <<>>, dim \div 16, Times(4, InnerProductStepSQ8_FP32_NEON),
              Times(residual \div 4, InnerProductStepSQ8_FP32_NEON)
                \o When(residual % 4 > 0, Masked(residual % 4))),
          UpTo(StorageDelta), QuerySum + 1)

SQ8_FP32_InnerProductSIMD16_NEON(dim, residual) ==
  SQ8_FP32_InnerProductSIMD16_NEON_IMP(dim, residual)

SQ8_FP32_CosineSIMD16_NEON(dim, residual) ==
  SQ8_FP32_InnerProductSIMD16_NEON_IMP(dim, residual)

SQ8_FP32_L2SqrSIMD16_NEON(dim, residual) ==
  Reading(SQ8_FP32_InnerProductSIMD16_NEON_IMP(dim, residual),
          UpTo(StorageSquares), QuerySquares + 1)

SQ8_SQ8_InnerProductSIMD64_NEON_IMP(dim, residual) ==
  Reading(UINT8_InnerProductImp_NEON(dim, residual), UpTo(StorageSum), UpTo(StorageSum))

SQ8_SQ8_InnerProductSIMD64_NEON(dim, residual) ==
  SQ8_SQ8_InnerProductSIMD64_NEON_IMP(dim, residual)

SQ8_SQ8_CosineSIMD64_NEON(dim, residual) ==
  SQ8_SQ8_InnerProductSIMD64_NEON_IMP(dim, residual)

SQ8_SQ8_L2SqrSIMD64_NEON(dim, residual) ==
  Reading(SQ8_SQ8_InnerProductSIMD64_NEON_IMP(dim, residual),
          UpTo(StorageSquares), UpTo(StorageSquares))

SQ8_SQ8_InnerProductSIMD64_NEON_DOTPROD_IMP(dim, residual) ==
  Reading(UINT8_InnerProductImp_DOTPROD(dim, residual), UpTo(StorageSum), UpTo(StorageSum))

SQ8_SQ8_InnerProductSIMD64_NEON_DOTPROD(dim, residual) ==
  SQ8_SQ8_InnerProductSIMD64_NEON_DOTPROD_IMP(dim, residual)

SQ8_SQ8_CosineSIMD64_NEON_DOTPROD(dim, residual) ==
  SQ8_SQ8_InnerProductSIMD64_NEON_DOTPROD_IMP(dim, residual)

SQ8_SQ8_L2SqrSIMD64_NEON_DOTPROD(dim, residual) ==
  Reading(SQ8_SQ8_InnerProductSIMD64_NEON_DOTPROD_IMP(dim, residual),
          UpTo(StorageSquares), UpTo(StorageSquares))

-----------------------------------------------------------------------------
(* SVE.  The last load is under svwhilelt(offset, dimension): as many      *)
(* lanes as there are coordinates left, and no more than the register has. *)
(* An instance t of a template names the elements in a register (chunk),   *)
(* whether some coordinates fill none, and the steps behind the loop.      *)
SVEKernel(isa, dim, t) ==
  LET iterations == dim \div (4 * t.chunk)
      offset     == (4 * iterations + t.additional) * t.chunk
      left       == dim - offset
  IN  For(isa, <<>>, iterations, Times(4, Full(t.chunk)),
          Times(t.additional, Full(t.chunk))
            \o When(t.partial, Masked(IF left < t.chunk THEN left ELSE t.chunk)))

FP32_InnerProductSIMD_SVE(dim, t) ==
  SVEKernel(SVEFlags, dim, t)

FP32_L2SqrSIMD_SVE(dim, t) ==
  SVEKernel(SVEFlags, dim, t)

FP64_InnerProductSIMD_SVE(dim, t) ==
  SVEKernel(SVEFlags, dim, t)

FP64_L2SqrSIMD_SVE(dim, t) ==
  SVEKernel(SVEFlags, dim, t)

FP16_InnerProduct_SVE(dim, t) ==
  SVEKernel(SVEFlags, dim, t)

FP16_L2Sqr_SVE(dim, t) ==
  SVEKernel(SVEFlags, dim, t)

BF16_InnerProduct_SVE(dim, t) ==
  SVEKernel(COMPILE_FLAGS.SVE_BF16, dim, t)

BF16_L2Sqr_SVE(dim, t) ==
  SVEKernel(COMPILE_FLAGS.SVE_BF16, dim, t)

INT8_InnerProductImp_SVE(dim, t) ==
  SVEKernel(SVEFlags, dim, t)

INT8_InnerProductSIMD_SVE(dim, t) ==
  INT8_InnerProductImp_SVE(dim, t)

INT8_CosineSIMD_SVE(dim, t) ==
  Reading(INT8_InnerProductImp_SVE(dim, t), NormBytes, NormBytes)

INT8_L2SqrSIMD_SVE(dim, t) ==
  SVEKernel(SVEFlags, dim, t)

UINT8_InnerProductImp_SVE(dim, t) ==
  SVEKernel(SVEFlags, dim, t)

UINT8_InnerProductSIMD_SVE(dim, t) ==
  UINT8_InnerProductImp_SVE(dim, t)

UINT8_CosineSIMD_SVE(dim, t) ==
  Reading(UINT8_InnerProductImp_SVE(dim, t), NormBytes, NormBytes)

UINT8_L2SqrSIMD_SVE(dim, t) ==
  SVEKernel(SVEFlags, dim, t)

(* SVE, SQ8 against FP32: the coordinates that fill no register come first. *)
SQ8_FP32_InnerProductSIMD_SVE_IMP(dim, t) ==
  LET remaining == IF t.partial THEN dim % t.chunk ELSE 0 IN
  Reading(For(SVEFlags, When(remaining > 0, Assigned(Masked(remaining))),
              (dim - remaining) \div (4 * t.chunk), Times(4, Full(t.chunk)),
              Times(t.additional, Full(t.chunk))),
          UpTo(StorageDelta), QuerySum + 1)

SQ8_FP32_InnerProductSIMD_SVE(dim, t) ==
  SQ8_FP32_InnerProductSIMD_SVE_IMP(dim, t)

SQ8_FP32_CosineSIMD_SVE(dim, t) ==
  SQ8_FP32_InnerProductSIMD_SVE_IMP(dim, t)

SQ8_FP32_L2SqrSIMD_SVE(dim, t) ==
  Reading(SQ8_FP32_InnerProductSIMD_SVE_IMP(dim, t), UpTo(StorageSquares), QuerySquares + 1)

SQ8_SQ8_InnerProductSIMD_SVE_IMP(dim, t) ==
  Reading(UINT8_InnerProductImp_SVE(dim, t), UpTo(StorageSum), UpTo(StorageSum))

SQ8_SQ8_InnerProductSIMD_SVE(dim, t) ==
  SQ8_SQ8_InnerProductSIMD_SVE_IMP(dim, t)

SQ8_SQ8_CosineSIMD_SVE(dim, t) ==
  SQ8_SQ8_InnerProductSIMD_SVE_IMP(dim, t)

SQ8_SQ8_L2SqrSIMD_SVE(dim, t) ==
  Reading(SQ8_SQ8_InnerProductSIMD_SVE_IMP(dim, t), UpTo(StorageSquares), UpTo(StorageSquares))

=============================================================================
