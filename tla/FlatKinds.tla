------------------------------ MODULE FlatKinds ------------------------------
(***************************************************************************)
(* The flat index with its kind as a variable, so that one run of a module *)
(* built on it checks single- and multi-value indexes.                     *)
(***************************************************************************)
EXTENDS Naturals, Sequences, SequencesExt

CONSTANT Labels

VARIABLE multi  \* isMultiValue(), set when the index is created

INSTANCE FlatIndex WITH IsMulti <- multi

=============================================================================
