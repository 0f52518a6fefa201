----------------------------- MODULE MCPoolRuntime -----------------------------
(***************************************************************************)
(* Values of the constants of PoolRuntime for TLC.                         *)
(***************************************************************************)
EXTENDS PoolRuntime

\* Nothing, small sizes, and the sizes around the largest that can be had.
SomeSizes == {0, 1, 3, MaxSize - 5, MaxSize - 2, MaxSize}

\* Powers of two, up to the largest there is, and one that is none.
SomeAlignments == {1, 2, 3, 4, (MaxSize + 1) \div 2}

SmallHeap == 1 .. 12

=============================================================================
