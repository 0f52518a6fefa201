------------------------ MODULE MCPhysicalMemoryReader ------------------------
(***************************************************************************)
(* Values of the constants of PhysicalMemoryReader for TLC.                *)
(***************************************************************************)
EXTENDS PhysicalMemoryReader, TLC

\* Every assignment of sure ways of reading to the pages.
AllLayouts == [Pages -> SUBSET {"copy", "map"}]

\* Every read that starts in the address space, of every size up to one more
\* byte than the address space holds.
AllRequests == [src : Address, len : 0 .. MaxAddress + 2]

\* A read of the whole space, and one that starts inside a page.
TwoRequests == {[src |-> 0, len |-> MaxAddress + 1], [src |-> 1, len |-> PageSize]}

\* Pages that only mapping reads for sure, and one no method does.
ContendedLayouts ==
  {[p \in Pages |-> IF p = 0 THEN {} ELSE {"map"}], [p \in Pages |-> {"map"}]}

\* No thread and no resetter is told from another by what is checked.
Interchangeable == Permutations(Threads) \cup Permutations(Resetters)

=============================================================================
