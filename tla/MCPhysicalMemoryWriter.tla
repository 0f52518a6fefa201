------------------------ MODULE MCPhysicalMemoryWriter ------------------------
(***************************************************************************)
(* Values of the constants of PhysicalMemoryWriter for TLC.                *)
(***************************************************************************)
EXTENDS PhysicalMemoryWriter

\* Every write that starts in the address space, of every size up to one more
\* byte than the address space holds.
AllRequests == [dst : Address, len : 0 .. MaxAddress + 2]

AllMappables == SUBSET Pages

\* Writes that overlap: of two pages and a half, and of the end of one page
\* and the start of the next.
OverlappingRequests == {[dst |-> 1, len |-> PageSize * 2], [dst |-> PageSize - 1, len |-> PageSize]}

\* No page is sure to be mapped, or every page but one.
ContendedMappables == {{}, Pages \ {PageSize}}

=============================================================================
