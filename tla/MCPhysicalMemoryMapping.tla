------------------------ MODULE MCPhysicalMemoryMapping ------------------------
(***************************************************************************)
(* Values of the constants of PhysicalMemoryMapping for TLC.               *)
(***************************************************************************)
EXTENDS PhysicalMemoryMapping

\* Two regions that start at one address, and one elsewhere.
SomeRegions ==
  {[base |-> 0, size |-> 1], [base |-> 0, size |-> 2], [base |-> 4, size |-> 2]}

=============================================================================
