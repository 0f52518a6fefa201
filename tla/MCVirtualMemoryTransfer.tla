------------------------ MODULE MCVirtualMemoryTransfer ------------------------
(***************************************************************************)
(* Values of the constants of VirtualMemoryTransfer for TLC.               *)
(***************************************************************************)
EXTENDS VirtualMemoryTransfer

Absent == [present |-> FALSE, large |-> FALSE, writable |-> FALSE, base |-> 0]

Page(b, w) == [present |-> TRUE, large |-> FALSE, writable |-> w, base |-> b]
Large(b, w) == [present |-> TRUE, large |-> TRUE, writable |-> w, base |-> b]

\* Pages at 0, 2 and 4, the upper two of them one large page in some spaces; a
\* page that may not be written, one that is absent; and the last of the space.
\* Neighbours are mapped out of order, and two pages to one place.
Ordinary ==
  [p \in Pages |->
     CASE p = 0  -> Page(6, TRUE)
       [] p = 2  -> Page(10, FALSE)
       [] p = 4  -> Page(2, TRUE)
       [] p = 6  -> Page(10, TRUE)
       [] p = 12 -> Page(6, TRUE)
       [] p = 14 -> Page(14, TRUE)
       [] OTHER  -> Absent]

SomeSpaces ==
  { Ordinary,
    [Ordinary EXCEPT ![0] = Page(8, TRUE)],
    [Ordinary EXCEPT ![2] = Page(12, TRUE)],
    [Ordinary EXCEPT ![4] = Absent],
    [Ordinary EXCEPT ![4] = Large(8, TRUE), ![6] = Large(8, TRUE)],
    [Ordinary EXCEPT ![0] = Large(4, TRUE), ![2] = Large(4, TRUE), ![14] = Page(0, FALSE)] }

LowAndHigh == 0 .. 7 \cup 12 .. 15

AllRequests == [kind : {"read", "write"}, at : Address, len : {0, 1, 3, 6}]

\* Everything is sure to be transferred, or a page is not.
SomeSolid == {Pages, Pages \ {10}, Pages \ {6, 8}}

=============================================================================
