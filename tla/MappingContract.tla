---------------------------- MODULE MappingContract ----------------------------
(***************************************************************************)
(* What PhysicalMemoryMapping promises its users, who move mappings from   *)
(* object to object and never unmap one themselves: every mapping that     *)
(* MmMapIoSpaceEx has made is held by one object, goes where that object   *)
(* is moved to, and ends when its object is destroyed or assigned to.      *)
(***************************************************************************)
CONSTANTS
  Slots,     \* places an object can be constructed in
  Handles    \* what MmMapIoSpaceEx can return, except nullptr

VARIABLES
  present,   \* slots in which there is an object
  holders    \* mapping that exists -> the objects that hold it: always one

contractVars == <<present, holders>>

Init ==
  /\ present = {}
  /\ holders = [h \in {} |-> {}]

HeldBy(s) == {h \in DOMAIN holders : s \in holders[h]}

\* An object with a new mapping.
Acquire(s) ==
  /\ s \notin present
  /\ present' = present \cup {s}
  /\ \E h \in Handles \ DOMAIN holders :
       holders' = [g \in DOMAIN holders \cup {h} |-> IF g = h THEN {s} ELSE holders[g]]

\* One object is moved into another, new or not: what that one had ends.
Move(from, to) ==
  /\ from \in present
  /\ from # to
  /\ present' = present \cup {to}
  /\ holders' = [h \in DOMAIN holders \ HeldBy(to) |->
                   IF h \in HeldBy(from) THEN {to} ELSE holders[h]]

\* An object is destroyed.
Release(s) ==
  /\ s \in present
  /\ present' = present \ {s}
  /\ holders' = [h \in DOMAIN holders \ HeldBy(s) |-> holders[h]]

Next ==
  \/ \E s \in Slots : Acquire(s) \/ Release(s)
  \/ \E from, to \in Slots : Move(from, to)

Spec == Init /\ [][Next]_contractVars

=============================================================================
