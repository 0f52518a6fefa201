------------------------- MODULE PhysicalMemoryMapping -------------------------
(***************************************************************************)
(* Memory::Physical::PhysicalMemoryMapping: a C++ object that holds a      *)
(* mapping made by MmMapIoSpaceEx, can be moved but not copied, and unmaps *)
(* what it holds when it is destroyed or another object is moved into it.  *)
(* Slots are the places where callers construct such objects: locals, an   *)
(* std::expected, a member.  What the kernel has mapped is kept apart from *)
(* what the objects say, since MmUnmapIoSpace believes its arguments.      *)
(***************************************************************************)
EXTENDS Integers, Functions

CONSTANTS
  Slots,      \* places an object can be constructed in
  Handles,    \* what MmMapIoSpaceEx can return, except nullptr
  Regions,    \* the regions mapped: [base : Nat, size : Nat]
  Nullptr

Protections == {"ReadOnly", "ReadWrite"}

ASSUME MappingAssumption ==
  /\ Nullptr \notin Handles
  /\ Regions \subseteq [base : Nat, size : Nat \ {0}]

VARIABLES
  object,    \* slot -> Mapping_, Region_ and Protection_ of the object there
  kernel,    \* mapping that exists -> region and flags it was made with
  misused    \* MmUnmapIoSpace was given what was not mapped, or not its size

vars == <<object, kernel, misused>>

NoObject == [mapping |-> Nullptr, region |-> [base |-> 0, size |-> 0],
             protection |-> "None"]

(* The slots in which there is an object, moved from or not. *)
Alive == {s \in Slots : object[s] # NoObject}

ToProtectionFlags(protection) ==
  IF protection = "ReadOnly" THEN "PAGE_READONLY" ELSE "PAGE_READWRITE"

-----------------------------------------------------------------------------

Init ==
  /\ object = [s \in Slots |-> NoObject]
  /\ kernel = [h \in {} |-> {}]
  /\ misused = FALSE

(* Map constructs an object, if MmMapIoSpaceEx makes the mapping; if not,  *)
(* its error constructs none.                                              *)
Map(s, region, protection) ==
  /\ s \notin Alive
  /\ \E h \in Handles \ DOMAIN kernel :
       /\ object' = [object EXCEPT ![s] =
                       [mapping |-> h, region |-> region, protection |-> protection]]
       /\ kernel' = [g \in DOMAIN kernel \cup {h} |->
                       IF g = h
                       THEN [region |-> region, flags |-> ToProtectionFlags(protection)]
                       ELSE kernel[g]]
  /\ UNCHANGED misused

(* Mutant: the source of a move keeps its mapping. *)
MovedFromKept(o) == o

(* Mutant: the source of a move is left without a region as well. *)
MovedFromEmptied(o) == [o EXCEPT !.mapping = Nullptr, !.region = NoObject.region]

(* What a move leaves of its source: std::exchange(Other.Mapping_, nullptr) *)
MovedFrom(o) == [o EXCEPT !.mapping = Nullptr]

(* PhysicalMemoryMapping(PhysicalMemoryMapping&&) *)
MoveConstruct(from, to) ==
  /\ from \in Alive /\ to \notin Alive
  /\ object' = [object EXCEPT ![to] = object[from], ![from] = MovedFrom(@)]
  /\ UNCHANGED <<kernel, misused>>

(* Mutant: an object assigned to forgets the mapping it has. *)
ResetForgets(o) == UNCHANGED <<kernel, misused>>

(* Mutant: a moved-from object is unmapped like any other. *)
ResetAlways(o) ==
  /\ kernel' = Restrict(kernel, DOMAIN kernel \ {o.mapping})
  /\ misused' = (misused \/ o.mapping \notin DOMAIN kernel)

(* Reset(): MmUnmapIoSpace of the object's mapping, if it has one.         *)
Reset(o) ==
  IF o.mapping = Nullptr THEN UNCHANGED <<kernel, misused>>
  ELSE /\ kernel' = Restrict(kernel, DOMAIN kernel \ {o.mapping})
       /\ misused' = (misused \/ o.mapping \notin DOMAIN kernel
                              \/ kernel[o.mapping].region.size # o.region.size)

(* Mutant: the region and the protection stay those of the target.         *)
AssignedMappingOnly(target, source) == [target EXCEPT !.mapping = source.mapping]

(* What an assignment makes of its target. *)
Assigned(target, source) ==
  [mapping |-> source.mapping, region |-> source.region,
   protection |-> source.protection]

(* Mutant: no test for an object assigned to itself. *)
MoveAssignUnguarded(from, to) ==
  /\ from \in Alive /\ to \in Alive
  /\ Reset(object[to])
  /\ object' = IF from = to THEN [object EXCEPT ![to] = MovedFrom(@)]
               ELSE [object EXCEPT ![to] = Assigned(@, object[from]), ![from] = MovedFrom(@)]

(* operator=(PhysicalMemoryMapping&&) *)
MoveAssign(from, to) ==
  /\ from \in Alive /\ to \in Alive
  /\ IF from = to
     THEN UNCHANGED vars
     ELSE /\ Reset(object[to])
          /\ object' = [object EXCEPT ![to] = Assigned(@, object[from]),
                                      ![from] = MovedFrom(@)]

(* ~PhysicalMemoryMapping() *)
Destroy(s) ==
  /\ s \in Alive
  /\ Reset(object[s])
  /\ object' = [object EXCEPT ![s] = NoObject]

Next ==
  \/ \E s \in Slots :
       \/ \E region \in Regions : \E protection \in Protections :
            Map(s, region, protection)
       \/ Destroy(s)
  \/ \E from, to \in Slots : MoveConstruct(from, to) \/ MoveAssign(from, to)

Spec == Init /\ [][Next]_vars

-----------------------------------------------------------------------------

(* View(): the bytes that may be written through an object, or why none.   *)
View(o) ==
  IF o.mapping = Nullptr THEN [code |-> "MappingFailed", fault |-> o.region.base]
  ELSE IF o.protection # "ReadWrite" THEN [code |-> "AccessDenied", fault |-> o.region.base]
  ELSE [code |-> "Success", at |-> o.region.base, bytes |-> o.mapping, size |-> o.region.size]

(* Bytes(): the bytes that may be read through an object.                  *)
Bytes(o) ==
  [bytes |-> o.mapping, size |-> IF o.mapping = Nullptr THEN 0 ELSE o.region.size]

TypeOK ==
  /\ object \in [Slots -> {NoObject} \cup
                  [mapping : Handles \cup {Nullptr}, region : Regions,
                   protection : Protections]]
  /\ DOMAIN kernel \subseteq Handles
  /\ \A h \in DOMAIN kernel :
       kernel[h] \in [region : Regions, flags : {"PAGE_READONLY", "PAGE_READWRITE"}]
  /\ misused \in BOOLEAN

(* Every mapping that exists is held by exactly one object, and what an    *)
(* object holds exists: no sequence of constructions, moves, assignments   *)
(* and destructions leaks a mapping or leaves two objects with one.        *)
HeldOnce ==
  /\ \A h \in DOMAIN kernel :
       \E s \in Slots : \A q \in Slots : object[q].mapping = h <=> q = s
  /\ \A s \in Slots : object[s].mapping \in DOMAIN kernel \cup {Nullptr}

(* The memory manager is never asked to unmap what is not mapped, and      *)
(* always given the size of the mapping, though the object that unmaps it  *)
(* is seldom the one that made it.                                         *)
UnmapsWhatIsMapped == ~misused

(* Whichever object a mapping has ended up in offers the bytes that are    *)
(* mapped and no other, and offers them for writing only if they may be    *)
(* written; an object moved from offers none.                              *)
ViewsAreBacked ==
  \A s \in Alive :
    LET view == View(object[s])
        bytes == Bytes(object[s])
    IN /\ bytes.size # 0 =>
            /\ bytes.bytes \in DOMAIN kernel
            /\ kernel[bytes.bytes].region.size = bytes.size
       /\ view.code = "Success" =>
            /\ view.bytes = bytes.bytes /\ view.size = bytes.size
            /\ kernel[view.bytes].flags = "PAGE_READWRITE"
            /\ kernel[view.bytes].region.base = view.at

Contract == INSTANCE MappingContract WITH
  present <- Alive,
  holders <- [h \in DOMAIN kernel |-> {s \in Slots : object[s].mapping = h}]

(* Every operation hands mappings on, or ends them, as MappingContract     *)
(* says; assigning an object to itself in particular leaves it its mapping. *)
ImplementsContract == Contract!Spec

=============================================================================
