--------------------- MODULE PhysicalMemoryMappingProofs ---------------------
(***************************************************************************)
(* Proofs about PhysicalMemoryMapping, for any number of objects and of    *)
(* mappings.                                                               *)
(***************************************************************************)
EXTENDS PhysicalMemoryMapping, TLAPS

\* What an object holds exists, and is what the object says it is.
Described ==
  \A s \in Slots : object[s].mapping # Nullptr =>
    /\ object[s].mapping \in DOMAIN kernel
    /\ kernel[object[s].mapping] =
         [region |-> object[s].region, flags |-> ToProtectionFlags(object[s].protection)]

\* No two objects hold the same mapping.
Apart ==
  \A s, q \in Slots :
    object[s].mapping # Nullptr /\ object[s].mapping = object[q].mapping => s = q

\* Every mapping is held.
Reached == \A h \in DOMAIN kernel : \E s \in Slots : object[s].mapping = h

\* The inductive invariant.
IInv == TypeOK /\ Described /\ Apart /\ Reached /\ ~misused

-----------------------------------------------------------------------------

Objects == [mapping : Handles \cup {Nullptr}, region : Regions, protection : Protections]

\* An object is never the mark of its absence.
LEMMA ObjectIsThere ==
  ASSUME NEW o \in Objects
  PROVE  o # NoObject
  BY MappingAssumption DEF Objects, NoObject, Protections

\* A slot is alive just when an object is in it.
LEMMA AliveIsObject ==
  ASSUME TypeOK, NEW s \in Slots
  PROVE  /\ s \in Alive <=> object[s] \in Objects
         /\ s \notin Alive <=> object[s] = NoObject
  BY ObjectIsThere DEF TypeOK, Alive, Objects

\* Flags tell the protection they were made from.
LEMMA FlagsTellProtection ==
  ASSUME NEW p \in Protections, ToProtectionFlags(p) = "PAGE_READWRITE"
  PROVE  p = "ReadWrite"
  BY DEF ToProtectionFlags, Protections

\* The invariant holds in every initial state.
LEMMA InitInvariant == Init => IInv
  <1> SUFFICES ASSUME Init PROVE IInv
    OBVIOUS
  <1>1. \A s \in Slots : object[s] = NoObject /\ object[s].mapping = Nullptr
    BY DEF Init, NoObject
  <1>2. DOMAIN kernel = {}
    BY DEF Init
  <1>3. TypeOK
    BY <1>2 DEF Init, TypeOK
  <1>4. Described /\ Apart /\ Reached
    BY <1>1, <1>2 DEF Described, Apart, Reached
  <1> QED BY <1>3, <1>4 DEF Init, IInv

\* Resetting an object that holds what it says it holds unmaps exactly that.
LEMMA ResetUnmaps ==
  ASSUME IInv, NEW s \in Slots, Reset(object[s])
  PROVE  /\ DOMAIN kernel' = DOMAIN kernel \ {object[s].mapping}
         /\ \A h \in DOMAIN kernel' : kernel'[h] = kernel[h]
         /\ misused' = misused
  <1>1. Nullptr \notin DOMAIN kernel
    BY MappingAssumption DEF IInv, TypeOK
  <1>2. CASE object[s].mapping = Nullptr
    BY <1>1, <1>2 DEF Reset
  <1>3. CASE object[s].mapping # Nullptr
    <2>1. /\ object[s].mapping \in DOMAIN kernel
          /\ kernel[object[s].mapping] =
               [region |-> object[s].region, flags |-> ToProtectionFlags(object[s].protection)]
      BY <1>3 DEF IInv, Described
    <2>2. kernel[object[s].mapping].region.size = object[s].region.size
      BY <2>1
    <2> QED BY <1>3, <2>1, <2>2 DEF Reset, Restrict, IInv, TypeOK
  <1> QED BY <1>2, <1>3

-----------------------------------------------------------------------------

\* Map keeps the invariant.
LEMMA MapInvariant ==
  ASSUME IInv, NEW s \in Slots, NEW region \in Regions, NEW protection \in Protections,
         Map(s, region, protection)
  PROVE  IInv'
  <1> USE DEF IInv
  <1>1. PICK h \in Handles \ DOMAIN kernel :
          /\ object' = [object EXCEPT ![s] =
                          [mapping |-> h, region |-> region, protection |-> protection]]
          /\ kernel' = [g \in DOMAIN kernel \cup {h} |->
                          IF g = h
                          THEN [region |-> region, flags |-> ToProtectionFlags(protection)]
                          ELSE kernel[g]]
    BY DEF Map
  <1>2. /\ object'[s].mapping = h /\ object'[s].region = region
        /\ object'[s].protection = protection
        /\ \A q \in Slots \ {s} : object'[q] = object[q]
    BY <1>1 DEF TypeOK
  <1>3. /\ DOMAIN kernel' = DOMAIN kernel \cup {h}
        /\ kernel'[h] = [region |-> region, flags |-> ToProtectionFlags(protection)]
        /\ \A g \in DOMAIN kernel : kernel'[g] = kernel[g]
    BY <1>1
  <1>4. h # Nullptr /\ misused' = misused
    BY MappingAssumption DEF Map
  <1>5. \A q \in Slots : object[q].mapping # h
    BY <1>4 DEF Described
  <1>6. object[s].mapping = Nullptr
    BY AliveIsObject DEF Map, NoObject
  <1>7. TypeOK'
    <2>1. object' \in [Slots -> {NoObject} \cup Objects]
      BY <1>1 DEF TypeOK, Objects
    <2>2. \A g \in DOMAIN kernel' :
            kernel'[g] \in [region : Regions, flags : {"PAGE_READONLY", "PAGE_READWRITE"}]
      BY <1>3 DEF TypeOK, ToProtectionFlags
    <2> QED BY <1>3, <1>4, <2>1, <2>2 DEF TypeOK, Objects
  <1>8. Described'
    BY <1>2, <1>3 DEF Described
  <1>9. Apart'
    BY <1>2, <1>5 DEF Apart
  <1>10. Reached'
    <2> SUFFICES ASSUME NEW g \in DOMAIN kernel'
                 PROVE  \E q \in Slots : object'[q].mapping = g
      BY DEF Reached
    <2>1. CASE g = h
      BY <1>2, <2>1
    <2>2. CASE g # h
      <3>1. PICK q \in Slots : object[q].mapping = g
        BY <1>3, <2>2 DEF Reached
      <3>2. g # Nullptr
        BY <1>3, <2>2, MappingAssumption DEF TypeOK
      <3> QED BY <1>2, <1>6, <3>1, <3>2
    <2> QED BY <2>1, <2>2
  <1> QED BY <1>4, <1>7, <1>8, <1>9, <1>10

\* MoveConstruct keeps the invariant.
LEMMA MoveConstructInvariant ==
  ASSUME IInv, NEW from \in Slots, NEW to \in Slots, MoveConstruct(from, to)
  PROVE  IInv'
  <1> USE DEF IInv
  <1>1. /\ from # to /\ object[to].mapping = Nullptr
        /\ object[from] \in Objects
    BY AliveIsObject DEF MoveConstruct, NoObject
  <1>2. /\ object'[to] = object[from]
        /\ object'[from] = [object[from] EXCEPT !.mapping = Nullptr]
        /\ \A q \in Slots \ {from, to} : object'[q] = object[q]
        /\ kernel' = kernel /\ misused' = misused
    BY <1>1 DEF MoveConstruct, MovedFrom, TypeOK
  <1>3. object'[from] \in Objects /\ object'[from].mapping = Nullptr
    BY <1>1, <1>2 DEF Objects
  <1>4. TypeOK'
    <2>1. object' \in [Slots -> {NoObject} \cup Objects]
      BY <1>1, <1>2, <1>3 DEF TypeOK, Objects, MoveConstruct
    <2> QED BY <1>2, <2>1 DEF TypeOK, Objects
  <1>5. Described'
    BY <1>2, <1>3 DEF Described
  <1>6. Apart'
    <2>1. /\ object'[to].mapping = object[from].mapping
          /\ \A q \in Slots \ {from, to} : object'[q].mapping = object[q].mapping
      BY <1>2
    <2> QED BY <1>3, <2>1 DEF Apart
  <1>7. Reached'
    <2>1. Nullptr \notin DOMAIN kernel
      BY MappingAssumption DEF TypeOK
    <2> QED BY <1>1, <1>2, <2>1 DEF Reached
  <1> QED BY <1>2, <1>4, <1>5, <1>6, <1>7

\* MoveAssign keeps the invariant.
LEMMA MoveAssignInvariant ==
  ASSUME IInv, NEW from \in Slots, NEW to \in Slots, MoveAssign(from, to)
  PROVE  IInv'
  <1> USE DEF IInv
  <1>1. CASE from = to
    BY <1>1 DEF MoveAssign, vars, TypeOK, Described, Apart, Reached
  <1>2. CASE from # to
    <2>1. /\ DOMAIN kernel' = DOMAIN kernel \ {object[to].mapping}
          /\ \A h \in DOMAIN kernel' : kernel'[h] = kernel[h]
          /\ misused' = misused
      BY <1>2, ResetUnmaps DEF MoveAssign
    <2>2. object[from] \in Objects /\ object[to] \in Objects
      BY AliveIsObject DEF MoveAssign
    <2>3. /\ object'[to] = object[from]
          /\ object'[from] = [object[from] EXCEPT !.mapping = Nullptr]
          /\ \A q \in Slots \ {from, to} : object'[q] = object[q]
      BY <1>2, <2>2 DEF MoveAssign, MovedFrom, Assigned, TypeOK, Objects
    <2>4. object'[from] \in Objects /\ object'[from].mapping = Nullptr
      BY <2>2, <2>3 DEF Objects
    <2>5. TypeOK'
      <3>1. object' \in [Slots -> {NoObject} \cup Objects]
        BY <1>2, <2>2, <2>3, <2>4 DEF TypeOK, Objects, MoveAssign
      <3> QED BY <2>1, <3>1 DEF TypeOK, Objects
    <2>6. Described'
      <3> SUFFICES ASSUME NEW q \in Slots, object'[q].mapping # Nullptr
                   PROVE  /\ object'[q].mapping \in DOMAIN kernel'
                          /\ kernel'[object'[q].mapping] =
                               [region |-> object'[q].region,
                                flags |-> ToProtectionFlags(object'[q].protection)]
        BY DEF Described
      <3>1. PICK p \in Slots : p # to /\ object'[q] = object[p]
        BY <1>2, <2>3, <2>4
      <3>2. object[p].mapping # object[to].mapping
        BY <3>1 DEF Apart
      <3> QED BY <2>1, <3>1, <3>2 DEF Described
    <2>7. Apart'
      <3>1. /\ object'[to].mapping = object[from].mapping
            /\ \A q \in Slots \ {from, to} : object'[q].mapping = object[q].mapping
        BY <2>3
      <3> QED BY <2>4, <3>1 DEF Apart
    <2>8. Reached'
      <3>1. Nullptr \notin DOMAIN kernel
        BY MappingAssumption DEF TypeOK
      <3> QED BY <2>1, <2>3, <3>1 DEF Reached
    <2> QED BY <2>1, <2>5, <2>6, <2>7, <2>8
  <1> QED BY <1>1, <1>2

\* Destroy keeps the invariant.
LEMMA DestroyInvariant ==
  ASSUME IInv, NEW s \in Slots, Destroy(s)
  PROVE  IInv'
  <1> USE DEF IInv
  <1>1. /\ DOMAIN kernel' = DOMAIN kernel \ {object[s].mapping}
        /\ \A h \in DOMAIN kernel' : kernel'[h] = kernel[h]
        /\ misused' = misused
    BY ResetUnmaps DEF Destroy
  <1>2. /\ object'[s] = NoObject /\ NoObject.mapping = Nullptr
        /\ \A q \in Slots \ {s} : object'[q] = object[q]
    BY DEF Destroy, TypeOK, NoObject
  <1>3. TypeOK'
    <2>1. object' \in [Slots -> {NoObject} \cup Objects]
      BY DEF TypeOK, Objects, Destroy
    <2> QED BY <1>1, <2>1 DEF TypeOK, Objects
  <1>4. Described'
    BY <1>1, <1>2 DEF Described, Apart
  <1>5. Apart'
    BY <1>2 DEF Apart
  <1>6. Reached'
    BY <1>1, <1>2 DEF Reached
  <1> QED BY <1>1, <1>3, <1>4, <1>5, <1>6

\* Every step keeps the invariant.
LEMMA StepInvariant == IInv /\ [Next]_vars => IInv'
  <1> SUFFICES ASSUME IInv, [Next]_vars PROVE IInv'
    OBVIOUS
  <1>1. ASSUME NEW s \in Slots, NEW region \in Regions, NEW protection \in Protections,
               Map(s, region, protection)
        PROVE  IInv'
    BY <1>1, MapInvariant
  <1>2. ASSUME NEW s \in Slots, Destroy(s) PROVE IInv'
    BY <1>2, DestroyInvariant
  <1>3. ASSUME NEW from \in Slots, NEW to \in Slots, MoveConstruct(from, to) PROVE IInv'
    BY <1>3, MoveConstructInvariant
  <1>4. ASSUME NEW from \in Slots, NEW to \in Slots, MoveAssign(from, to) PROVE IInv'
    BY <1>4, MoveAssignInvariant
  <1>5. CASE UNCHANGED vars
    BY <1>5 DEF vars, IInv, TypeOK, Described, Apart, Reached
  <1> QED BY <1>1, <1>2, <1>3, <1>4, <1>5 DEF Next

\* So it holds throughout.
LEMMA InvariantHolds == Spec => []IInv
  BY InitInvariant, StepInvariant, PTL DEF Spec

-----------------------------------------------------------------------------

\* Objects and mappings keep their types: an object names a handle the memory
\* manager gave out or none, with the region and protection it was asked for.
THEOREM TypeCorrect == Spec => []TypeOK
  <1>1. IInv => TypeOK
    BY DEF IInv
  <1> QED BY <1>1, InvariantHolds, PTL

\* However objects are constructed, moved, assigned and destroyed, a mapping
\* that exists is held by exactly one of them, and none holds one that is gone.
THEOREM MappingsAreHeldOnce == Spec => []HeldOnce
  <1>1. IInv => HeldOnce
    <2> SUFFICES ASSUME IInv PROVE HeldOnce
      OBVIOUS
    <2> USE DEF IInv
    <2>1. ASSUME NEW h \in DOMAIN kernel
          PROVE  \E s \in Slots : \A q \in Slots : object[q].mapping = h <=> q = s
      <3>1. PICK s \in Slots : object[s].mapping = h
        BY DEF Reached
      <3>2. h # Nullptr
        BY MappingAssumption DEF TypeOK
      <3> QED BY <3>1, <3>2 DEF Apart
    <2> QED BY <2>1 DEF HeldOnce, Described
  <1> QED BY <1>1, InvariantHolds, PTL

\* MmUnmapIoSpace is only ever given a mapping that exists, with its size.
THEOREM OnlyMappingsAreUnmapped == Spec => []UnmapsWhatIsMapped
  <1>1. IInv => UnmapsWhatIsMapped
    BY DEF IInv, UnmapsWhatIsMapped
  <1> QED BY <1>1, InvariantHolds, PTL

\* The bytes an object offers are mapped, to the size it says, and those it
\* offers for writing were mapped for writing.
THEOREM ViewsAreAlwaysBacked == Spec => []ViewsAreBacked
  <1>1. IInv => ViewsAreBacked
    <2> SUFFICES ASSUME IInv, NEW s \in Alive
                 PROVE  LET view == View(object[s])
                            bytes == Bytes(object[s])
                        IN /\ bytes.size # 0 =>
                                /\ bytes.bytes \in DOMAIN kernel
                                /\ kernel[bytes.bytes].region.size = bytes.size
                           /\ view.code = "Success" =>
                                /\ view.bytes = bytes.bytes /\ view.size = bytes.size
                                /\ kernel[view.bytes].flags = "PAGE_READWRITE"
                                /\ kernel[view.bytes].region.base = view.at
      BY DEF ViewsAreBacked
    <2>1. s \in Slots
      BY DEF Alive
    <2>2. CASE object[s].mapping = Nullptr
      BY <2>2 DEF View, Bytes
    <2>3. CASE object[s].mapping # Nullptr
      <3>1. /\ object[s].mapping \in DOMAIN kernel
            /\ kernel[object[s].mapping].region = object[s].region
            /\ kernel[object[s].mapping].flags = ToProtectionFlags(object[s].protection)
        <4>1. /\ object[s].mapping \in DOMAIN kernel
              /\ kernel[object[s].mapping] =
                   [region |-> object[s].region,
                    flags |-> ToProtectionFlags(object[s].protection)]
          BY <2>1, <2>3 DEF IInv, Described
        <4> QED BY <4>1
      <3>2. /\ Bytes(object[s]).bytes = object[s].mapping
            /\ Bytes(object[s]).size = object[s].region.size
        BY <2>3 DEF Bytes
      <3>3. CASE object[s].protection # "ReadWrite"
        BY <2>3, <3>1, <3>2, <3>3 DEF View
      <3>4. CASE object[s].protection = "ReadWrite"
        <4>1. View(object[s]) = [code |-> "Success", at |-> object[s].region.base,
                                 bytes |-> object[s].mapping, size |-> object[s].region.size]
          BY <2>3, <3>4 DEF View
        <4>2. ToProtectionFlags(object[s].protection) = "PAGE_READWRITE"
          BY <3>4 DEF ToProtectionFlags
        <4> QED BY <3>1, <3>2, <4>1, <4>2
      <3> QED BY <3>3, <3>4
    <2> QED BY <2>2, <2>3
  <1> QED BY <1>1, InvariantHolds, PTL

-----------------------------------------------------------------------------

Held == [h \in DOMAIN kernel |-> {s \in Slots : object[s].mapping = h}]

\* Map acquires a mapping for the slot.
LEMMA MapAcquires ==
  ASSUME IInv, NEW s \in Slots, NEW region \in Regions, NEW protection \in Protections,
         Map(s, region, protection)
  PROVE  Contract!Acquire(s)
  <1>1. PICK h \in Handles \ DOMAIN kernel :
          /\ object' = [object EXCEPT ![s] =
                          [mapping |-> h, region |-> region, protection |-> protection]]
          /\ DOMAIN kernel' = DOMAIN kernel \cup {h}
    BY DEF Map
  <1>2. /\ object'[s].mapping = h /\ object'[s] \in Objects
        /\ \A q \in Slots \ {s} : object'[q] = object[q]
    BY <1>1 DEF IInv, TypeOK, Objects
  <1>3. Alive' = Alive \cup {s}
    BY <1>2, ObjectIsThere DEF Alive
  <1>4. h # Nullptr /\ object[s].mapping = Nullptr /\ Nullptr \notin DOMAIN kernel
    BY AliveIsObject, MappingAssumption DEF Map, NoObject, IInv, TypeOK
  <1>5. \A q \in Slots : object[q].mapping # h
    BY <1>4 DEF IInv, Described
  <1>6. \A g \in DOMAIN kernel' :
          {q \in Slots : object'[q].mapping = g} =
            IF g = h THEN {s} ELSE {q \in Slots : object[q].mapping = g}
    BY <1>1, <1>2, <1>4, <1>5
  <1>7. Held' = [g \in DOMAIN Held \cup {h} |-> IF g = h THEN {s} ELSE Held[g]]
    BY <1>1, <1>6 DEF Held
  <1>8. h \in Handles \ DOMAIN Held
    BY DEF Held
  <1> QED BY <1>3, <1>7, <1>8 DEF Contract!Acquire, Map, Held

\* What a move does to who holds what, whether its target is new or not.
LEMMA MoveMoves ==
  ASSUME IInv, NEW from \in Slots, NEW to \in Slots, from # to, from \in Alive,
         DOMAIN kernel' = DOMAIN kernel \ {object[to].mapping},
         object'[to].mapping = object[from].mapping,
         object'[from].mapping = Nullptr,
         \A q \in Slots \ {from, to} : object'[q] = object[q],
         Alive' = Alive \cup {to}
  PROVE  Contract!Move(from, to)
  <1>1. Nullptr \notin DOMAIN kernel
    BY MappingAssumption DEF IInv, TypeOK
  <1>2. \A s \in Slots : Contract!HeldBy(s) = {object[s].mapping} \ {Nullptr}
    BY <1>1 DEF IInv, Described, Contract!HeldBy
  <1>3. DOMAIN kernel' = DOMAIN Held \ Contract!HeldBy(to)
    BY <1>1, <1>2 DEF Held
  <1>4. \A h \in DOMAIN kernel' :
          {q \in Slots : object'[q].mapping = h} =
            IF h \in Contract!HeldBy(from) THEN {to} ELSE Held[h]
    <2> SUFFICES ASSUME NEW h \in DOMAIN kernel'
                 PROVE  {q \in Slots : object'[q].mapping = h} =
                          IF h \in Contract!HeldBy(from) THEN {to} ELSE Held[h]
      OBVIOUS
    <2>1. h \in DOMAIN kernel /\ h # Nullptr /\ h # object[to].mapping
      BY <1>1
    <2>2. Held[h] = {q \in Slots : object[q].mapping = h}
      BY <2>1 DEF Held
    <2>3. CASE h = object[from].mapping
      <3>1. \A q \in Slots \ {from} : object[q].mapping # h
        BY <2>1, <2>3 DEF IInv, Apart
      <3> QED BY <1>2, <2>1, <2>3, <3>1
    <2>4. CASE h # object[from].mapping
      BY <1>2, <2>1, <2>2, <2>4
    <2> QED BY <2>3, <2>4
  <1>5. Held' = [h \in DOMAIN Held \ Contract!HeldBy(to) |->
                   IF h \in Contract!HeldBy(from) THEN {to} ELSE Held[h]]
    BY <1>3, <1>4 DEF Held
  <1> QED BY <1>5 DEF Contract!Move, Held

\* Move construction moves the mapping to an empty slot.
LEMMA MoveConstructMoves ==
  ASSUME IInv, NEW from \in Slots, NEW to \in Slots, MoveConstruct(from, to)
  PROVE  Contract!Move(from, to)
  <1>1. /\ from # to /\ from \in Alive /\ object[to].mapping = Nullptr
        /\ object[from] \in Objects
    BY AliveIsObject DEF MoveConstruct, NoObject, IInv
  <1>2. /\ object'[to] = object[from]
        /\ object'[from] = [object[from] EXCEPT !.mapping = Nullptr]
        /\ \A q \in Slots \ {from, to} : object'[q] = object[q]
        /\ kernel' = kernel
    BY <1>1 DEF MoveConstruct, MovedFrom, IInv, TypeOK
  <1>3. object'[from] \in Objects /\ object'[from].mapping = Nullptr
    BY <1>1, <1>2 DEF Objects
  <1>4. Alive' = Alive \cup {to}
    BY <1>1, <1>2, <1>3, ObjectIsThere DEF Alive
  <1>5. DOMAIN kernel' = DOMAIN kernel \ {object[to].mapping}
    BY <1>1, <1>2, MappingAssumption DEF IInv, TypeOK
  <1> QED BY <1>1, <1>2, <1>3, <1>4, <1>5, MoveMoves

\* Move assignment to another object moves it there, and releases what was there.
LEMMA MoveAssignMoves ==
  ASSUME IInv, NEW from \in Slots, NEW to \in Slots, from # to, MoveAssign(from, to)
  PROVE  Contract!Move(from, to)
  <1>1. DOMAIN kernel' = DOMAIN kernel \ {object[to].mapping}
    BY ResetUnmaps DEF MoveAssign
  <1>2. /\ object[from] \in Objects /\ object[to] \in Objects
        /\ from \in Alive /\ to \in Alive
    BY AliveIsObject DEF MoveAssign, IInv
  <1>3. /\ object'[to] = object[from]
        /\ object'[from] = [object[from] EXCEPT !.mapping = Nullptr]
        /\ \A q \in Slots \ {from, to} : object'[q] = object[q]
    BY <1>2 DEF MoveAssign, MovedFrom, Assigned, IInv, TypeOK, Objects
  <1>4. object'[from] \in Objects /\ object'[from].mapping = Nullptr
    BY <1>2, <1>3 DEF Objects
  <1>5. Alive' = Alive \cup {to}
    BY <1>2, <1>3, <1>4, ObjectIsThere DEF Alive
  <1> QED BY <1>1, <1>2, <1>3, <1>4, <1>5, MoveMoves

\* The destructor releases the mapping, if there is one.
LEMMA DestroyReleases ==
  ASSUME IInv, NEW s \in Slots, Destroy(s)
  PROVE  Contract!Release(s)
  <1>1. DOMAIN kernel' = DOMAIN kernel \ {object[s].mapping}
    BY ResetUnmaps DEF Destroy
  <1>2. /\ object'[s] = NoObject /\ object'[s].mapping = Nullptr
        /\ \A q \in Slots \ {s} : object'[q] = object[q]
    BY DEF Destroy, IInv, TypeOK, NoObject
  <1>3. Alive' = Alive \ {s}
    BY <1>2 DEF Alive
  <1>4. Nullptr \notin DOMAIN kernel
    BY MappingAssumption DEF IInv, TypeOK
  <1>5. Contract!HeldBy(s) = {object[s].mapping} \ {Nullptr}
    BY <1>4 DEF IInv, Described, Contract!HeldBy
  <1>6. \A h \in DOMAIN kernel' :
          {q \in Slots : object'[q].mapping = h} = {q \in Slots : object[q].mapping = h}
    BY <1>1, <1>2, <1>4
  <1>7. Held' = [h \in DOMAIN Held \ Contract!HeldBy(s) |-> Held[h]]
    BY <1>1, <1>4, <1>5, <1>6 DEF Held
  <1> QED BY <1>3, <1>7 DEF Contract!Release, Destroy, Held

\* Callers see what MappingContract says: each operation hands a mapping on,
\* makes one with an object to hold it, or ends the one of its object.
THEOREM MappingImplementsContract == Spec => ImplementsContract
  <1>1. Init => Contract!Init
    <2> SUFFICES ASSUME Init PROVE Contract!Init
      OBVIOUS
    <2>1. Alive = {}
      BY DEF Init, Alive
    <2>2. DOMAIN kernel = {}
      BY DEF Init
    <2> QED BY <2>1, <2>2 DEF Contract!Init
  <1>2. IInv /\ [Next]_vars => [Contract!Next]_(Contract!contractVars)
    <2> SUFFICES ASSUME IInv, [Next]_vars
                 PROVE  [Contract!Next]_(Contract!contractVars)
      OBVIOUS
    <2>1. ASSUME NEW s \in Slots, NEW region \in Regions, NEW protection \in Protections,
                 Map(s, region, protection)
          PROVE  Contract!Next
      BY <2>1, MapAcquires DEF Contract!Next
    <2>2. ASSUME NEW s \in Slots, Destroy(s) PROVE Contract!Next
      BY <2>2, DestroyReleases DEF Contract!Next
    <2>3. ASSUME NEW from \in Slots, NEW to \in Slots, MoveConstruct(from, to)
          PROVE  Contract!Next
      BY <2>3, MoveConstructMoves DEF Contract!Next
    <2>4. ASSUME NEW from \in Slots, NEW to \in Slots, MoveAssign(from, to), from # to
          PROVE  Contract!Next
      BY <2>4, MoveAssignMoves DEF Contract!Next
    <2>5. ASSUME UNCHANGED vars PROVE UNCHANGED Contract!contractVars
      BY <2>5 DEF vars, Alive, Contract!contractVars
    <2>6. ASSUME NEW from \in Slots, NEW to \in Slots, MoveAssign(from, to), from = to
          PROVE  UNCHANGED vars
      BY <2>6 DEF MoveAssign
    <2> QED BY <2>1, <2>2, <2>3, <2>4, <2>5, <2>6 DEF Next
  <1> QED BY <1>1, <1>2, InvariantHolds, PTL DEF Spec, ImplementsContract, Contract!Spec

=============================================================================
