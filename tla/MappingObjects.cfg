\* Every sequence of operations on the objects of three slots.
CONSTANTS
  Slots = {s1, s2, s3}
  Handles = {h1, h2, h3}
  Regions <- SomeRegions
  Nullptr = Nullptr
SPECIFICATION Spec
INVARIANTS
  TypeOK
  HeldOnce
  UnmapsWhatIsMapped
  ViewsAreBacked
PROPERTY ImplementsContract
