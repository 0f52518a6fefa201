---------------------------- MODULE MCEfiTableScan ----------------------------
(***************************************************************************)
(* Values of the constants of EfiTableScan for TLC.                        *)
(***************************************************************************)
EXTENDS EfiTableScan

\* A checksum that tells the tags of bodies apart and how much of them is summed,
\* and nothing else: bodies of one tag collide.
SomeChecksum(body, n) == 10 * body.tag + n

Body(kind, plausible, size, tag) ==
  [kind |-> kind, plausible |-> plausible, size |-> size, tag |-> tag]

\* A body with its own checksum, and with that of the first bytes of another.
Sealed(body) == [body |-> body, crc |-> SomeChecksum(body, body.size)]
SealedFor(body, other) == [body |-> body, crc |-> SomeChecksum(other, body.size)]

ShortBody(tag) == Body("header", TRUE, MinTableSize, tag)

\* What passes every check: a short table, and one longer than a page.
Short == Sealed(ShortBody(0))
Long == Sealed(Body("header", TRUE, MaxTableSize, 0))

\* Each of the things that must not be taken for a table.
Decoys ==
  { Sealed(Body("lead", FALSE, 0, 0)),
    Sealed(Body("reserved", TRUE, MinTableSize, 0)),
    Sealed(Body("header", FALSE, MinTableSize, 0)),
    Sealed(Body("header", TRUE, MinTableSize - 1, 0)),
    Sealed(Body("header", TRUE, MaxTableSize + 1, 0)),
    SealedFor(ShortBody(0), ShortBody(1)) }

AllContents == {Blank, Short, Long} \cup Decoys

Put(memory0, a, c) == [memory0 EXCEPT ![a] = c]
BlankMemory == [a \in Address |-> Blank]

\* A table at every aligned address, and just before it or inside it something
\* else that starts like one.
OneTableMemories ==
  {Put(Put(BlankMemory, (p + k) % (MaxAddress + 1), d), p, t) :
     p \in {a \in Address : a % TableAlignment = 0},
     t \in {Short, Long}, d \in Decoys \cup {Long}, k \in {-2, -1, 1}}

AllSolidSets == SUBSET Pages

\* The contents that others write while the scan runs: tables whose bodies differ,
\* with their own checksums and with each other's; the same bytes with Reserved not
\* 0, or too small a size, or implausible, under a checksum that is right; no table.
WrittenContents ==
  { Blank, Short,
    Sealed(ShortBody(1)), SealedFor(ShortBody(0), ShortBody(1)),
    Sealed(Body("reserved", TRUE, MinTableSize, 1)),
    Sealed(Body("header", TRUE, MinTableSize - 1, 0)),
    Sealed(Body("header", FALSE, MinTableSize, 0)) }

\* A table at any address.
ShortTableMemories ==
  {BlankMemory} \cup {Put(BlankMemory, p, Short) : p \in Address}

=============================================================================
