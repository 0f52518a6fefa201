---------------------- MODULE MCVirtualAddressTranslator ----------------------
(***************************************************************************)
(* Values of the constants of VirtualAddressTranslator for TLC.            *)
(***************************************************************************)
EXTENDS VirtualAddressTranslator

Absent == [present |-> FALSE, large |-> FALSE, grants |-> {}, address |-> 0]

Holds(a, g) == [present |-> TRUE, large |-> FALSE, grants |-> g, address |-> a]
Large(a, g) == [Holds(a, g) EXCEPT !.large = TRUE]

\* The tables are the pages at 4 and 8, either of which may serve at any
\* level; 36 is 4, and 32 is 0, with a bit set that a narrow processor does
\* not have.
TwoTables ==
  LET slots == {4, 6, 8, 10}
      held == { Absent, Holds(4, Permissions), Holds(8, {"Writable", "Executable"}),
                Holds(36, {"Writable"}), Large(20, Permissions), Holds(32, Permissions) }
  IN {[a \in EntryAddresses |-> IF a \in slots THEN m[a] ELSE Absent] :
        m \in [slots -> held]}

\* Tables that other tables name: the page at 4 holds the highest, the pages
\* at 8, 12, 16 and 20 the ones below it, with a large page half way down.
Chain ==
  [a \in EntryAddresses |->
     CASE a = 4  -> Holds(8, Permissions)
       [] a = 6  -> Holds(12, {"Writable", "Executable"})
       [] a = 8  -> Holds(12, {"Writable", "UserAccessible"})
       [] a = 10 -> Holds(16, Permissions)
       [] a = 12 -> Holds(16, Permissions)
       [] a = 14 -> Large(40, {"Executable", "UserAccessible"})
       [] a = 16 -> Holds(20, Permissions)
       [] a = 18 -> Holds(24, {"Writable"})
       [] a = 20 -> Holds(28, {"UserAccessible"})
       [] a = 22 -> Large(52, Permissions)
       [] OTHER  -> Absent]

\* The chain, and tables one of whose entries names the table it lies in.
SomeTables ==
  { Chain,
    [Chain EXCEPT ![12] = Large(20, Permissions), ![10] = Holds(12, Permissions)],
    [Chain EXCEPT ![8] = Holds(8, Permissions), ![10] = Holds(4, Permissions)] }

StoredEntries ==
  { Absent, Holds(4, Permissions), Holds(12, {"Writable"}), Holds(16, Permissions),
    Large(40, Permissions) }

NarrowProcessors == [fiveLevel : BOOLEAN, bits : {4}]
AllProcessors == [fiveLevel : BOOLEAN, bits : {4, 6, 9}]

\* One address of each page and the last byte of some, low and high halves with
\* their first and last bytes, and addresses that are not canonical.
SpreadAddresses ==
  {a \in Address : a % 8 \in {0, 3} /\ (a < 40 \/ a >= 216)}
    \cup {31, 63, 64, 65, 130, 191, 192, 223, 255}

HalfAddresses == {a \in Address : a % 8 \in {0, 5} /\ a < 64}

AllButOne == {Pages, Pages \ {4}, Pages \ {8}}
AllSolid == {Pages}

=============================================================================
