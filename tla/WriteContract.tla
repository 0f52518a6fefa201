----------------------------- MODULE WriteContract -----------------------------
(***************************************************************************)
(* What a PhysicalMemoryWriter used by several threads promises its        *)
(* callers, with no mapping in sight: a call of Write stores bytes of its  *)
(* own request, each once and page after page, and is then answered once,  *)
(* by one of the answers of WriteAnswers, when exactly the bytes that the  *)
(* answer reports have been stored.  The i-th byte of what thread t writes *)
(* is <<t, i>>; other threads' bytes may land between any two of them.     *)
(***************************************************************************)
EXTENDS MemoryTypes

CONSTANTS
  Threads,    \* threads that write
  Requests    \* the writes they make: [dst : Address, len : Nat]

VARIABLES
  solid,      \* pages that can always be mapped
  memory,     \* physical address -> the byte stored there last
  request,    \* thread -> the write it asked for last
  stored,     \* thread -> which bytes of that write have been stored
  outcome     \* thread -> the answer to it, or Pending

contractVars == <<solid, memory, request, stored, outcome>>

\* A byte no thread has written.
Untouched == <<>>

Init ==
  /\ solid \in SUBSET Pages
  /\ memory = [a \in Address |-> Untouched]
  /\ request = [t \in Threads |-> [dst |-> 0, len |-> 0]]
  /\ stored = [t \in Threads |-> {}]
  /\ outcome = [t \in Threads |-> Success(0)]

Begin(t) ==
  /\ outcome[t] # Pending
  /\ \E r \in Requests : request' = [request EXCEPT ![t] = r]
  /\ stored' = [stored EXCEPT ![t] = {}]
  /\ outcome' = [outcome EXCEPT ![t] = Pending]
  /\ UNCHANGED <<solid, memory>>

\* One byte is stored, in the first page that is not wholly written yet.
Store(t) ==
  LET dst == request[t].dst
      left == (0 .. request[t].len - 1) \ stored[t]
  IN /\ outcome[t] = Pending
     /\ IsRegion(dst, request[t].len)
     /\ \E i \in left :
          /\ \A j \in left : PageBase(dst + i) <= PageBase(dst + j)
          /\ memory' = [memory EXCEPT ![dst + i] = <<t, i>>]
          /\ stored' = [stored EXCEPT ![t] = @ \cup {i}]
     /\ UNCHANGED <<solid, request, outcome>>

Finish(t) ==
  /\ outcome[t] = Pending
  /\ \E answer \in WriteAnswers(request[t].dst, request[t].len, solid) :
       /\ stored[t] = 0 .. answer.bytes - 1
       /\ outcome' = [outcome EXCEPT ![t] = answer]
  /\ UNCHANGED <<solid, memory, request, stored>>

Next == \E t \in Threads : Begin(t) \/ Store(t) \/ Finish(t)

SafetySpec == Init /\ [][Next]_contractVars

\* Every call is answered.
Spec == SafetySpec /\ \A t \in Threads : WF_contractVars(Store(t) \/ Finish(t))

=============================================================================
