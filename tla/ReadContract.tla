----------------------------- MODULE ReadContract -----------------------------
(***************************************************************************)
(* What a PhysicalMemoryReader shared by several threads promises its      *)
(* callers, with no page, mapping or counter in sight: a call of ReadInto  *)
(* is answered once, by one of the answers of ReadAnswers, and the bytes   *)
(* it reports as transferred are the bytes of physical memory asked for,   *)
(* in order.  A byte is identified by the physical address it was read     *)
(* from.                                                                   *)
(***************************************************************************)
EXTENDS MemoryTypes

CONSTANTS
  Threads,    \* threads calling ReadInto on one shared reader
  Requests    \* the reads they make: [src : Address, len : Nat]

VARIABLES
  solid,      \* pages whose bytes can always be read
  request,    \* thread -> the read it asked for last
  outcome,    \* thread -> the answer to it, or Pending
  data        \* thread -> the bytes the answer reports as transferred

contractVars == <<solid, request, outcome, data>>

NoBytes == [i \in {} |-> 0]

Init ==
  /\ solid \in SUBSET Pages
  /\ request = [t \in Threads |-> [src |-> 0, len |-> 0]]
  /\ outcome = [t \in Threads |-> Success(0)]
  /\ data = [t \in Threads |-> NoBytes]

Begin(t) ==
  /\ outcome[t] # Pending
  /\ \E r \in Requests : request' = [request EXCEPT ![t] = r]
  /\ outcome' = [outcome EXCEPT ![t] = Pending]
  /\ data' = [data EXCEPT ![t] = NoBytes]
  /\ UNCHANGED solid

Finish(t) ==
  /\ outcome[t] = Pending
  /\ \E answer \in ReadAnswers(request[t].src, request[t].len, solid) :
       /\ outcome' = [outcome EXCEPT ![t] = answer]
       /\ data' = [data EXCEPT ![t] =
                     [i \in 0 .. answer.bytes - 1 |-> request[t].src + i]]
  /\ UNCHANGED <<solid, request>>

Next == \E t \in Threads : Begin(t) \/ Finish(t)

SafetySpec == Init /\ [][Next]_contractVars

\* Every call is answered.
Spec == SafetySpec /\ \A t \in Threads : WF_contractVars(Finish(t))

=============================================================================
