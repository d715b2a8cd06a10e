---------------------------- MODULE TokenService ----------------------------
(***************************************************************************)
(* What runContinuousBatch of src/src/runtime/ServingRuntime.cpp promises: *)
(* every request receives, one by one and in order, the tokens that it     *)
(* would receive if it ran alone, and the call ends, either with all of    *)
(* them or with an error.                                                  *)
(***************************************************************************)
EXTENDS Integers, Sequences

CONSTANT Requests

VARIABLES
  specs,     \* specs[r]: prompt length and number of tokens to decode
  output,    \* output[r]: the tokens received, the one of the prefill first
  status     \* "running", "passed" or "failed"

vars == <<specs, output, status>>

\* The n-th token of a request, counted from its first prompt token.
Token(r, n) == <<r, n>>

Owed(r) == 1 + specs[r].decode

Init ==
  /\ specs \in [Requests -> [prompt : Nat, decode : Nat, arrival : Nat]]
  /\ output = [r \in Requests |-> <<>>]
  /\ status = "running"

Deliver(r) ==
  /\ status = "running"
  /\ Len(output[r]) < Owed(r)
  /\ output' = [output EXCEPT ![r] =
                  Append(@, Token(r, specs[r].prompt + Len(@)))]
  /\ UNCHANGED <<specs, status>>

Complete ==
  /\ status = "running"
  /\ \A r \in Requests : Len(output[r]) = Owed(r)
  /\ status' = "passed"
  /\ UNCHANGED <<specs, output>>

Abort ==
  /\ status = "running"
  /\ status' = "failed"
  /\ UNCHANGED <<specs, output>>

Next == (\E r \in Requests : Deliver(r)) \/ Complete \/ Abort

Terminates == <>(status # "running")

\* What may happen, and what must.
Safety == Init /\ [][Next]_vars

Spec == Safety /\ Terminates

=============================================================================
