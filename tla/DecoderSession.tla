-------------------------- MODULE DecoderSession --------------------------
(***************************************************************************)
(* What a stateful decoder promises the caller of prefill, decode, reset,  *)
(* snapshotKVCache and restoreKVCache (the executors under                 *)
(* src/src/runtime): a context of tokens that a call either extends by its *)
(* own tokens, with an answer computed from exactly the extended context,  *)
(* or leaves as it was.                                                    *)
(***************************************************************************)
EXTENDS Integers, Sequences

CONSTANTS Token, Capacity

Contexts == UNION {[1 .. n -> Token] : n \in 0 .. Capacity}

VARIABLES
  context,  \* the tokens the cache holds
  lost,     \* whether a reset has failed, after which it may hold anything
  input,    \* the tokens of the call under way, or of the next chunk of it
  answer,   \* the last call: how it ended, and the context it was computed from
  copy      \* the caller's copy of a context

Said(word) == [said |-> word, on |-> <<>>]

Init ==
  /\ context = <<>> /\ lost = FALSE /\ input = <<>>
  /\ answer = Said("nothing") /\ copy = <<>>

Ask == input' \in Contexts /\ UNCHANGED <<context, lost, answer, copy>>

\* A chunk of a prefill, a prefill or a decode passes; a prefill also makes up
\* for a reset that failed.
Extend ==
  /\ answer'.said = "passed"
  /\ context' = (IF lost THEN <<>> ELSE context) \o input
  /\ input # <<>> /\ context' \in Contexts
  /\ answer'.on = context' /\ lost' = FALSE
  /\ UNCHANGED <<input, copy>>

\* A decode after a reset that failed may compute from anything.
Stray ==
  /\ lost /\ answer'.said = "passed"
  /\ UNCHANGED <<context, lost, input, copy>>

Fail == answer' = Said("error") /\ UNCHANGED <<context, lost, input, copy>>

\* A reset; or one that fails half way, a restore that failed included.
Clear ==
  /\ \/ answer' = Said("done") /\ lost' = FALSE
     \/ answer' = Said("error") /\ lost' = TRUE
  /\ context' = <<>>
  /\ UNCHANGED <<input, copy>>

Save ==
  /\ answer' = Said("done")
  /\ ~lost /\ context # <<>>
  /\ copy' = context
  /\ UNCHANGED <<context, lost, input>>

Restore ==
  /\ answer' = Said("done") /\ lost' = FALSE
  /\ context = <<>> /\ copy # <<>>
  /\ context' = copy
  /\ UNCHANGED <<input, copy>>

Next == Ask \/ Fail \/ Extend \/ Stray \/ Clear \/ Save \/ Restore

Spec == Init /\ [][Next]_<<context, lost, input, answer, copy>>
=============================================================================
