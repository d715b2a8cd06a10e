----------------------------- MODULE MCServing -----------------------------
(* Every list of three requests with prompts of 2 to Capacity - 1 tokens,   *)
(* that decode none, one or several tokens and arrive in the first ticks,   *)
(* over pools that hold a full request and a short one, or three short.    *)
EXTENDS Serving

CONSTANTS LastArrival, DecodeCounts

AllSpecs ==
  {spec \in [prompt : 2 .. Capacity - 1, decode : DecodeCounts,
             arrival : 0 .. LastArrival] : Total(spec) <= Capacity}

=============================================================================
