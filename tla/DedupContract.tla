---------------------------- MODULE DedupContract ----------------------------
(***************************************************************************)
(* What internal/engine/dedup.go promises in its comments: of the alerts   *)
(* with one fingerprint, exactly one is the first occurrence within the    *)
(* TTL, however many goroutines ask at once, and the others are duplicates.*)
(* A window is open for the TTL, counted from the moment its first         *)
(* occurrence looked at the clock; no entry, no map and no cleanup here.   *)
(***************************************************************************)
EXTENDS Integers

CONSTANTS Fingerprints, TTL

VARIABLE left     \* left[f]: minutes until the window of f is over

ContractInit == left = [f \in Fingerprints |-> 0]

(* The caller may be late: some of the window may be over when it is opened. *)
First(f) ==
  /\ left[f] = 0
  /\ \E w \in 0 .. TTL : left' = [left EXCEPT ![f] = w]

Duplicate(f) ==
  /\ left[f] > 0
  /\ UNCHANGED left

Minute == left' = [f \in Fingerprints |-> IF left[f] > 0 THEN left[f] - 1 ELSE 0]

ContractNext == Minute \/ \E f \in Fingerprints : First(f) \/ Duplicate(f)

ContractSpec == ContractInit /\ [][ContractNext]_left
=============================================================================
