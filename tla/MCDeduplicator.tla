--------------------------- MODULE MCDeduplicator ----------------------------
(***************************************************************************)
(* Three goroutines, which are interchangeable, on one fingerprint: two    *)
(* that contend for an expired entry and one that comes in between.        *)
(***************************************************************************)
EXTENDS Deduplicator, TLC

CallerSymmetry == Permutations(Callers)
=============================================================================
