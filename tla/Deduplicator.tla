---------------------------- MODULE Deduplicator -----------------------------
(***************************************************************************)
(* The Deduplicator of internal/engine/dedup.go: a sync.Map from           *)
(* fingerprints to entries, asked by many goroutines at once and swept by  *)
(* a goroutine of its own.  No lock is held over more than one operation   *)
(* of the map, so each operation is a step.                                *)
(*                                                                         *)
(* An entry is allocated once per call and compared by its address:        *)
(* entries[n] is the entry of the n-th call, and n its address.  The hit   *)
(* counter of an entry is never read and is left out.                      *)
(***************************************************************************)
EXTENDS Integers, Sequences

CONSTANTS Fingerprints, Callers,
          TTL,                             \* d.ttl, in minutes
          MaxTime, MaxCalls, MaxSweeps     \* bounds

ASSUME TTLAssumption == TTL \in Nat \ {0}

NoEntry == 0
NoTime == -1

VARIABLES now,
          entries,    \* every entry allocated so far
          seen,       \* seen[f]: the entry of f in the map, or NoEntry
          stage,      \* stage[g]: where caller g is in IsDuplicate
          fresh,      \* fresh[g]: the entry caller g has allocated
          actual,     \* actual[g]: the entry it found in the map
          sweepAt,    \* cleanup: the time read at the tick, or NoTime
          unvisited,  \* cleanup: keys the Range has not come to yet
          doomed,     \* cleanup: keys found expired and not deleted yet
          won,        \* history: entries whose callers report a first occurrence
          winner,     \* history: winner[f]: the last of them for f
          evicted,    \* history: fingerprints whose open window cleanup has ended
          sweeps

callVars == <<stage, fresh, actual>>
sweepVars == <<sweepAt, unvisited, doomed, sweeps>>
historyVars == <<won, winner, evicted>>
vars == <<now, entries, seen, callVars, sweepVars, historyVars>>

Init ==
  /\ now = 0
  /\ entries = <<>>
  /\ seen = [f \in Fingerprints |-> NoEntry]
  /\ stage = [g \in Callers |-> "idle"]
  /\ fresh = [g \in Callers |-> NoEntry]
  /\ actual = [g \in Callers |-> NoEntry]
  /\ sweepAt = NoTime /\ unvisited = {} /\ doomed = {} /\ sweeps = 0
  /\ won = {}
  /\ winner = [f \in Fingerprints |-> NoEntry]
  /\ evicted = {}

Tick ==
  /\ now < MaxTime
  /\ now' = now + 1
  /\ UNCHANGED <<entries, seen, callVars, sweepVars, historyVars>>

-----------------------------------------------------------------------------
(* IsDuplicate *)

(* The entry caller g would insert, its fingerprint and its time. *)
Mine(g) == entries[fresh[g]]

Expired(n, t) == t >= entries[n].expiresAt

Call(g, f) ==
  /\ stage[g] = "idle" /\ Len(entries) < MaxCalls
  /\ entries' = Append(entries, [print |-> f, at |-> now, expiresAt |-> now + TTL])
  /\ fresh' = [fresh EXCEPT ![g] = Len(entries) + 1]
  /\ stage' = [stage EXCEPT ![g] = "load"]
  /\ UNCHANGED <<now, seen, actual, sweepVars, historyVars>>

(* The entry of g is in the map: g will report a first occurrence. *)
Insert(g) ==
  LET f == Mine(g).print IN
  /\ seen' = [seen EXCEPT ![f] = fresh[g]]
  /\ won' = won \cup {fresh[g]}
  /\ winner' = [winner EXCEPT ![f] = fresh[g]]
  /\ evicted' = evicted \ {f}
  /\ stage' = [stage EXCEPT ![g] = "first"]

(* Mutant: the expiry of the entry found is not looked at. *)
LoadOrStore_AnyEntry(g) ==
  LET n == seen[Mine(g).print] IN
  /\ stage[g] = "load"
  /\ IF n = NoEntry THEN Insert(g) /\ UNCHANGED actual
     ELSE /\ actual' = [actual EXCEPT ![g] = n]
          /\ stage' = [stage EXCEPT ![g] = "swap"]
          /\ UNCHANGED <<seen, historyVars>>
  /\ UNCHANGED <<now, entries, fresh, sweepVars>>

LoadOrStore(g) ==
  LET n == seen[Mine(g).print] IN
  /\ stage[g] = "load"
  /\ IF n = NoEntry THEN Insert(g) /\ UNCHANGED actual
     ELSE /\ actual' = [actual EXCEPT ![g] = n]
          /\ stage' = [stage EXCEPT ![g] = IF Expired(n, Mine(g).at) THEN "swap" ELSE "duplicate"]
          /\ UNCHANGED <<seen, historyVars>>
  /\ UNCHANGED <<now, entries, fresh, sweepVars>>

(* Mutant: a plain Store. *)
CompareAndSwap_Store(g) ==
  /\ stage[g] = "swap"
  /\ Insert(g)
  /\ UNCHANGED <<now, entries, fresh, actual, sweepVars>>

(* Mutant: the swap is not reported as a first occurrence. *)
CompareAndSwap_Unreported(g) ==
  /\ stage[g] = "swap"
  /\ seen' = IF seen[Mine(g).print] = actual[g]
               THEN [seen EXCEPT ![Mine(g).print] = fresh[g]] ELSE seen
  /\ stage' = [stage EXCEPT ![g] = "load"]
  /\ UNCHANGED <<now, entries, fresh, actual, sweepVars, historyVars>>

(* CompareAndSwap succeeds on the very entry that was loaded; otherwise    *)
(* the loop starts again.                                                  *)
CompareAndSwap(g) ==
  /\ stage[g] = "swap"
  /\ IF seen[Mine(g).print] = actual[g] THEN Insert(g)
     ELSE stage' = [stage EXCEPT ![g] = "load"] /\ UNCHANGED <<seen, historyVars>>
  /\ UNCHANGED <<now, entries, fresh, actual, sweepVars>>

Return(g) ==
  /\ stage[g] \in {"first", "duplicate"}
  /\ stage' = [stage EXCEPT ![g] = "idle"]
  /\ fresh' = [fresh EXCEPT ![g] = NoEntry]
  /\ actual' = [actual EXCEPT ![g] = NoEntry]
  /\ UNCHANGED <<now, entries, seen, sweepVars, historyVars>>

-----------------------------------------------------------------------------
(* cleanup.  The ticker and the callers share no clock: a sweep may start  *)
(* at any time.                                                            *)

SweepStart ==
  /\ sweepAt = NoTime /\ sweeps < MaxSweeps
  /\ sweepAt' = now
  /\ unvisited' = Fingerprints
  /\ sweeps' = sweeps + 1
  /\ UNCHANGED <<now, entries, seen, callVars, doomed, historyVars>>

(* Range comes to key f and passes its entry to the callback. *)
Visit(f) ==
  /\ f \in unvisited /\ doomed = {}
  /\ unvisited' = unvisited \ {f}
  /\ doomed' = IF seen[f] # NoEntry /\ sweepAt > entries[seen[f]].expiresAt THEN {f} ELSE {}
  /\ UNCHANGED <<now, entries, seen, callVars, sweepAt, sweeps, historyVars>>

(* Delete(key), whatever entry is there by now. *)
Delete(f) ==
  /\ f \in doomed
  /\ doomed' = {}
  /\ seen' = [seen EXCEPT ![f] = NoEntry]
  /\ evicted' = IF seen[f] # NoEntry /\ ~Expired(seen[f], now) THEN evicted \cup {f} ELSE evicted
  /\ UNCHANGED <<now, entries, callVars, sweepAt, unvisited, sweeps, won, winner>>

SweepEnd ==
  /\ sweepAt # NoTime /\ unvisited = {} /\ doomed = {}
  /\ sweepAt' = NoTime
  /\ UNCHANGED <<now, entries, seen, callVars, unvisited, doomed, sweeps, historyVars>>

Next ==
  \/ Tick \/ SweepStart \/ SweepEnd
  \/ \E f \in Fingerprints : Visit(f) \/ Delete(f) \/ \E g \in Callers : Call(g, f)
  \/ \E g \in Callers : LoadOrStore(g) \/ CompareAndSwap(g) \/ Return(g)

Spec == Init /\ [][Next]_vars

(* A call that has started runs to its end. *)
Fairness == \A g \in Callers : WF_vars(LoadOrStore(g) \/ CompareAndSwap(g) \/ Return(g))

FairSpec == Spec /\ Fairness

-----------------------------------------------------------------------------
Addresses == 1 .. Len(entries)
Entry == [print : Fingerprints, at : Nat, expiresAt : Nat]
Stages == {"idle", "load", "swap", "first", "duplicate"}

(* Types; a key of the map leads to an entry made for it; and a caller     *)
(* that tries to swap has found an entry that was over when it was called. *)
TypeOK ==
  /\ now \in Nat
  /\ entries \in Seq(Entry)
  /\ \A m \in {seen, winner} :
       /\ m \in [Fingerprints -> {NoEntry} \cup Addresses]
       /\ \A f \in Fingerprints : m[f] # NoEntry => entries[m[f]].print = f
  /\ stage \in [Callers -> Stages]
  /\ fresh \in [Callers -> {NoEntry} \cup Addresses]
  /\ actual \in [Callers -> {NoEntry} \cup Addresses]
  /\ \A g \in Callers : stage[g] # "idle" => fresh[g] # NoEntry
  /\ \A g \in Callers : stage[g] = "swap" => actual[g] # NoEntry /\ Expired(actual[g], Mine(g).at)
  /\ sweepAt \in Nat \cup {NoTime} /\ sweeps \in Nat
  /\ unvisited \subseteq Fingerprints /\ doomed \subseteq Fingerprints
  /\ won \subseteq Addresses /\ evicted \subseteq Fingerprints

(* dedup.go:44-46: callers racing on one fingerprint agree on one first    *)
(* occurrence per window.  It holds as long as cleanup has not deleted the *)
(* entry of the open window: a new first occurrence comes only when the    *)
(* window of the last one is over.                                         *)
OneFirst ==
  [][\A f \in Fingerprints :
       winner'[f] # winner[f] /\ winner[f] # NoEntry /\ f \notin evicted
         => Expired(winner[f], now)]_vars

(* An alert is dropped as a duplicate only of an alert with the same       *)
(* fingerprint that was reported as a first occurrence, and within the TTL *)
(* of it: no alert is suppressed by one that was suppressed itself.        *)
DuplicateOfFirst ==
  \A g \in Callers : stage[g] = "duplicate" =>
    /\ actual[g] \in won
    /\ entries[actual[g]].print = Mine(g).print
    /\ Mine(g).at < entries[actual[g]].at + TTL

(* The minutes left of the window of f. *)
Left(f) == IF winner[f] # NoEntry /\ ~Expired(winner[f], now)
             THEN entries[winner[f]].expiresAt - now ELSE 0

(* dedup.go:44-46 and :89-93 claim the contract without reserve: cleanup's *)
(* unconditional Delete is called safe.  NOT so: the entry it deletes need *)
(* not be the one it has looked at.                                        *)
Contract == INSTANCE DedupContract WITH left <- [f \in Fingerprints |-> Left(f)]
KeepsDedupContract == Contract!ContractSpec
=============================================================================
