------------------------- MODULE DeduplicatorProofs --------------------------
(***************************************************************************)
(* For any number of goroutines, fingerprints, calls and sweeps, and every *)
(* TTL: one first occurrence per window unless cleanup ended the window,   *)
(* duplicates only of first occurrences, and, where no sweep runs, the     *)
(* whole contract.                                                         *)
(***************************************************************************)
EXTENDS Deduplicator, TLAPS

EntryInv ==
  \A n \in Addresses : entries[n].expiresAt = entries[n].at + TTL /\ entries[n].at <= now

(* What the map holds was reported as the first occurrence of its window.  *)
MapInv ==
  \A f \in Fingerprints :
    /\ seen[f] # NoEntry => seen[f] = winner[f]
    /\ winner[f] # NoEntry => winner[f] \in won

(* A key leaves the map only when its window is over, or as an eviction.   *)
WindowInv ==
  \A f \in Fingerprints \ evicted :
    seen[f] = NoEntry /\ winner[f] # NoEntry => Expired(winner[f], now)

(* What a caller has found in the map, and concluded from it.              *)
FoundInv ==
  \A g \in Callers :
    /\ stage[g] \in {"swap", "duplicate"} =>
         actual[g] \in won /\ entries[actual[g]].print = Mine(g).print
    /\ stage[g] = "duplicate" => ~Expired(actual[g], Mine(g).at)

DedupInv == TypeOK /\ EntryInv /\ MapInv /\ WindowInv /\ FoundInv

(* Old entries keep their address and their content.                       *)
LEMMA AppendEntry ==
  ASSUME NEW S, NEW s \in Seq(S), NEW x \in S
  PROVE  /\ Append(s, x) \in Seq(S) /\ Len(Append(s, x)) = Len(s) + 1
         /\ \A n \in 1 .. Len(s) : Append(s, x)[n] = s[n]
         /\ Append(s, x)[Len(s) + 1] = x
  OBVIOUS

(* What an address leads to.                                               *)
LEMMA EntryAt ==
  ASSUME TypeOK, NEW n \in Addresses
  PROVE  /\ n \in Nat /\ n # NoEntry
         /\ entries[n] \in Entry
         /\ entries[n].print \in Fingerprints
         /\ entries[n].at \in Nat /\ entries[n].expiresAt \in Nat
  <1>1. n \in 1 .. Len(entries) /\ entries \in Seq(Entry)
    BY DEF TypeOK, Addresses
  <1>2. n \in Nat /\ n # NoEntry /\ entries[n] \in Entry
    BY <1>1 DEF NoEntry
  <1>3. QED
    BY <1>2 DEF Entry

LEMMA DedupInit == Init => DedupInv
  <1> SUFFICES ASSUME Init PROVE DedupInv
    OBVIOUS
  <1>1. TypeOK
    BY DEF Init, TypeOK, Addresses, Stages, NoEntry, NoTime, Expired, Mine
  <1>2. EntryInv
    BY DEF Init, EntryInv, Addresses
  <1>3. MapInv /\ WindowInv /\ FoundInv
    BY DEF Init, MapInv, WindowInv, FoundInv, NoEntry
  <1>4. QED
    BY <1>1, <1>2, <1>3 DEF DedupInv

LEMMA CallKeepsInv ==
  ASSUME DedupInv, NEW g \in Callers, NEW f \in Fingerprints, Call(g, f)
  PROVE  DedupInv'
  <1> DEFINE e == [print |-> f, at |-> now, expiresAt |-> now + TTL]
             n == Len(entries) + 1
  <1>1. e \in Entry
    BY TTLAssumption DEF DedupInv, TypeOK, Entry
  <1>2. /\ entries' \in Seq(Entry) /\ Len(entries') = n
        /\ \A k \in Addresses : entries'[k] = entries[k]
        /\ entries'[n] = e
    BY <1>1, AppendEntry DEF DedupInv, TypeOK, Call, Addresses
  <1>3. Addresses' = Addresses \cup {n} /\ n \notin Addresses /\ NoEntry \notin Addresses /\ n # NoEntry
    BY <1>2 DEF Addresses, DedupInv, TypeOK, NoEntry
  <1>4. UNCHANGED <<now, seen, actual, won, winner, evicted, sweepVars>>
    BY DEF Call, historyVars
  <1>5. fresh' = [fresh EXCEPT ![g] = n] /\ stage' = [stage EXCEPT ![g] = "load"]
    BY DEF Call
  <1>6. \A h \in Callers \ {g} : stage'[h] = stage[h] /\ fresh'[h] = fresh[h]
    BY <1>5 DEF DedupInv, TypeOK
  <1>7. stage'[g] = "load" /\ fresh'[g] = n
    BY <1>5 DEF DedupInv, TypeOK
  <1>8. \A h \in Callers \ {g} : stage[h] # "idle" => Mine(h)' = Mine(h)
    BY <1>2, <1>6 DEF DedupInv, TypeOK, Mine
  <1>9. TypeOK'
    <2>1. /\ stage' \in [Callers -> Stages]
          /\ fresh' \in [Callers -> {NoEntry} \cup Addresses']
          /\ actual' \in [Callers -> {NoEntry} \cup Addresses']
      BY <1>3, <1>4, <1>5 DEF DedupInv, TypeOK, Stages
    <2>2. \A h \in Callers : stage'[h] # "idle" => fresh'[h] # NoEntry
      BY <1>3, <1>6, <1>7 DEF DedupInv, TypeOK
    <2>3. \A h \in Callers : stage'[h] = "swap" =>
            actual'[h] # NoEntry /\ Expired(actual[h], Mine(h).at)'
      BY <1>2, <1>4, <1>6, <1>7, <1>8 DEF DedupInv, TypeOK, Expired
    <2>4. \A m \in {seen, winner}' :
            /\ m \in [Fingerprints -> {NoEntry} \cup Addresses']
            /\ \A k \in Fingerprints : m[k] # NoEntry => entries'[m[k]].print = k
      <3>1. SUFFICES ASSUME NEW m \in {seen, winner}
                     PROVE  /\ m \in [Fingerprints -> {NoEntry} \cup Addresses']
                            /\ \A k \in Fingerprints : m[k] # NoEntry => entries'[m[k]].print = k
        BY <1>4
      <3>2. /\ m \in [Fingerprints -> {NoEntry} \cup Addresses]
            /\ \A k \in Fingerprints : m[k] # NoEntry => entries[m[k]].print = k
        BY DEF DedupInv, TypeOK
      <3>3. \A k \in Fingerprints : m[k] \in {NoEntry} \cup Addresses
        BY <3>2
      <3>4. \A k \in Fingerprints : m[k] # NoEntry => entries'[m[k]].print = k
        BY <1>2, <3>2, <3>3
      <3>5. m \in [Fingerprints -> {NoEntry} \cup Addresses']
        BY <1>3, <3>2, <3>3
      <3> QED BY <3>4, <3>5
    <2>5. now' \in Nat /\ entries' \in Seq(Entry)
      BY <1>2, <1>4 DEF DedupInv, TypeOK
    <2>6. /\ sweepAt' \in Nat \cup {NoTime} /\ sweeps' \in Nat
          /\ unvisited' \subseteq Fingerprints /\ doomed' \subseteq Fingerprints
          /\ won' \subseteq Addresses' /\ evicted' \subseteq Fingerprints
      BY <1>3, <1>4 DEF DedupInv, TypeOK, sweepVars
    <2>7. QED
      BY <2>1, <2>2, <2>3, <2>4, <2>5, <2>6 DEF TypeOK
  <1>10. EntryInv'
    BY <1>2, <1>3, <1>4 DEF DedupInv, EntryInv, TypeOK, Addresses
  <1>11. MapInv'
    BY <1>4 DEF DedupInv, MapInv
  <1>12. WindowInv'
    BY <1>2, <1>4 DEF DedupInv, TypeOK, WindowInv, Expired
  <1>13. FoundInv'
    BY <1>2, <1>4, <1>6, <1>7, <1>8 DEF DedupInv, TypeOK, FoundInv, Expired
  <1>14. QED
    BY <1>9, <1>10, <1>11, <1>12, <1>13 DEF DedupInv

(* LoadOrStore into an empty slot, or a CompareAndSwap that succeeds.      *)
LEMMA InsertKeepsInv ==
  ASSUME DedupInv, NEW g \in Callers, stage[g] \in {"load", "swap"}, Insert(g),
         UNCHANGED <<now, entries, fresh, actual, sweepVars>>
  PROVE  DedupInv'
  <1> DEFINE f == Mine(g).print
  <1>1. fresh[g] \in Addresses /\ fresh[g] # NoEntry /\ f \in Fingerprints
    <2>1. fresh[g] \in Addresses /\ fresh[g] # NoEntry
      BY DEF DedupInv, TypeOK
    <2>2. QED
      BY <2>1, EntryAt DEF DedupInv, Mine
  <1>2. /\ seen' = [seen EXCEPT ![f] = fresh[g]] /\ winner' = [winner EXCEPT ![f] = fresh[g]]
        /\ won' = won \cup {fresh[g]} /\ evicted' = evicted \ {f}
        /\ stage' = [stage EXCEPT ![g] = "first"]
    BY DEF Insert
  <1>3. TypeOK'
    <2>1. Addresses' = Addresses /\ entries[fresh[g]].print = f
      BY DEF Addresses, Mine
    <2>2. seen' \in [Fingerprints -> {NoEntry} \cup Addresses']
          /\ \A k \in Fingerprints : seen'[k] # NoEntry => entries'[seen'[k]].print = k
      BY <1>1, <1>2, <2>1 DEF DedupInv, TypeOK
    <2>3. winner' \in [Fingerprints -> {NoEntry} \cup Addresses']
          /\ \A k \in Fingerprints : winner'[k] # NoEntry => entries'[winner'[k]].print = k
      BY <1>1, <1>2, <2>1 DEF DedupInv, TypeOK
    <2>4. \A h \in Callers : stage'[h] = "swap" =>
            actual'[h] # NoEntry /\ Expired(actual[h], Mine(h).at)'
      BY <1>2 DEF DedupInv, TypeOK, Expired, Mine
    <2>5. /\ stage' \in [Callers -> Stages]
          /\ \A h \in Callers : stage'[h] # "idle" => fresh'[h] # NoEntry
          /\ won' \subseteq Addresses' /\ evicted' \subseteq Fingerprints
      BY <1>1, <1>2, <2>1 DEF DedupInv, TypeOK, Stages
    <2>6. QED
      BY <2>1, <2>2, <2>3, <2>4, <2>5 DEF DedupInv, TypeOK, sweepVars
  <1>4. EntryInv'
    BY DEF DedupInv, EntryInv, Addresses
  <1>5. MapInv' /\ WindowInv'
    BY <1>1, <1>2 DEF DedupInv, TypeOK, MapInv, WindowInv, Expired
  <1>6. FoundInv'
    BY <1>2 DEF DedupInv, TypeOK, FoundInv, Expired, Mine
  <1>7. QED
    BY <1>3, <1>4, <1>5, <1>6 DEF DedupInv

LEMMA LoadKeepsInv ==
  ASSUME DedupInv, NEW g \in Callers, LoadOrStore(g)
  PROVE  DedupInv'
  <1> DEFINE n == seen[Mine(g).print]
  <1>1. CASE n = NoEntry
    BY <1>1, InsertKeepsInv DEF LoadOrStore
  <1>2. CASE n # NoEntry
    <2>1. Mine(g).print \in Fingerprints /\ n \in Addresses /\ n \in won /\ entries[n].print = Mine(g).print
      <3>1. fresh[g] \in Addresses
        BY DEF LoadOrStore, DedupInv, TypeOK
      <3>2. Mine(g).print \in Fingerprints
        BY <3>1, EntryAt DEF DedupInv, Mine
      <3>3. QED
        BY <1>2, <3>2 DEF DedupInv, TypeOK, MapInv
    <2>2. /\ actual' = [actual EXCEPT ![g] = n]
          /\ stage' = [stage EXCEPT ![g] = IF Expired(n, Mine(g).at) THEN "swap" ELSE "duplicate"]
          /\ UNCHANGED <<now, entries, seen, fresh, historyVars, sweepVars>>
      BY <1>2 DEF LoadOrStore
    <2>3. TypeOK'
      BY <1>2, <2>1, <2>2 DEF DedupInv, TypeOK, Addresses, Expired, Mine, Stages, sweepVars, historyVars, LoadOrStore
    <2>4. EntryInv' /\ MapInv' /\ WindowInv'
      BY <2>2 DEF DedupInv, EntryInv, Addresses, MapInv, WindowInv, Expired, historyVars
    <2>5. FoundInv'
      BY <2>1, <2>2 DEF DedupInv, TypeOK, FoundInv, Expired, Mine, historyVars
    <2>6. QED
      BY <2>3, <2>4, <2>5 DEF DedupInv
  <1>3. QED
    BY <1>1, <1>2

LEMMA SwapKeepsInv ==
  ASSUME DedupInv, NEW g \in Callers, CompareAndSwap(g)
  PROVE  DedupInv'
  <1>1. CASE seen[Mine(g).print] = actual[g]
    BY <1>1, InsertKeepsInv DEF CompareAndSwap
  <1>2. CASE seen[Mine(g).print] # actual[g]
    <2>1. /\ stage' = [stage EXCEPT ![g] = "load"]
          /\ UNCHANGED <<now, entries, seen, fresh, actual, historyVars, sweepVars>>
      BY <1>2 DEF CompareAndSwap
    <2>2. TypeOK'
      BY <2>1 DEF CompareAndSwap, DedupInv, TypeOK, Addresses, Expired, Mine, Stages, sweepVars, historyVars
    <2>3. EntryInv' /\ MapInv' /\ WindowInv'
      BY <2>1 DEF DedupInv, EntryInv, Addresses, MapInv, WindowInv, Expired, historyVars
    <2>4. FoundInv'
      BY <2>1 DEF DedupInv, TypeOK, FoundInv, Expired, Mine, historyVars
    <2>5. QED
      BY <2>2, <2>3, <2>4 DEF DedupInv
  <1>3. QED
    BY <1>1, <1>2

LEMMA ReturnKeepsInv ==
  ASSUME DedupInv, NEW g \in Callers, Return(g)
  PROVE  DedupInv'
  <1>1. TypeOK'
    BY DEF Return, DedupInv, TypeOK, Addresses, Expired, Mine, Stages, sweepVars, historyVars
  <1>2. EntryInv' /\ MapInv' /\ WindowInv'
    BY DEF Return, DedupInv, EntryInv, Addresses, MapInv, WindowInv, Expired, historyVars
  <1>3. FoundInv'
    BY DEF Return, DedupInv, TypeOK, FoundInv, Expired, Mine, historyVars
  <1>4. QED
    BY <1>1, <1>2, <1>3 DEF DedupInv

LEMMA DeleteKeepsInv ==
  ASSUME DedupInv, NEW f \in Fingerprints, Delete(f)
  PROVE  DedupInv'
  <1>1. TypeOK'
    BY DEF Delete, DedupInv, TypeOK, Addresses, Expired, Mine, callVars
  <1>2. EntryInv' /\ MapInv' /\ FoundInv'
    BY DEF Delete, DedupInv, TypeOK, EntryInv, Addresses, MapInv, FoundInv, Expired, Mine, callVars
  <1>3. WindowInv'
    BY DEF Delete, DedupInv, TypeOK, MapInv, WindowInv, Expired
  <1>4. QED
    BY <1>1, <1>2, <1>3 DEF DedupInv

LEMMA SweepKeepsInv ==
  ASSUME DedupInv, SweepStart \/ SweepEnd \/ \E f \in Fingerprints : Visit(f)
  PROVE  DedupInv'
  <1>1. UNCHANGED <<now, entries, seen, callVars, historyVars>>
    BY DEF SweepStart, SweepEnd, Visit
  <1>2. /\ sweepAt' \in Nat \cup {NoTime} /\ sweeps' \in Nat
        /\ unvisited' \subseteq Fingerprints /\ doomed' \subseteq Fingerprints
    BY DEF SweepStart, SweepEnd, Visit, DedupInv, TypeOK
  <1>3. TypeOK'
    BY <1>1, <1>2 DEF DedupInv, TypeOK, Addresses, Expired, Mine, callVars, historyVars
  <1>4. EntryInv' /\ MapInv' /\ WindowInv' /\ FoundInv'
    BY <1>1 DEF DedupInv, EntryInv, Addresses, MapInv, WindowInv, FoundInv, Expired, Mine,
                callVars, historyVars
  <1>5. QED
    BY <1>3, <1>4 DEF DedupInv

LEMMA TickKeepsInv ==
  ASSUME DedupInv, Tick
  PROVE  DedupInv'
  <1>1. now' = now + 1 /\ UNCHANGED <<entries, seen, callVars, sweepVars, historyVars>>
    BY DEF Tick
  <1>2. TypeOK'
    BY <1>1 DEF DedupInv, TypeOK, Addresses, Expired, Mine, callVars, sweepVars, historyVars
  <1>3. EntryInv'
    BY <1>1, EntryAt DEF DedupInv, TypeOK, EntryInv, Addresses
  <1>4. MapInv' /\ FoundInv'
    BY <1>1 DEF DedupInv, MapInv, FoundInv, Expired, Mine, callVars, historyVars
  <1>5. WindowInv'
    <2> SUFFICES ASSUME NEW f \in Fingerprints \ evicted, seen[f] = NoEntry, winner[f] # NoEntry
                 PROVE  now' >= entries[winner[f]].expiresAt
      BY <1>1 DEF WindowInv, Expired, historyVars
    <2>1. winner[f] \in Addresses
      BY DEF DedupInv, TypeOK
    <2>2. now >= entries[winner[f]].expiresAt
      BY DEF DedupInv, WindowInv, Expired
    <2>3. entries[winner[f]].expiresAt \in Nat /\ now \in Nat
      BY <2>1, EntryAt DEF DedupInv, TypeOK
    <2>4. QED
      BY <1>1, <2>2, <2>3
  <1>6. QED
    BY <1>2, <1>3, <1>4, <1>5 DEF DedupInv

LEMMA DedupNext == DedupInv /\ [Next]_vars => DedupInv'
  <1> SUFFICES ASSUME DedupInv, [Next]_vars PROVE DedupInv'
    OBVIOUS
  <1>1. CASE UNCHANGED vars
    BY <1>1 DEF vars, callVars, sweepVars, historyVars, DedupInv, TypeOK, EntryInv, Addresses,
                MapInv, WindowInv, FoundInv, Expired, Mine
  <1>2. CASE Tick
    BY <1>2, TickKeepsInv
  <1>3. CASE SweepStart \/ SweepEnd \/ \E f \in Fingerprints : Visit(f)
    BY <1>3, SweepKeepsInv
  <1>4. ASSUME NEW f \in Fingerprints, Delete(f) PROVE DedupInv'
    BY <1>4, DeleteKeepsInv
  <1>5. ASSUME NEW f \in Fingerprints, NEW g \in Callers, Call(g, f) PROVE DedupInv'
    BY <1>5, CallKeepsInv
  <1>6. ASSUME NEW g \in Callers, LoadOrStore(g) \/ CompareAndSwap(g) \/ Return(g) PROVE DedupInv'
    BY <1>6, LoadKeepsInv, SwapKeepsInv, ReturnKeepsInv
  <1>7. QED
    BY <1>1, <1>2, <1>3, <1>4, <1>5, <1>6 DEF Next

(* The inductive invariant of the deduplicator.                            *)
THEOREM DedupInvariant == Spec => []DedupInv
  BY DedupInit, DedupNext, PTL DEF Spec

(* Type correctness, for any number of callers and calls.                  *)
THEOREM DedupTypes == Spec => []TypeOK
  <1>1. DedupInv => TypeOK
    BY DEF DedupInv
  <1>2. QED
    BY <1>1, DedupInvariant, PTL

(* dedup.go:44-46: a duplicate is one of a first occurrence in its TTL.    *)
THEOREM DuplicatesAreOfFirsts == Spec => []DuplicateOfFirst
  <1>1. ASSUME DedupInv PROVE DuplicateOfFirst
    <2> SUFFICES ASSUME NEW g \in Callers, stage[g] = "duplicate"
                 PROVE  /\ actual[g] \in won
                        /\ entries[actual[g]].print = Mine(g).print
                        /\ Mine(g).at < entries[actual[g]].at + TTL
      BY DEF DuplicateOfFirst
    <2>1. /\ actual[g] \in won /\ entries[actual[g]].print = Mine(g).print
          /\ ~(Mine(g).at >= entries[actual[g]].expiresAt)
      BY <1>1 DEF DedupInv, FoundInv, Expired
    <2>2. actual[g] \in Addresses /\ fresh[g] \in Addresses
      BY <1>1, <2>1 DEF DedupInv, TypeOK
    <2>3. Mine(g).at \in Nat /\ entries[actual[g]].expiresAt \in Nat
      BY <1>1, <2>2, EntryAt DEF DedupInv, Mine
    <2>4. entries[actual[g]].expiresAt = entries[actual[g]].at + TTL
      BY <1>1, <2>2 DEF DedupInv, EntryInv
    <2>5. QED
      BY <2>1, <2>3, <2>4
  <1>2. QED
    BY <1>1, DedupInvariant, PTL

(* Who opens a window found the last one over.                             *)
LEMMA InsertAfterExpiry ==
  ASSUME DedupInv, NEW g \in Callers, NEW f \in Fingerprints \ evicted, winner[f] # NoEntry,
         Mine(g).print = f,
         \/ LoadOrStore(g) /\ seen[f] = NoEntry
         \/ CompareAndSwap(g) /\ seen[f] = actual[g]
  PROVE  Expired(winner[f], now)
  <1>1. CASE LoadOrStore(g) /\ seen[f] = NoEntry
    BY <1>1 DEF DedupInv, WindowInv
  <1>2. CASE CompareAndSwap(g) /\ seen[f] = actual[g]
    <2>1. actual[g] # NoEntry /\ Expired(actual[g], Mine(g).at) /\ fresh[g] \in Addresses
      BY <1>2 DEF CompareAndSwap, DedupInv, TypeOK
    <2>2. winner[f] = actual[g] /\ winner[f] \in Addresses
      BY <1>2, <2>1 DEF DedupInv, MapInv, TypeOK
    <2>3. Mine(g).at <= now /\ Mine(g).at \in Nat /\ now \in Nat
      BY <2>1, EntryAt DEF DedupInv, EntryInv, TypeOK, Mine
    <2>4. entries[winner[f]].expiresAt \in Nat
      BY <2>2, EntryAt DEF DedupInv
    <2>5. QED
      BY <2>1, <2>2, <2>3, <2>4 DEF Expired
  <1>3. QED
    BY <1>1, <1>2

LEMMA StepOpensAfterExpiry ==
  ASSUME DedupInv, [Next]_vars, NEW f \in Fingerprints, winner'[f] # winner[f],
         winner[f] # NoEntry, f \notin evicted
  PROVE  Expired(winner[f], now)
  <1>1. PICK g \in Callers : LoadOrStore(g) \/ CompareAndSwap(g)
    BY DEF Next, vars, historyVars, Tick, SweepStart, SweepEnd, Visit, Delete, Call, Return
  <1>2. CASE LoadOrStore(g)
    <2>1. seen[Mine(g).print] = NoEntry
      BY <1>2 DEF LoadOrStore, historyVars
    <2>2. winner' = [winner EXCEPT ![Mine(g).print] = fresh[g]]
      BY <1>2, <2>1 DEF LoadOrStore, Insert
    <2>3. Mine(g).print = f
      BY <2>2 DEF DedupInv, TypeOK
    <2>4. QED
      BY <1>2, <2>1, <2>3, InsertAfterExpiry
  <1>3. CASE CompareAndSwap(g)
    <2>1. seen[Mine(g).print] = actual[g]
      BY <1>3 DEF CompareAndSwap, historyVars
    <2>2. winner' = [winner EXCEPT ![Mine(g).print] = fresh[g]]
      BY <1>3, <2>1 DEF CompareAndSwap, Insert
    <2>3. Mine(g).print = f
      BY <2>2 DEF DedupInv, TypeOK
    <2>4. QED
      BY <1>3, <2>1, <2>3, InsertAfterExpiry
  <1>4. QED
    BY <1>1, <1>2, <1>3

(* dedup.go:44-46: callers agree on one first occurrence per window, but   *)
(* for the windows cleanup has cut short.                                  *)
THEOREM OneFirstPerWindow == Spec => OneFirst
  <1>1. DedupInv /\ [Next]_vars =>
          [\A f \in Fingerprints :
             winner'[f] # winner[f] /\ winner[f] # NoEntry /\ f \notin evicted
               => Expired(winner[f], now)]_vars
    BY StepOpensAfterExpiry
  <1>2. QED
    BY <1>1, DedupInvariant, PTL DEF Spec, OneFirst

-----------------------------------------------------------------------------
(* Without cleanup, nothing but the end of its window takes a key away.    *)
QuietInv == sweepAt = NoTime /\ unvisited = {} /\ doomed = {} /\ sweeps = 0 /\ evicted = {}

LEMMA QuietNext == ASSUME MaxSweeps = 0, QuietInv, [Next]_vars PROVE QuietInv'
  <1>1. ~SweepStart /\ ~SweepEnd /\ \A f \in Fingerprints : ~Visit(f) /\ ~Delete(f)
    BY DEF QuietInv, SweepStart, SweepEnd, Visit, Delete
  <1>2. UNCHANGED sweepVars /\ evicted' \subseteq evicted
    BY <1>1 DEF Next, vars, historyVars, Tick, Call, LoadOrStore, CompareAndSwap, Insert, Return
  <1>3. QED
    BY <1>2 DEF QuietInv, sweepVars

LEMMA LeftRange ==
  ASSUME DedupInv, NEW f \in Fingerprints
  PROVE  /\ Left(f) \in 0 .. TTL
         /\ winner[f] = NoEntry \/ Expired(winner[f], now) => Left(f) = 0
  <1>1. CASE winner[f] = NoEntry \/ Expired(winner[f], now)
    BY <1>1, TTLAssumption DEF Left
  <1>2. CASE winner[f] # NoEntry /\ ~Expired(winner[f], now)
    <2>1. winner[f] \in Addresses /\ now \in Nat
      BY <1>2 DEF DedupInv, TypeOK
    <2>2. /\ entries[winner[f]].at \in Nat /\ entries[winner[f]].at <= now
          /\ entries[winner[f]].expiresAt = entries[winner[f]].at + TTL
      BY <2>1, EntryAt DEF DedupInv, EntryInv
    <2>3. QED
      BY <1>2, <2>1, <2>2, TTLAssumption DEF Left, Expired
  <1>3. QED
    BY <1>1, <1>2

(* A minute passes for every window.                                       *)
LEMMA TickIsMinute ==
  ASSUME DedupInv, Tick, NEW f \in Fingerprints
  PROVE  Left(f)' = IF Left(f) > 0 THEN Left(f) - 1 ELSE 0
  <1>1. now' = now + 1 /\ now \in Nat /\ entries' = entries /\ winner' = winner
    BY DEF Tick, historyVars, DedupInv, TypeOK
  <1>2. CASE winner[f] = NoEntry
    BY <1>1, <1>2 DEF Left
  <1>3. CASE winner[f] # NoEntry
    <2>1. entries[winner[f]].expiresAt \in Nat
      BY <1>3, EntryAt DEF DedupInv, TypeOK
    <2>2. QED
      BY <1>1, <1>3, <2>1 DEF Left, Expired
  <1>4. QED
    BY <1>2, <1>3

(* An insertion opens a window; no other step of a caller touches one.     *)
LEMMA CallerOpens ==
  ASSUME DedupInv, DedupInv', QuietInv, NEW g \in Callers, LoadOrStore(g) \/ CompareAndSwap(g)
  PROVE  \/ \A f \in Fingerprints : Left(f)' = Left(f)
         \/ \E k \in Fingerprints :
              /\ Left(k) = 0 /\ Left(k)' \in 0 .. TTL
              /\ \A f \in Fingerprints \ {k} : Left(f)' = Left(f)
  <1>1. entries' = entries /\ now' = now
    BY DEF LoadOrStore, CompareAndSwap
  <1>2. CASE winner' = winner
    BY <1>1, <1>2 DEF Left, Expired
  <1>3. CASE winner' # winner
    <2>1. PICK k \in Fingerprints : k = Mine(g).print
      <3>1. fresh[g] \in Addresses
        BY DEF LoadOrStore, CompareAndSwap, DedupInv, TypeOK
      <3>2. QED
        BY <3>1, EntryAt DEF DedupInv, Mine
    <2>2. \/ LoadOrStore(g) /\ seen[k] = NoEntry /\ Insert(g)
          \/ CompareAndSwap(g) /\ seen[k] = actual[g] /\ Insert(g)
      BY <1>3, <2>1 DEF LoadOrStore, CompareAndSwap, historyVars
    <2>3. winner' = [winner EXCEPT ![k] = fresh[g]]
      BY <2>2, <2>1 DEF Insert
    <2>4. winner[k] = NoEntry \/ Expired(winner[k], now)
      BY <2>2, <2>1, InsertAfterExpiry DEF QuietInv
    <2>5. Left(k) = 0
      BY <2>1, <2>4, LeftRange
    <2>6. Left(k)' \in 0 .. TTL
      <3>1. winner'[k] = fresh[g] /\ fresh[g] \in Addresses /\ fresh[g] # NoEntry /\ now \in Nat
        BY <2>2, <2>1, <2>3 DEF LoadOrStore, CompareAndSwap, DedupInv, TypeOK
      <3>2. /\ entries[fresh[g]].at \in Nat /\ entries[fresh[g]].at <= now
            /\ entries[fresh[g]].expiresAt = entries[fresh[g]].at + TTL
        BY <3>1, EntryAt DEF DedupInv, EntryInv
      <3>3. QED
        BY <1>1, <3>1, <3>2, TTLAssumption DEF Left, Expired
    <2>7. \A f \in Fingerprints \ {k} : Left(f)' = Left(f)
      BY <1>1, <2>1, <2>3 DEF DedupInv, TypeOK, Left, Expired
    <2>8. QED
      BY <2>1, <2>5, <2>6, <2>7
  <1>4. QED
    BY <1>2, <1>3

LEMMA CallOpensNothing ==
  ASSUME DedupInv, NEW g \in Callers, NEW k \in Fingerprints, Call(g, k), NEW f \in Fingerprints
  PROVE  Left(f)' = Left(f)
  <1>1. now' = now /\ winner' = winner
    BY DEF Call, historyVars
  <1>2. CASE winner[f] = NoEntry
    BY <1>1, <1>2 DEF Left
  <1>3. CASE winner[f] # NoEntry
    <2>1. winner[f] \in 1 .. Len(entries) /\ entries \in Seq(Entry)
      BY <1>3 DEF DedupInv, TypeOK, Addresses
    <2>2. entries'[winner[f]] = entries[winner[f]]
      BY <2>1 DEF Call
    <2>3. QED
      BY <1>1, <2>2 DEF Left, Expired
  <1>4. QED
    BY <1>2, <1>3

(* dedup.go:44-46 in full: where no sweep runs, the deduplicator keeps its *)
(* contract; run deduplicator_v1 shows that one sweep is enough to break it.*)
THEOREM ContractWithoutCleanup == ASSUME MaxSweeps = 0 PROVE Spec => KeepsDedupContract
  <1> DEFINE L == [f \in Fingerprints |-> Left(f)]
  <1>1. Init => QuietInv /\ L = [f \in Fingerprints |-> 0]
    BY DEF Init, QuietInv, Left
  <1>2. Init => Contract!ContractInit
    BY <1>1 DEF Contract!ContractInit
  <1>3. ASSUME DedupInv, DedupInv', QuietInv, [Next]_vars
        PROVE  [Contract!ContractNext]_L
    <2>1. CASE \A f \in Fingerprints : Left(f)' = Left(f)
      BY <2>1
    <2>2. CASE Tick
      <3>1. L' = [f \in Fingerprints |-> IF L[f] > 0 THEN L[f] - 1 ELSE 0]
        BY <1>3, <2>2, TickIsMinute
      <3>2. QED
        BY <3>1 DEF Contract!ContractNext, Contract!Minute
    <2>3. ASSUME NEW g \in Callers, LoadOrStore(g) \/ CompareAndSwap(g)
          PROVE  [Contract!ContractNext]_L
      <3>1. CASE \E k \in Fingerprints :
                   /\ Left(k) = 0 /\ Left(k)' \in 0 .. TTL
                   /\ \A f \in Fingerprints \ {k} : Left(f)' = Left(f)
        <4>1. PICK k \in Fingerprints :
                   /\ Left(k) = 0 /\ Left(k)' \in 0 .. TTL
                   /\ \A f \in Fingerprints \ {k} : Left(f)' = Left(f)
          BY <3>1
        <4>2. L[k] = 0 /\ L' = [L EXCEPT ![k] = Left(k)']
          BY <4>1
        <4>3. QED
          BY <4>1, <4>2 DEF Contract!ContractNext, Contract!First
      <3>2. QED
        BY <1>3, <2>1, <2>3, <3>1, CallerOpens
    <2>4. ASSUME NEW g \in Callers, NEW k \in Fingerprints, Call(g, k)
          PROVE  [Contract!ContractNext]_L
      BY <1>3, <2>1, <2>4, CallOpensNothing
    <2>5. ASSUME NEW g \in Callers, Return(g) PROVE [Contract!ContractNext]_L
      BY <2>1, <2>5 DEF Return, historyVars, Left, Expired
    <2>6. CASE UNCHANGED vars
      BY <2>1, <2>6 DEF vars, historyVars, Left, Expired
    <2>7. ~SweepStart /\ ~SweepEnd /\ \A f \in Fingerprints : ~Visit(f) /\ ~Delete(f)
      BY <1>3 DEF QuietInv, SweepStart, SweepEnd, Visit, Delete
    <2>8. QED
      BY <1>3, <2>2, <2>3, <2>4, <2>5, <2>6, <2>7 DEF Next
  <1>4. Spec => []QuietInv
    BY <1>1, QuietNext, PTL DEF Spec
  <1>5. Spec => []DedupInv
    BY DedupInvariant
  <1>6. QED
    BY <1>2, <1>3, <1>4, <1>5, PTL DEF Spec, KeepsDedupContract, Contract!ContractSpec

=============================================================================
