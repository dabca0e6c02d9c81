---------------------------- MODULE LruCacheSpec ----------------------------
(***************************************************************************)
(* The LRU cache of lru.hpp driven by arbitrary reads and writes, shown to *)
(* implement the abstract write-back LRU cache of LruStack: the recency    *)
(* order of the valid ways maps to the abstract stack, and the value read  *)
(* and write return maps to the abstract output.                           *)
(***************************************************************************)
EXTENDS LruCache, FiniteSets

CONSTANTS
  Addrs      \* the line addresses accessed (hex addresses, column bits reset)

ASSUME Addrs \subseteq Nat

VARIABLES
  cache,     \* the LRUCache
  wb         \* the value the last read or write returned

vars == <<cache, wb>>

Init ==
  /\ cache = InitCache
  /\ wb = NoWriteback

\* LRUCache::read(addr, set) and LRUCache::write(addr, set); the set
\* argument is the address itself (RemoveColBits of the same hex address)
Read(addr) ==
  /\ cache' = LruRead(cache, addr, addr).cache
  /\ wb' = LruRead(cache, addr, addr).wb

Write(addr) ==
  /\ cache' = LruWrite(cache, addr, addr).cache
  /\ wb' = LruWrite(cache, addr, addr).wb

Next == \E a \in Addrs : Read(a) \/ Write(a)

Spec == Init /\ [][Next]_vars

Entry == [addr : Addrs \cup {0}, valid : BOOLEAN, dirty : BOOLEAN]

TypeOK ==
  /\ cache \in [SetIds -> [way : [WayIds -> Entry], order : Seq(WayIds)]]
  /\ \A s \in SetIds : /\ Len(cache[s].order) <= RccWays
                       /\ IsInjective(cache[s].order)
  /\ wb \in Addrs \cup {NoWriteback}

\* Refinement mapping: the valid ways of a set in recency order
Lines(s) == [i \in 1..Len(cache[s].order) |->
               [addr |-> cache[s].way[cache[s].order[i]].addr,
                dirty |-> cache[s].way[cache[s].order[i]].dirty]]

Abstract == INSTANCE LruStack
              WITH Sets <- RccSets, Ways <- RccWays, HitOut <- Hit, NoWbOut <- NoWriteback,
                   lines <- [s \in SetIds |-> Lines(s)], out <- wb

(* LRUCache implements a write-back LRU cache (spec §9): find_victim's     *)
(* invalid-first then oldest-last_access choice and the re-stamping on     *)
(* every hit keep each set's RccWays most recently used lines; a write     *)
(* hit keeps the line dirty, and read/write return the evicted line's      *)
(* address exactly when it was dirty.                                      *)
LruRefines == Abstract!Spec

=============================================================================
