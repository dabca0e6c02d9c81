------------------------------ MODULE LruCache ------------------------------
(***************************************************************************)
(* The set-associative LRU cache of src/DRAMsim3/src/lru.hpp (class        *)
(* LRUCache), which Hydra uses as its row-counter cache (RCC).             *)
(*                                                                         *)
(* A cache is a function from set index to a record [way, order]:          *)
(*   way[i]  the CacheEntry of way i: [addr, valid, dirty];                *)
(*   order   the valid ways from least to most recently used.              *)
(* The code stamps every access with access_count++ and compares the       *)
(* stamps of one set only (find_victim), so their order is all that        *)
(* matters: order replaces last_access and the unbounded access_count.     *)
(* Addresses are integers, as in the code: read and write return 0 on a    *)
(* hit, -1 on a miss that evicts nothing dirty, and otherwise the address  *)
(* of the dirty line evicted.                                              *)
(***************************************************************************)
EXTENDS Integers, Sequences, SequencesExt

CONSTANTS
  RccSets,   \* sets (hydra_rcc_sets)
  RccWays    \* ways (hydra_rcc_ways)

ASSUME RccSets \in Nat \ {0} /\ RccWays \in Nat \ {0}

SetIds == 0..(RccSets - 1)
WayIds == 0..(RccWays - 1)

NoWriteback == -1
Hit == 0

\* LRUCache::update_size: sets * ways value-initialised (invalid) entries
InitCache ==
  [s \in SetIds |-> [way |-> [i \in WayIds |-> [addr |-> 0, valid |-> FALSE, dirty |-> FALSE]],
                     order |-> <<>>]]

\* LRUCache::get_index
GetIndex(set) == set % RccSets

\* The first way of set cs that holds addr validly, or -1
HitWay(cs, addr) ==
  IF \E i \in WayIds : cs.way[i].valid /\ cs.way[i].addr = addr
  THEN CHOOSE i \in WayIds : /\ cs.way[i].valid /\ cs.way[i].addr = addr
                             /\ \A j \in 0..(i - 1) : ~(cs.way[j].valid /\ cs.way[j].addr = addr)
  ELSE -1

\* Mutation: find_victim takes the most recently used way.
FindVictimMru(cs) ==
  IF \E i \in WayIds : ~cs.way[i].valid
  THEN CHOOSE i \in WayIds : ~cs.way[i].valid /\ \A j \in 0..(i - 1) : cs.way[j].valid
  ELSE cs.order[Len(cs.order)]

\* LRUCache::find_victim: the first invalid way, else the least recently used
FindVictim(cs) ==
  IF \E i \in WayIds : ~cs.way[i].valid
  THEN CHOOSE i \in WayIds : ~cs.way[i].valid /\ \A j \in 0..(i - 1) : cs.way[j].valid
  ELSE cs.order[1]

\* Mutation: the stamp is added without retiring the way's old one.
TouchAppendOnly(cs, i) == [cs EXCEPT !.order = Append(@, i)]

\* Stamping way i with access_count++: it becomes the most recently used
Touch(cs, i) == [cs EXCEPT !.order = Append(SelectSeq(@, LAMBDA w : w # i), i)]

(***************************************************************************)
(* LRUCache::read and LRUCache::write.  A miss takes the victim's place;   *)
(* a valid dirty victim is written back (writeback() only invalidates it   *)
(* before it is overwritten) and its address returned.  read installs the  *)
(* line clean, write dirty; a write hit marks the line dirty.  Result:     *)
(* [cache, wb, dirtyEvict]; dirtyEvict (auxiliary) tells whether a dirty   *)
(* line was evicted, which wb alone does not when that line's address is 0.*)
(***************************************************************************)
\* A hit on way h of set s
AccessHit(c, s, h, dirty) ==
  [cache |-> [c EXCEPT ![s] = Touch([@ EXCEPT !.way[h].dirty = @ \/ dirty], h)],
   wb |-> Hit, dirtyEvict |-> FALSE]

\* A miss that replaces victim way v of set s
AccessMiss(c, s, v, addr, dirty) ==
  [cache |-> [c EXCEPT ![s] = Touch([@ EXCEPT !.way[v] =
                 [addr |-> addr, valid |-> TRUE, dirty |-> dirty]], v)],
   wb |-> IF c[s].way[v].valid /\ c[s].way[v].dirty THEN c[s].way[v].addr ELSE NoWriteback,
   dirtyEvict |-> c[s].way[v].valid /\ c[s].way[v].dirty]

AccessSet(c, s, addr, dirty) ==
  IF HitWay(c[s], addr) # -1 THEN AccessHit(c, s, HitWay(c[s], addr), dirty)
  ELSE AccessMiss(c, s, FindVictim(c[s]), addr, dirty)

Access(c, addr, set, dirty) == AccessSet(c, GetIndex(set), addr, dirty)

LruRead(c, addr, set) == Access(c, addr, set, FALSE)

LruWrite(c, addr, set) == Access(c, addr, set, TRUE)

=============================================================================
