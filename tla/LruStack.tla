----------------------------- MODULE LruStack -----------------------------
(***************************************************************************)
(* What the Hydra RCC promises (spec §9): a set-associative write-back     *)
(* cache with least-recently-used replacement.  Each set is a stack of at  *)
(* most Ways lines, least recently used first, each with its dirty bit.    *)
(* out is what the last access returned to the caller, in the encoding of  *)
(* lru.hpp: HitOut on a hit, NoWbOut on a miss that writes nothing back,   *)
(* and otherwise the address of the dirty line evicted.                    *)
(***************************************************************************)
EXTENDS Integers, Sequences

CONSTANTS Sets, Ways, Addrs, HitOut, NoWbOut

VARIABLES lines, out

\* The set an address maps to
SetOf(a) == a % Sets

Present(st, a) == \E i \in 1..Len(st) : st[i].addr = a

Without(st, a) == SelectSeq(st, LAMBDA l : l.addr # a)

DirtyIn(st, a) == \E i \in 1..Len(st) : st[i].addr = a /\ st[i].dirty

\* An access to a: a hit moves the line to the top (a write marks it dirty);
\* a miss in a full set evicts the bottom line, written back if dirty.
Access(a, dirty) ==
  /\ lines' = [lines EXCEPT ![SetOf(a)] =
                 IF Present(@, a)
                 THEN Append(Without(@, a), [addr |-> a, dirty |-> dirty \/ DirtyIn(@, a)])
                 ELSE Append(IF Len(@) = Ways THEN Tail(@) ELSE @, [addr |-> a, dirty |-> dirty])]
  /\ out' = CASE Present(lines[SetOf(a)], a)     -> HitOut
              [] Len(lines[SetOf(a)]) = Ways
                 /\ Head(lines[SetOf(a)]).dirty  -> Head(lines[SetOf(a)]).addr
              [] OTHER                           -> NoWbOut

Init ==
  /\ lines = [s \in 0..(Sets - 1) |-> <<>>]
  /\ out = NoWbOut

Next == \E a \in Addrs : Access(a, FALSE) \/ Access(a, TRUE)

Spec == Init /\ [][Next]_<<lines, out>>

=============================================================================
