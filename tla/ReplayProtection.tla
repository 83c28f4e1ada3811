------------------------- MODULE ReplayProtection -------------------------
(***************************************************************************)
(* What the replay guard promises, with none of its bookkeeping: an        *)
(* authorization key is held by at most one operation at a time, nobody    *)
(* else obtains it while it is held, and an operation that ends with an    *)
(* uncertain or completed outcome keeps the key unobtainable for Ttl more  *)
(* instants.  There is no table, no generation, no expiry index, no sweep  *)
(* and no lock here.  NonceGuard implements this specification.            *)
(***************************************************************************)
EXTENDS Naturals

CONSTANTS Keys,       \* authorization identities
          Ops,        \* operations that may hold a key
          None,       \* "no key"
          Ttl,        \* retention after an operation ends
          MaxInstant  \* the last representable instant

VARIABLES clock,      \* the current instant
          holding,    \* holding[o]: the key that operation o holds, or None
          until       \* until[k]: the instant from which k may be taken again

vars == <<clock, holding, until>>

(* A deadline past the last representable instant never comes.             *)
Deadline(t) == IF t + Ttl <= MaxInstant THEN t + Ttl ELSE MaxInstant + 1

Unprotected(k) == until[k] <= clock /\ \A o \in Ops : holding[o] # k

Init == /\ clock = 0
        /\ holding = [o \in Ops |-> None]
        /\ until = [k \in Keys |-> 0]

Tick == /\ clock < MaxInstant
        /\ clock' = clock + 1
        /\ UNCHANGED <<holding, until>>

Reserve(o, k) == /\ holding[o] = None
                 /\ Unprotected(k)
                 /\ holding' = [holding EXCEPT ![o] = k]
                 /\ UNCHANGED <<clock, until>>

Release(o) == /\ holding[o] # None
              /\ holding' = [holding EXCEPT ![o] = None]
              /\ UNCHANGED <<clock, until>>

Retain(o) == /\ holding[o] # None
             /\ holding' = [holding EXCEPT ![o] = None]
             /\ until' = [until EXCEPT ![holding[o]] = Deadline(clock)]
             /\ UNCHANGED clock

Reset == /\ holding' = [o \in Ops |-> None]
         /\ until' = [k \in Keys |-> 0]
         /\ UNCHANGED clock

Next == \/ Tick
        \/ Reset
        \/ \E o \in Ops : \/ Release(o)
                          \/ Retain(o)
                          \/ \E k \in Keys : Reserve(o, k)

Spec == Init /\ [][Next]_vars
===========================================================================
