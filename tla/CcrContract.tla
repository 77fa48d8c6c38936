---------------------------- MODULE CcrContract ----------------------------
(***************************************************************************)
(* What the compressed-content store of headroom promises to the markers   *)
(* it hands out, whatever indexes it keeps (cache/compression_store.py).   *)
(* Each key is held until it expires, and leaves earlier only when a new   *)
(* key needs its room: then the oldest live keys leave, and no more of     *)
(* them than the room needs.  A restart carries the exported entries over  *)
(* with the expiry they had.                                               *)
(***************************************************************************)
EXTENDS Integers, FiniteSets

CONSTANTS
  Keys,         \* hashes a marker can carry
  MaxEntries,   \* entries the store is asked to keep
  NoEntry       \* no entry is held for the key

VARIABLES
  now,          \* the clock
  held,         \* key -> [created, expires] while a marker for it resolves
  saved         \* key -> the expiry written by the last shutdown, or NoEntry

vars == <<now, held, saved>>

Holds(k) == held[k] # NoEntry
Live == {k \in Keys : Holds(k)}

Init ==
  /\ now \in Nat
  /\ held = [k \in Keys |-> NoEntry]
  /\ saved = [k \in Keys |-> NoEntry]

(***************************************************************************)
(* Hold e under k, and make room for it by dropping the victims: nobody    *)
(* when k is held already, and else the oldest, one room at most.          *)
(***************************************************************************)
Keep(k, e, victims) ==
  /\ Holds(k) => victims = {}
  /\ victims # {} => Cardinality(Live) - Cardinality(victims) >= MaxEntries - 1
  /\ \A v \in victims, s \in Live \ victims : held[v].created < held[s].created
  /\ held' = [j \in Keys |-> IF j = k THEN e ELSE IF j \in victims THEN NoEntry ELSE held[j]]

Put(k) ==
  /\ \E victims \in SUBSET (Live \ {k}) : Keep(k, held'[k], victims)
  /\ UNCHANGED <<now, saved>>

\* The entry of a restart comes back with the expiry it had.
Restore(k) ==
  /\ saved[k] # NoEntry
  /\ \E victims \in SUBSET (Live \ {k}) :
       Keep(k, [created |-> now, expires |-> saved[k]], victims)
  /\ saved' = [saved EXCEPT ![k] = NoEntry]
  /\ UNCHANGED now

\* Only an entry whose time is over is not brought back.
GiveUp(k) ==
  /\ saved[k] # NoEntry
  /\ saved[k] <= now
  /\ saved' = [saved EXCEPT ![k] = NoEntry]
  /\ UNCHANGED <<now, held>>

\* The clock moves on and what it passes is no longer held.
Tick ==
  /\ now' = now + 1
  /\ held' = [k \in Keys |-> IF k \in Live /\ held[k].expires >= now' THEN held[k] ELSE NoEntry]
  /\ UNCHANGED saved

Clear ==
  /\ held' = [k \in Keys |-> NoEntry]
  /\ UNCHANGED <<now, saved>>

\* A shutdown writes some of the entries (those a saved conversation names).
Restart ==
  /\ held' = [k \in Keys |-> NoEntry]
  /\ \A k \in Keys : saved'[k] # NoEntry => k \in Live /\ saved'[k] = held[k].expires
  /\ UNCHANGED now

Next ==
  \/ \E k \in Keys : Put(k) \/ Restore(k) \/ GiveUp(k)
  \/ Tick
  \/ Clear
  \/ Restart

Spec == Init /\ [][Next]_vars

=============================================================================
