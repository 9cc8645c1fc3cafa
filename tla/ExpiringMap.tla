---------------------------- MODULE ExpiringMap ----------------------------
(***************************************************************************)
(* What a user of the LRU cache can count on: a lookup finds the value of  *)
(* the last insert of that key, or nothing.  An entry can be lost at any   *)
(* step, and nothing else can happen to it.                                *)
(***************************************************************************)
CONSTANTS Keys, Values, None

VARIABLE map   \* key -> value, or None

Init == map = [k \in Keys |-> None]

KeepsOrLoses(S) == \A k \in S : map'[k] \in {map[k], None}

Put(k, v) ==
    /\ map' \in [Keys -> Values \cup {None}]
    /\ map'[k] = v
    /\ KeepsOrLoses(Keys \ {k})

Lose ==
    /\ map' \in [Keys -> Values \cup {None}]
    /\ KeepsOrLoses(Keys)

Next == Lose \/ \E k \in Keys, v \in Values : Put(k, v)

Spec == Init /\ [][Next]_map
=============================================================================
