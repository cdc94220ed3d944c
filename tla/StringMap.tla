------------------------------ MODULE StringMap ------------------------------
(***************************************************************************)
(* What strmap.h promises: a map from keys to values.  Setting a key that  *)
(* exists overwrites its value; deleting a key that does not exist changes *)
(* nothing.                                                                *)
(***************************************************************************)
CONSTANTS
    Keys,
    Values,
    None        \* the value of a key that is not in the map

VARIABLE entries    \* entries[k]: the value of k, or None

Empty == [k \in Keys |-> None]

MapInit == entries = Empty

MapSet(k, v) == entries' = [entries EXCEPT ![k] = v]

MapUnset(k) == entries' = [entries EXCEPT ![k] = None]

MapClear == entries' = Empty

MapNext ==
    \/ \E k \in Keys, v \in Values : MapSet(k, v)
    \/ \E k \in Keys : MapUnset(k)
    \/ MapClear

MapSpec == MapInit /\ [][MapNext]_entries
=============================================================================
