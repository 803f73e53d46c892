----------------------------- MODULE FiniteMap -----------------------------
(***************************************************************************)
(* What a silk.hash_map promises its caller: a finite map from keys to     *)
(* values it owns.  Values are told apart, so that `hands', the values in  *)
(* the hands of the caller, shows who owns each of them: an insert takes   *)
(* one and gives back the one it replaces, a remove gives one back.        *)
(***************************************************************************)
CONSTANTS Key, Value

VARIABLES dict, hands

Init ==
    /\ dict = [k \in {} |-> {}]
    /\ hands = Value

(* An insert under a new key, and one that replaces the value of a key. *)
Insert(k, v) ==
    /\ v \in hands
    /\ dict' = [j \in DOMAIN dict \cup {k} |-> IF j = k THEN v ELSE dict[j]]
    /\ hands' = (hands \ {v}) \cup (IF k \in DOMAIN dict THEN {dict[k]} ELSE {})

(* Only an insert that would add an entry can fail; it keeps every entry *)
(* and releases the value it was given.                                   *)
Refuse(k, v) ==
    /\ v \in hands
    /\ k \notin DOMAIN dict
    /\ hands' = hands \ {v}
    /\ UNCHANGED dict

Remove(k) ==
    /\ k \in DOMAIN dict
    /\ dict' = [j \in DOMAIN dict \ {k} |-> dict[j]]
    /\ hands' = hands \cup {dict[k]}

(* The map is dropped and releases what it still owns. *)
Release ==
    /\ dict' = [k \in {} |-> {}]
    /\ UNCHANGED hands

Next ==
    \/ \E k \in Key, v \in Value : Insert(k, v) \/ Refuse(k, v)
    \/ \E k \in Key : Remove(k)
    \/ Release

Spec == Init /\ [][Next]_<<dict, hands>>
=============================================================================
