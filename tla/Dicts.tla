-------------------------------- MODULE Dicts --------------------------------
(* Python dictionaries: functions whose domain is the set of keys present. *)
EXTENDS Functions

IsDict(d, K)  == DOMAIN d \subseteq K /\ d = [k \in DOMAIN d |-> d[k]]
EmptyDict     == [k \in {} |-> k]
Put(d, k, v)  == [x \in DOMAIN d \cup {k} |-> IF x = k THEN v ELSE d[x]]
Drop(d, S)    == Restrict(d, DOMAIN d \ S)

\* d.get(k, default)
Lookup(d, k, default) == IF k \in DOMAIN d THEN d[k] ELSE default

=============================================================================
