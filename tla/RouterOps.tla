------------------------------- MODULE RouterOps -------------------------------
(***************************************************************************)
(* DeterministicHashRouter (src/src/router.py), as operators.  A worker is *)
(* its position in the list of workers; hash[key] is the number that the   *)
(* SHA-256 of the key gives.                                               *)
(***************************************************************************)
EXTENDS CommandOps

\* _extract_key_from_request
KeyOf(cmd) == IF cmd.op \in {"SET", "GET", "DEL", "EXPIRE", "TTL"}
              THEN cmd.key ELSE None

\* route_key
RouteKey(hash, key, count) == hash[key] % count

\* route_request: what names no key goes to the first worker.
RouteRequest(hash, cmd, count) ==
  IF KeyOf(cmd) = None THEN 0 ELSE RouteKey(hash, KeyOf(cmd), count)

=============================================================================
