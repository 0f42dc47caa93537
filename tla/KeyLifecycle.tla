---------------------------- MODULE KeyLifecycle ----------------------------
(***************************************************************************)
(* What the API-key store promises about one key, whatever the requests    *)
(* in flight do: a key is minted once, its stored status moves one way,    *)
(* active -> revoked or active -> expired (maas-api api_keys/types.go),    *)
(* and a key that has been deleted never comes back under the same id.     *)
(***************************************************************************)
CONSTANT Ids        \* key ids (UUIDs)

VARIABLE state      \* state[id]: where the key is in its life

Life == {"unborn", "active", "revoked", "expired", "deleted"}

Init == state = [id \in Ids |-> "unborn"]

\* One key, one step; several keys may move together (bulk revoke, cleanup).
Moves(from, to) ==
    \/ to = from
    \/ from = "unborn" /\ to = "active"
    \/ from = "active" /\ to \in {"revoked", "expired"}
    \/ from \in {"active", "revoked", "expired"} /\ to = "deleted"

Next ==
    /\ state' \in [Ids -> Life]
    /\ \A id \in Ids : Moves(state[id], state'[id])

Spec == Init /\ [][Next]_state
=============================================================================
