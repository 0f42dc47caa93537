------------------------------ MODULE ApiKeys ------------------------------
(***************************************************************************)
(* The API-key subsystem of maas-api: the api_keys table, the requests     *)
(* that read and write it, the goroutines that record the last use of a    *)
(* key, and the cleanup job.  Each SQL statement is one atomic step; the   *)
(* handlers run several of them, and everything interleaves.               *)
(*                                                                         *)
(* Abstracted: key text, hash, names and descriptions (a client holding a  *)
(* key is a client knowing its id), logging, JSON.  Which subscription a   *)
(* user gets is the business of SubscriptionSelector; here it is a choice. *)
(***************************************************************************)
EXTENDS Naturals, FiniteSets

CONSTANTS
    Ids,            \* ids uuid.New can return
    NoId,           \* a request whose key has no id yet
    Users,          \* usernames
    Admins,         \* users whose SubjectAccessReview is allowed
    Subs,           \* MaaSSubscription names
    Threads,        \* concurrent requests to maas-api
    Durations,      \* values of expiresIn a client may send
    MaxRegular,     \* APIKeyMaxExpirationDays, in clock units
    MaxEphemeral,   \* one hour, in clock units
    Grace,          \* 30 minutes, in clock units
    MintHorizon,    \* bound: no key is minted later than this
    MaxTime,        \* bound: the clock stops here
    MaxTouch        \* bound: last-used goroutines alive at once

ASSUME ConstantsAssumption ==
    /\ Ids # {} /\ Users # {} /\ Subs # {} /\ Threads # {}
    /\ NoId \notin Ids
    /\ Admins \subseteq Users
    /\ Durations \subseteq Nat
    /\ MaxRegular \in Nat \ {0}
    /\ MaxEphemeral \in Nat \ {0}
    /\ Grace \in Nat
    /\ MintHorizon \in Nat
    /\ MaxTime \in Nat
    /\ MaxTouch \in Nat

VARIABLES
    now,        \* the clock (maas-api and PostgreSQL agree on it)
    stored,     \* ids that have a row in api_keys
    row,        \* row[id]: the columns of that row
    minted,     \* ids ever inserted (a UUID is never drawn twice)
    req,        \* req[t]: the request thread t is serving, or served last
    touch,      \* UpdateLastUsed goroutines not finished yet
    revokedBy   \* history: users whose request made the key revoked

vars == <<now, stored, row, minted, req, touch, revokedBy>>
-----------------------------------------------------------------------------
(* The table. *)

Status == {"active", "revoked", "expired"}

\* Time 0 is before every request: it stands for a NULL last_used_at.
Row == [username: Users, subscription: Subs, status: Status,
        created_at: Nat, expires_at: Nat, ephemeral: BOOLEAN,
        last_used_at: Nat]

\* Faulty: a key counts as expired at the instant of its expiry.
EffectiveStatusInclusive(id) ==
    IF row[id].status = "active" /\ row[id].expires_at <= now
    THEN "expired" ELSE row[id].status

\* SQL: CASE WHEN status = 'active' AND expires_at < NOW() THEN 'expired' ...
EffectiveStatus(id) ==
    IF row[id].status = "active" /\ row[id].expires_at < now
    THEN "expired" ELSE row[id].status

\* Faulty: the UPDATE lacks AND status = 'active'.
SetStatusUnguarded(ids, new) ==
    [id \in Ids |-> IF id \in ids \cap stored
                    THEN [row[id] EXCEPT !.status = new] ELSE row[id]]

\* Faulty: a status the column does not know.
SetStatusUnknown(ids, new) ==
    [id \in Ids |-> IF id \in ids \cap stored /\ row[id].status = "active"
                    THEN [row[id] EXCEPT !.status = "inactive"] ELSE row[id]]

\* UPDATE api_keys SET status = new WHERE id \in ids AND status = 'active'
SetStatus(ids, new) ==
    [id \in Ids |-> IF id \in ids \cap stored /\ row[id].status = "active"
                    THEN [row[id] EXCEPT !.status = new] ELSE row[id]]

RowsHit(ids) == {id \in ids \cap stored : row[id].status = "active"}
-----------------------------------------------------------------------------
(* Requests.  A request that fails, or whose answer no property reads,     *)
(* leaves its thread idle.  "began" is the clock when a validation arrived *)
(* and "stale" whether its key had been revoked by then (both history).    *)

\* A row that is not there yet.
Blank == [username |-> CHOOSE u \in Users : TRUE,
          subscription |-> CHOOSE s \in Subs : TRUE,
          status |-> "active", created_at |-> 0, expires_at |-> 0,
          ephemeral |-> FALSE, last_used_at |-> 0]

Request ==
    [pc: {"idle", "insert", "check", "valid", "revoke", "reread", "revoked"},
     user: Users, id: Ids \cup {NoId}, snap: Row, began: Nat, stale: BOOLEAN,
     seen: Status]

Idle == [pc |-> "idle", user |-> CHOOSE u \in Users : TRUE, id |-> NoId,
         snap |-> Blank, began |-> 0, stale |-> FALSE, seen |-> "active"]

\* The thread has nothing to do: it never had, or its answer is out.
Free(t) == req[t].pc \in {"idle", "valid", "revoked"}

Fail(t) == req' = [req EXCEPT ![t] = Idle]

\* handler.isAuthorizedForKey; the SubjectAccessReview of an admin may fail,
\* and then IsAdmin answers false.
MayActFor(u, owner) == u = owner \/ u \in Admins
-----------------------------------------------------------------------------
(* Service.CreateAPIKey, then PostgresStore.AddKey. *)

MaxLifetime(ephemeral) == IF ephemeral THEN MaxEphemeral ELSE MaxRegular

\* An omitted expiresIn (<<>>) takes the maximum of its kind of key.
Lifetime(expiresIn, ephemeral) ==
    IF expiresIn = <<>> THEN MaxLifetime(ephemeral) ELSE expiresIn[1]

\* Faulty: the maximum is not enforced.
LifetimeUncapped(d, ephemeral) == d > 0

LifetimeOK(d, ephemeral) == d > 0 /\ d <= MaxLifetime(ephemeral)

\* expiresAt is fixed here, before the subscription is selected and the row
\* is inserted.
CreateAPIKey(t, u, expiresIn, ephemeral, named) ==
    LET d == Lifetime(expiresIn, ephemeral) IN
    /\ Free(t)
    /\ now <= MintHorizon
    /\ named \/ ephemeral
    /\ LifetimeOK(d, ephemeral)
    /\ \E s \in Subs :
         req' = [req EXCEPT ![t] =
                  [Idle EXCEPT !.pc = "insert", !.snap =
                    [Blank EXCEPT !.username = u, !.subscription = s,
                                  !.expires_at = now + d, !.ephemeral = ephemeral]]]
    /\ UNCHANGED <<now, stored, row, minted, touch, revokedBy>>

\* The id is fresh (uuid.New).  The INSERT may fail.
AddKey(t) ==
    /\ req[t].pc = "insert"
    /\ Fail(t)
    /\ \/ \E id \in Ids \ minted :
            /\ stored' = stored \cup {id}
            /\ row' = [row EXCEPT ![id] = [req[t].snap EXCEPT !.created_at = now]]
            /\ minted' = minted \cup {id}
       \/ UNCHANGED <<stored, row, minted>>
    /\ UNCHANGED <<now, touch, revokedBy>>
-----------------------------------------------------------------------------
(* Service.ValidateAPIKey, called by Authorino. *)

\* GetByHash: the SELECT.  A malformed key or an unknown hash ends here.
ValidateAPIKey(t, id) ==
    /\ Free(t)
    /\ id \in stored
    /\ req' = [req EXCEPT ![t] =
                [Idle EXCEPT !.pc = "check", !.id = id, !.snap = row[id],
                             !.began = now, !.stale = revokedBy[id] # {}]]
    /\ UNCHANGED <<now, stored, row, minted, touch, revokedBy>>

\* Faulty: the status column is not looked at.
KeyUnexpired(r, t) == ~(t > r.expires_at)

\* What GetByHash lets through, at time t on the row it read.
KeyGood(r, t) == r.status = "active" /\ ~(t > r.expires_at)

\* GetByHash after the SELECT: the clock is read, an active key that has run
\* out is marked expired (a failed UPDATE is only logged), and the key is
\* rejected.  The clock only grows, so reading it with the UPDATE is no loss.
RejectKey(t) ==
    LET id == req[t].id
        snap == req[t].snap IN
    /\ req[t].pc = "check"
    /\ ~KeyGood(snap, now)
    /\ row' \in IF snap.status = "active"
               THEN {SetStatus({id}, "expired"), row} ELSE {row}
    /\ Fail(t)
    /\ UNCHANGED <<now, stored, minted, touch, revokedBy>>

\* The key is good: start the UpdateLastUsed goroutine and answer.
AcceptKey(t) ==
    /\ req[t].pc = "check"
    /\ KeyGood(req[t].snap, now)
    /\ Cardinality(touch) < MaxTouch
    /\ touch' = touch \cup {[id |-> req[t].id, at |-> now]}
    /\ req' = [req EXCEPT ![t].pc = "valid", ![t].snap = Blank]
    /\ UNCHANGED <<now, stored, row, minted, revokedBy>>

\* The goroutine reads the clock some time after it is started, then writes
\* what it read; on a timeout or an error it is dropped.
UpdateLastUsed(g) ==
    /\ touch' = touch \ {g}
    /\ \/ /\ g.id \in stored
          /\ \E stamp \in g.at .. now :
               row' = [row EXCEPT ![g.id].last_used_at = stamp]
       \/ UNCHANGED row
    /\ UNCHANGED <<now, stored, minted, req, revokedBy>>
-----------------------------------------------------------------------------
(* Handler.RevokeAPIKey: Get and authorize, UPDATE, Get again. *)

RevokeAPIKey(t, u, id) ==
    /\ Free(t)
    /\ id \in stored
    /\ MayActFor(u, row[id].username)
    /\ req' = [req EXCEPT ![t] = [Idle EXCEPT !.pc = "revoke", !.user = u, !.id = id]]
    /\ UNCHANGED <<now, stored, row, minted, touch, revokedBy>>

\* PostgresStore.Revoke.  No row hit, or an error, which may also reach the
\* handler after the commit, ends the request.
Revoke(t) ==
    LET id == req[t].id IN
    /\ req[t].pc = "revoke"
    /\ \/ /\ RowsHit({id}) # {}
          /\ row' = SetStatus({id}, "revoked")
          /\ revokedBy' = [revokedBy EXCEPT ![id] = @ \cup {req[t].user}]
          /\ req' = [req EXCEPT ![t].pc = "reread"] \/ Fail(t)
       \/ /\ Fail(t)
          /\ UNCHANGED <<row, revokedBy>>
    /\ UNCHANGED <<now, stored, minted, touch>>

\* The revoked key is read back for the response; cleanup may have taken it.
RereadRevoked(t) ==
    LET id == req[t].id IN
    /\ req[t].pc = "reread"
    /\ \/ /\ id \in stored
          /\ req' = [req EXCEPT ![t].pc = "revoked", ![t].seen = EffectiveStatus(id)]
       \/ Fail(t)
    /\ UNCHANGED <<now, stored, row, minted, touch, revokedBy>>

\* Handler.BulkRevokeAPIKeys and PostgresStore.InvalidateAll: one UPDATE.
BulkRevokeAPIKeys(u, target) ==
    LET owned == {id \in Ids : row[id].username = target} IN
    /\ MayActFor(u, target)
    /\ row' = SetStatus(owned, "revoked")
    /\ revokedBy' = [id \in Ids |-> IF id \in RowsHit(owned)
                                    THEN revokedBy[id] \cup {u} ELSE revokedBy[id]]
    /\ UNCHANGED <<now, stored, minted, req, touch>>
-----------------------------------------------------------------------------
(* The cleanup CronJob, and maas-api going down. *)

\* Faulty: no grace period.
CollectableAtOnce(id) == row[id].ephemeral /\ row[id].expires_at < now

\* Faulty: only rows a validation has marked expired are deleted.
CollectableIfMarked(id) ==
    row[id].ephemeral /\ row[id].status = "expired" /\ row[id].expires_at + Grace < now

Collectable(id) == row[id].ephemeral /\ row[id].expires_at + Grace < now

CleanupExpiredEphemeral ==
    /\ stored' = {id \in stored : ~Collectable(id)}
    /\ UNCHANGED <<now, row, minted, req, touch, revokedBy>>

\* A restart loses the requests and the goroutines, never the table.
Restart ==
    /\ req' = [t \in Threads |-> Idle]
    /\ touch' = {}
    /\ UNCHANGED <<now, stored, row, minted, revokedBy>>

Tick ==
    /\ now < MaxTime
    /\ now' = now + 1
    /\ UNCHANGED <<stored, row, minted, req, touch, revokedBy>>
-----------------------------------------------------------------------------
Init ==
    /\ now = 1
    /\ stored = {}
    /\ row = [id \in Ids |-> Blank]
    /\ minted = {}
    /\ req = [t \in Threads |-> Idle]
    /\ touch = {}
    /\ revokedBy = [id \in Ids |-> {}]

ClientStep(t) ==
    \/ \E u \in Users, ephemeral \in BOOLEAN, named \in BOOLEAN,
         expiresIn \in {<<>>} \cup {<<d>> : d \in Durations} :
           CreateAPIKey(t, u, expiresIn, ephemeral, named)
    \/ \E id \in Ids : ValidateAPIKey(t, id)
    \/ \E u \in Users, id \in Ids : RevokeAPIKey(t, u, id)

ServerStep(t) ==
    \/ AddKey(t) \/ RejectKey(t) \/ AcceptKey(t) \/ Revoke(t) \/ RereadRevoked(t)

Next ==
    \/ \E t \in Threads : ClientStep(t) \/ ServerStep(t)
    \/ \E g \in touch : UpdateLastUsed(g)
    \/ \E u, target \in Users : BulkRevokeAPIKeys(u, target)
    \/ CleanupExpiredEphemeral
    \/ Restart
    \/ Tick

Spec == Init /\ [][Next]_vars

\* The clock moves and the CronJob fires every 15 minutes.
FairSpec == Spec /\ WF_vars(Tick) /\ WF_vars(CleanupExpiredEphemeral)
-----------------------------------------------------------------------------
(* Properties. *)

\* The variables keep their types.
TypeOK ==
    /\ now \in Nat
    /\ stored \in SUBSET Ids
    /\ row \in [Ids -> Row]
    /\ minted \in SUBSET Ids
    /\ req \in [Threads -> Request]
    /\ touch \in SUBSET [id: Ids, at: Nat]
    /\ revokedBy \in [Ids -> SUBSET Users]

\* A validation that ValidateAPIKey accepted was of a key that, when the
\* request arrived, nobody had revoked (one by one or in bulk) and whose
\* expiry had not passed, whatever ran between its SELECT and its answer.
ValidationSound ==
    \A t \in Threads : req[t].pc = "valid" =>
        ~req[t].stale /\ req[t].began <= row[req[t].id].expires_at

\* A successful DELETE /v1/api-keys/:id answers with a key shown as revoked:
\* the auto-expiry of a concurrent validation never overwrites the status
\* between the UPDATE and the read-back.
RevokeReplyShowsRevoked ==
    \A t \in Threads : req[t].pc = "revoked" => req[t].seen = "revoked"

\* Get and Search (SQL: expires_at < NOW()) and GetByHash (Go: Now.After)
\* agree on whether a key is alive, at the instant of expiry too.
StatusAgreesWithValidation ==
    \A id \in stored : (EffectiveStatus(id) = "active") <=> KeyGood(row[id], now)

\* No key outlives its policy: counted from its insertion a regular key lives
\* at most the configured maximum and an ephemeral one at most one hour.
LifetimeBounded ==
    \A id \in stored :
        row[id].expires_at <= row[id].created_at + MaxLifetime(row[id].ephemeral)

\* The grace period of the cleanup job protects requests in flight: the row
\* of a key accepted less than Grace ago has not been deleted.
GraceProtectsAccepted ==
    \A t \in Threads :
        req[t].pc = "valid" /\ now <= req[t].began + Grace => req[t].id \in stored

\* Only the owner of a key or an admin ever revokes it, although ownership
\* is checked on a row read before the UPDATE.
OnlyOwnerOrAdminRevokes ==
    \A id \in Ids : revokedBy[id] \subseteq {row[id].username} \cup Admins

\* The table keeps the promise of KeyLifecycle: the stored status moves one
\* way, whatever the order of revocations, expiries, last-used writes and
\* cleanups.
LifeOf(id) ==
    IF id \notin minted THEN "unborn"
    ELSE IF id \notin stored THEN "deleted" ELSE row[id].status

Lifecycle == INSTANCE KeyLifecycle WITH state <- [id \in Ids |-> LifeOf(id)]

OneWayLifecycle == Lifecycle!Spec

\* Every ephemeral key is deleted in the end: one nobody validated after it
\* expired, whose stored status is then still active, and a revoked one, which
\* according to the API "remains visible in API key lists for audit purposes"
\* (DeleteExpiredEphemeral does not look at the status).
EphemeralKeysGo ==
    \A id \in Ids : (id \in stored /\ row[id].ephemeral) ~> (id \notin stored)
=============================================================================
