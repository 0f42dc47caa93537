--------------------------- MODULE ApiKeys_proofs ---------------------------
(***************************************************************************)
(* Proofs about ApiKeys: its type invariant, its safety invariants and     *)
(* that it implements KeyLifecycle, for any number of keys, users,         *)
(* concurrent requests, any lifetimes, grace period and clock.             *)
(*                                                                         *)
(* Every property follows from one inductive invariant, IInv: what a row   *)
(* remembers (RowInv) and what each request in flight may rely on          *)
(* (ReqInv).  Steps of one request leave what the others rely on alone:    *)
(* that is Evolves, the relation between a table and its successor.        *)
(***************************************************************************)
EXTENDS ApiKeys, TLAPS

\* The table, and who revoked what.
RowInv ==
    /\ stored \subseteq minted
    /\ \A id \in Ids : revokedBy[id] # {} => id \in minted /\ row[id].status = "revoked"
    /\ \A id \in minted :
         row[id].expires_at <= row[id].created_at + MaxLifetime(row[id].ephemeral)
    /\ \A id \in minted \ stored : row[id].expires_at + Grace < now
    /\ OnlyOwnerOrAdminRevokes

\* What request t knows, by the place it has reached.
ReqInv(t) ==
    /\ req[t].pc = "insert" =>
         /\ req[t].snap.status = "active"
         /\ req[t].snap.expires_at <= now + MaxLifetime(req[t].snap.ephemeral)
    /\ req[t].pc \in {"check", "valid", "revoke", "reread", "revoked"} =>
         req[t].id \in minted
    /\ req[t].pc = "check" =>
         /\ req[t].began <= now
         /\ req[t].snap.expires_at = row[req[t].id].expires_at
         /\ req[t].snap.status = "active" => ~req[t].stale
    /\ req[t].pc = "valid" =>
         ~req[t].stale /\ req[t].began <= row[req[t].id].expires_at
    /\ req[t].pc = "revoke" => MayActFor(req[t].user, row[req[t].id].username)
    /\ req[t].pc = "reread" => row[req[t].id].status = "revoked"
    /\ req[t].pc = "revoked" => req[t].seen = "revoked"

IInv == TypeOK /\ RowInv /\ \A t \in Threads : ReqInv(t)

\* A row once inserted keeps its owner and its dates, its status moves one
\* way, and what appears in the table is new and active.
Evolves ==
    /\ now \in Nat /\ now' \in Nat /\ now <= now'
    /\ minted \subseteq minted'
    /\ \A id \in minted :
         /\ row'[id].username = row[id].username
         /\ row'[id].expires_at = row[id].expires_at
         /\ row'[id].created_at = row[id].created_at
         /\ row'[id].ephemeral = row[id].ephemeral
         /\ \/ row'[id].status = row[id].status
            \/ row[id].status = "active" /\ row'[id].status \in {"revoked", "expired"}
    /\ \A id \in minted' \ minted : row'[id].status = "active" /\ id \in stored'
    /\ stored' \subseteq stored \cup (minted' \ minted)
-----------------------------------------------------------------------------
(* Facts about the operators. *)

LEMMA BlankType == Blank \in Row
BY ConstantsAssumption DEF Blank, Row, Status

LEMMA IdleType == Idle \in Request /\ Idle.pc = "idle"
BY ConstantsAssumption, BlankType DEF Idle, Request, Status

LEMMA MaxLifetimeType == \A e \in BOOLEAN : MaxLifetime(e) \in Nat
BY ConstantsAssumption DEF MaxLifetime

LEMMA LifetimeType ==
    ASSUME NEW e \in BOOLEAN, NEW x \in {<<>>} \cup {<<d>> : d \in Durations}
    PROVE  Lifetime(x, e) \in Nat
<1>1. CASE x = <<>>
  BY <1>1, MaxLifetimeType DEF Lifetime
<1>2. CASE x \in {<<d>> : d \in Durations}
  <2>1. PICK d \in Durations : x = <<d>>
    BY <1>2
  <2>2. x # <<>> /\ x[1] = d
    BY <2>1
  <2> QED
    BY <2>2, ConstantsAssumption DEF Lifetime
<1> QED
  BY <1>1, <1>2

\* The row CreateAPIKey prepares.
LEMMA NewRow ==
    ASSUME NEW u \in Users, NEW s \in Subs, NEW d \in Nat, NEW e \in BOOLEAN
    PROVE  [Blank EXCEPT !.username = u, !.subscription = s,
                         !.expires_at = d, !.ephemeral = e] \in Row
BY ConstantsAssumption DEF Blank, Row, Status

\* The one-way UPDATE of the status column.
LEMMA SetStatusRows ==
    ASSUME TypeOK, NEW ids, NEW new \in {"revoked", "expired"}
    PROVE  /\ SetStatus(ids, new) \in [Ids -> Row]
           /\ \A id \in Ids :
                LET r == SetStatus(ids, new)[id] IN
                /\ r.username = row[id].username
                /\ r.expires_at = row[id].expires_at
                /\ r.created_at = row[id].created_at
                /\ r.ephemeral = row[id].ephemeral
                /\ id \in RowsHit(ids) => row[id].status = "active" /\ r.status = new
                /\ id \notin RowsHit(ids) => r = row[id]
<1> DEFINE r(id) == SetStatus(ids, new)[id]
<1>1. \A id \in Ids : r(id) = IF id \in RowsHit(ids) THEN [row[id] EXCEPT !.status = new] ELSE row[id]
  BY DEF SetStatus, RowsHit
<1>2. \A id \in Ids : row[id] \in Row
  BY DEF TypeOK
<1>3. \A id \in Ids : [row[id] EXCEPT !.status = new] \in Row
  BY <1>2 DEF Row, Status
<1>4. \A id \in Ids : r(id) \in Row
  BY <1>1, <1>2, <1>3
<1>5. SetStatus(ids, new) = [id \in Ids |-> r(id)]
  BY DEF SetStatus
<1>6. SetStatus(ids, new) \in [Ids -> Row]
  BY <1>4, <1>5
<1>7. \A id \in RowsHit(ids) : row[id].status = "active"
  BY DEF RowsHit
<1> QED
  BY <1>1, <1>2, <1>6, <1>7 DEF Row
-----------------------------------------------------------------------------
(* One step. *)

LEMMA TypeStep == IInv /\ [Next]_vars => TypeOK'
<1> SUFFICES ASSUME IInv, [Next]_vars PROVE TypeOK'
  OBVIOUS
<1> USE ConstantsAssumption, IdleType, BlankType
<1>0. TypeOK
  BY DEF IInv
<1>1. ASSUME NEW t \in Threads, NEW u \in Users, NEW ephemeral \in BOOLEAN, NEW named \in BOOLEAN,
             NEW x \in {<<>>} \cup {<<d>> : d \in Durations},
             CreateAPIKey(t, u, x, ephemeral, named)
      PROVE  TypeOK'
  <2>1. Lifetime(x, ephemeral) \in Nat
    BY LifetimeType
  <2>2. PICK s \in Subs :
          req' = [req EXCEPT ![t] =
                  [Idle EXCEPT !.pc = "insert", !.snap =
                    [Blank EXCEPT !.username = u, !.subscription = s,
                                  !.expires_at = now + Lifetime(x, ephemeral),
                                  !.ephemeral = ephemeral]]]
    BY <1>1 DEF CreateAPIKey
  <2> DEFINE b == [Blank EXCEPT !.username = u, !.subscription = s,
                                !.expires_at = now + Lifetime(x, ephemeral),
                                !.ephemeral = ephemeral]
  <2>3. b \in Row
    <3>1. now + Lifetime(x, ephemeral) \in Nat
      BY <1>0, <2>1 DEF TypeOK
    <3> QED
      BY <3>1, NewRow
  <2>4. [Idle EXCEPT !.pc = "insert", !.snap = b] \in Request
    BY <2>3 DEF Request
  <2>5. req' \in [Threads -> Request]
    BY <1>0, <2>2, <2>4 DEF TypeOK
  <2> QED
    BY <1>0, <1>1, <2>5 DEF TypeOK, CreateAPIKey
<1>2. ASSUME NEW t \in Threads, NEW id \in Ids, ValidateAPIKey(t, id)
      PROVE  TypeOK'
  <2>1. [Idle EXCEPT !.pc = "check", !.id = id, !.snap = row[id],
                     !.began = now, !.stale = revokedBy[id] # {}] \in Request
    BY <1>0 DEF TypeOK, Request
  <2> QED
    BY <1>0, <1>2, <2>1 DEF TypeOK, ValidateAPIKey
<1>3. ASSUME NEW t \in Threads, NEW u \in Users, NEW id \in Ids, RevokeAPIKey(t, u, id)
      PROVE  TypeOK'
  <2>1. [Idle EXCEPT !.pc = "revoke", !.user = u, !.id = id] \in Request
    BY <1>0 DEF Request
  <2> QED
    BY <1>0, <1>3, <2>1 DEF TypeOK, RevokeAPIKey
<1>4. ASSUME NEW t \in Threads, AddKey(t) PROVE TypeOK'
  <2>1. [req[t].snap EXCEPT !.created_at = now] \in Row
    BY <1>0 DEF TypeOK, Request, Row
  <2> QED
    BY <1>0, <1>4, <2>1 DEF TypeOK, AddKey, Fail
<1>5. ASSUME NEW t \in Threads, RejectKey(t) PROVE TypeOK'
  <2>1. row' \in [Ids -> Row]
    BY <1>0, <1>5, SetStatusRows DEF TypeOK, RejectKey
  <2> QED
    BY <1>0, <1>5, <2>1 DEF TypeOK, RejectKey, Fail
<1>6. ASSUME NEW t \in Threads, AcceptKey(t) PROVE TypeOK'
  <2>1. req[t].id \in Ids
    BY <1>0, <1>6 DEF IInv, ReqInv, TypeOK, AcceptKey
  <2>2. [req[t] EXCEPT !.pc = "valid", !.snap = Blank] \in Request
    BY <1>0 DEF TypeOK, Request
  <2>3. req' \in [Threads -> Request]
    BY <1>0, <1>6, <2>2 DEF TypeOK, AcceptKey
  <2> QED
    BY <1>0, <1>6, <2>1, <2>3 DEF TypeOK, AcceptKey
<1>7. ASSUME NEW t \in Threads, Revoke(t) PROVE TypeOK'
  <2>1. req' \in [Threads -> Request]
    BY <1>0, <1>7 DEF TypeOK, Revoke, Fail, Request
  <2>2. row' \in [Ids -> Row]
    BY <1>0, <1>7, SetStatusRows DEF TypeOK, Revoke
  <2>3. revokedBy' \in [Ids -> SUBSET Users]
    BY <1>0, <1>7 DEF TypeOK, Revoke, Request
  <2> QED
    BY <1>0, <1>7, <2>1, <2>2, <2>3 DEF TypeOK, Revoke
<1>8. ASSUME NEW t \in Threads, RereadRevoked(t) PROVE TypeOK'
  <2>1. req[t].id \in stored => EffectiveStatus(req[t].id) \in Status
    BY <1>0 DEF TypeOK, EffectiveStatus, Row, Status
  <2>2. req' \in [Threads -> Request]
    BY <1>0, <1>8, <2>1 DEF TypeOK, RereadRevoked, Fail, Request
  <2> QED
    BY <1>0, <1>8, <2>2 DEF TypeOK, RereadRevoked
<1>9. ASSUME NEW g \in touch, UpdateLastUsed(g) PROVE TypeOK'
  <2>1. g.id \in Ids /\ g.at \in Nat /\ now \in Nat
    BY <1>0 DEF TypeOK
  <2>2. ASSUME NEW stamp \in g.at .. now, row' = [row EXCEPT ![g.id].last_used_at = stamp]
        PROVE  row' \in [Ids -> Row]
    <3>1. stamp \in Nat
      BY <2>1
    <3>2. [row[g.id] EXCEPT !.last_used_at = stamp] \in Row
      BY <1>0, <2>1, <3>1 DEF TypeOK, Row
    <3> QED
      BY <1>0, <2>1, <2>2, <3>2 DEF TypeOK
  <2>3. row' \in [Ids -> Row]
    BY <1>0, <1>9, <2>2 DEF TypeOK, UpdateLastUsed
  <2> QED
    BY <1>0, <1>9, <2>3 DEF TypeOK, UpdateLastUsed
<1>10. ASSUME NEW u \in Users, NEW target \in Users, BulkRevokeAPIKeys(u, target) PROVE TypeOK'
  <2>1. row' \in [Ids -> Row]
    BY <1>0, <1>10, SetStatusRows DEF BulkRevokeAPIKeys
  <2>2. revokedBy' \in [Ids -> SUBSET Users]
    BY <1>0, <1>10 DEF TypeOK, BulkRevokeAPIKeys
  <2> QED
    BY <1>0, <1>10, <2>1, <2>2 DEF TypeOK, BulkRevokeAPIKeys
<1>11. CASE CleanupExpiredEphemeral
  BY <1>0, <1>11 DEF TypeOK, CleanupExpiredEphemeral
<1>12. CASE Restart
  BY <1>0, <1>12 DEF TypeOK, Restart
<1>13. CASE Tick
  BY <1>0, <1>13 DEF TypeOK, Tick
<1>14. CASE UNCHANGED vars
  BY <1>0, <1>14 DEF TypeOK, vars
<1> QED
  BY <1>1, <1>2, <1>3, <1>4, <1>5, <1>6, <1>7, <1>8, <1>9, <1>10, <1>11, <1>12, <1>13, <1>14
     DEF Next, ClientStep, ServerStep

LEMMA EvolvesStep == IInv /\ [Next]_vars => Evolves
<1> SUFFICES ASSUME IInv, [Next]_vars PROVE Evolves
  OBVIOUS
<1>0. TypeOK /\ stored \subseteq minted
  BY DEF IInv, RowInv
<1> DEFINE Same == UNCHANGED <<now, stored, row, minted>>
<1>1. ASSUME Same PROVE Evolves
  BY <1>0, <1>1 DEF Evolves, TypeOK
<1>2. ASSUME NEW t \in Threads, ClientStep(t) PROVE Evolves
  BY <1>1, <1>2 DEF ClientStep, CreateAPIKey, ValidateAPIKey, RevokeAPIKey
<1>3. ASSUME NEW t \in Threads, AddKey(t) PROVE Evolves
  <2>1. CASE Same
    BY <1>1, <2>1
  <2>2. CASE \E id \in Ids \ minted :
            /\ stored' = stored \cup {id}
            /\ row' = [row EXCEPT ![id] = [req[t].snap EXCEPT !.created_at = now]]
            /\ minted' = minted \cup {id}
    <3>1. PICK id \in Ids \ minted :
            /\ stored' = stored \cup {id}
            /\ row' = [row EXCEPT ![id] = [req[t].snap EXCEPT !.created_at = now]]
            /\ minted' = minted \cup {id}
      BY <2>2
    <3>2. req[t].snap \in Row /\ req[t].snap.status = "active"
      BY <1>0, <1>3 DEF IInv, ReqInv, AddKey, TypeOK, Request
    <3>3. row'[id].status = "active"
      BY <1>0, <3>1, <3>2 DEF TypeOK, Row
    <3>4. \A o \in minted : row'[o] = row[o]
      BY <1>0, <3>1 DEF TypeOK
    <3>5. now' = now
      BY <1>3 DEF AddKey
    <3> QED
      BY <1>0, <3>1, <3>3, <3>4, <3>5 DEF Evolves, TypeOK
  <2> QED
    BY <1>3, <2>1, <2>2 DEF AddKey
<1>4. ASSUME NEW ids, NEW new \in {"revoked", "expired"}, row' = SetStatus(ids, new),
             UNCHANGED <<now, stored, minted>>
      PROVE  Evolves
  <2>1. \A id \in Ids :
          /\ row'[id].username = row[id].username
          /\ row'[id].expires_at = row[id].expires_at
          /\ row'[id].created_at = row[id].created_at
          /\ row'[id].ephemeral = row[id].ephemeral
          /\ \/ row'[id].status = row[id].status
             \/ row[id].status = "active" /\ row'[id].status \in {"revoked", "expired"}
    BY <1>0, <1>4, SetStatusRows
  <2> QED
    BY <1>0, <1>4, <2>1 DEF Evolves, TypeOK
<1>5. ASSUME NEW t \in Threads, RejectKey(t) PROVE Evolves
  BY <1>1, <1>4, <1>5 DEF RejectKey
<1>6. ASSUME NEW t \in Threads, AcceptKey(t) PROVE Evolves
  BY <1>1, <1>6 DEF AcceptKey
<1>7. ASSUME NEW t \in Threads, Revoke(t) PROVE Evolves
  BY <1>1, <1>4, <1>7 DEF Revoke
<1>8. ASSUME NEW t \in Threads, RereadRevoked(t) PROVE Evolves
  BY <1>1, <1>8 DEF RereadRevoked
<1>9. ASSUME NEW g \in touch, UpdateLastUsed(g) PROVE Evolves
  <2>1. ASSUME NEW stamp, row' = [row EXCEPT ![g.id].last_used_at = stamp]
        PROVE  \A id \in Ids :
                 /\ row'[id].username = row[id].username
                 /\ row'[id].expires_at = row[id].expires_at
                 /\ row'[id].created_at = row[id].created_at
                 /\ row'[id].ephemeral = row[id].ephemeral
                 /\ row'[id].status = row[id].status
    BY <1>0, <2>1 DEF TypeOK, Row
  <2>2. CASE Same
    BY <1>1, <2>2
  <2>3. CASE \E stamp \in g.at .. now : row' = [row EXCEPT ![g.id].last_used_at = stamp]
    BY <1>0, <1>9, <2>1, <2>3 DEF UpdateLastUsed, Evolves, TypeOK
  <2> QED
    BY <1>9, <2>2, <2>3 DEF UpdateLastUsed
<1>10. ASSUME NEW u \in Users, NEW target \in Users, BulkRevokeAPIKeys(u, target) PROVE Evolves
  BY <1>4, <1>10 DEF BulkRevokeAPIKeys
<1>11. CASE CleanupExpiredEphemeral
  BY <1>0, <1>11 DEF CleanupExpiredEphemeral, Evolves, TypeOK
<1>12. CASE Restart
  BY <1>1, <1>12 DEF Restart
<1>13. CASE Tick
  BY <1>0, <1>13 DEF Tick, Evolves, TypeOK
<1>14. CASE UNCHANGED vars
  BY <1>1, <1>14 DEF vars
<1> QED
  BY <1>2, <1>3, <1>5, <1>6, <1>7, <1>8, <1>9, <1>10, <1>11, <1>12, <1>13, <1>14
     DEF Next, ServerStep

LEMMA RowInvStep == IInv /\ [Next]_vars => RowInv'
<1> SUFFICES ASSUME IInv, [Next]_vars PROVE RowInv'
  OBVIOUS
<1> USE ConstantsAssumption, MaxLifetimeType
<1>0. TypeOK /\ TypeOK' /\ RowInv /\ Evolves
  BY TypeStep, EvolvesStep DEF IInv
<1>a. \A id \in Ids : row[id] \in Row /\ row'[id] \in Row
  BY <1>0 DEF TypeOK
<1>b. stored' \subseteq minted'
  BY <1>0 DEF RowInv, Evolves
<1>c. \A id \in minted :
         row'[id].expires_at <= row'[id].created_at + MaxLifetime(row'[id].ephemeral)
  BY <1>0, <1>a DEF RowInv, Evolves, TypeOK, Row
<1>d. ASSUME NEW id \in minted, row[id].expires_at + Grace < now
      PROVE  row'[id].expires_at + Grace < now'
  BY <1>0, <1>a, <1>d DEF Evolves, TypeOK, Row
<1>e. ASSUME NEW id \in Ids, revokedBy'[id] = revokedBy[id]
      PROVE  /\ revokedBy'[id] # {} => id \in minted' /\ row'[id].status = "revoked"
             /\ revokedBy'[id] \subseteq {row'[id].username} \cup Admins
  BY <1>0, <1>e DEF RowInv, Evolves, OnlyOwnerOrAdminRevokes
<1>f. ASSUME UNCHANGED <<stored, minted, revokedBy>> PROVE RowInv'
  BY <1>0, <1>b, <1>c, <1>d, <1>e, <1>f DEF RowInv, OnlyOwnerOrAdminRevokes, TypeOK
<1>1. ASSUME NEW t \in Threads, ClientStep(t) PROVE RowInv'
  BY <1>1, <1>f DEF ClientStep, CreateAPIKey, ValidateAPIKey, RevokeAPIKey
<1>2. ASSUME NEW t \in Threads, AddKey(t) PROVE RowInv'
  <2>1. CASE UNCHANGED <<stored, row, minted>>
    BY <1>2, <1>f, <2>1 DEF AddKey
  <2>2. CASE \E id \in Ids \ minted :
            /\ stored' = stored \cup {id}
            /\ row' = [row EXCEPT ![id] = [req[t].snap EXCEPT !.created_at = now]]
            /\ minted' = minted \cup {id}
    <3>1. PICK id \in Ids \ minted :
            /\ stored' = stored \cup {id}
            /\ row' = [row EXCEPT ![id] = [req[t].snap EXCEPT !.created_at = now]]
            /\ minted' = minted \cup {id}
      BY <2>2
    <3>2. /\ req[t].snap \in Row
          /\ req[t].snap.expires_at <= now + MaxLifetime(req[t].snap.ephemeral)
      BY <1>0, <1>2 DEF IInv, ReqInv, AddKey, TypeOK, Request
    <3>3. /\ row'[id].expires_at = req[t].snap.expires_at
          /\ row'[id].ephemeral = req[t].snap.ephemeral
          /\ row'[id].created_at = now
      BY <1>0, <3>1, <3>2 DEF TypeOK, Row
    <3>4. \A o \in minted' :
            row'[o].expires_at <= row'[o].created_at + MaxLifetime(row'[o].ephemeral)
      BY <1>c, <3>1, <3>2, <3>3
    <3>5. \A o \in minted' \ stored' : row'[o].expires_at + Grace < now'
      BY <1>0, <1>d, <3>1 DEF RowInv
    <3>6. revokedBy' = revokedBy
      BY <1>2 DEF AddKey
    <3> QED
      BY <1>b, <1>e, <3>4, <3>5, <3>6 DEF RowInv, OnlyOwnerOrAdminRevokes
  <2> QED
    BY <1>2, <2>1, <2>2 DEF AddKey
<1>3. ASSUME NEW t \in Threads, RejectKey(t) \/ AcceptKey(t) \/ RereadRevoked(t) PROVE RowInv'
  BY <1>3, <1>f DEF RejectKey, AcceptKey, RereadRevoked
<1>4. ASSUME NEW t \in Threads, Revoke(t) PROVE RowInv'
  <2>1. CASE UNCHANGED <<row, revokedBy>>
    BY <1>4, <1>f, <2>1 DEF Revoke
  <2>2. CASE /\ RowsHit({req[t].id}) # {}
             /\ row' = SetStatus({req[t].id}, "revoked")
             /\ revokedBy' = [revokedBy EXCEPT ![req[t].id] = @ \cup {req[t].user}]
    <3> DEFINE id == req[t].id
    <3>1. id \in RowsHit({id}) /\ id \in Ids /\ id \in minted
      BY <1>0, <2>2 DEF RowsHit, TypeOK, RowInv
    <3>2. row'[id].status = "revoked"
      BY <1>0, <2>2, <3>1 DEF SetStatus, RowsHit, TypeOK, Row
    <3>3. MayActFor(req[t].user, row[id].username)
      BY <1>4 DEF IInv, ReqInv, Revoke
    <3>4. row'[id].username = row[id].username
      BY <1>0, <3>1 DEF Evolves
    <3>5. revokedBy'[id] \subseteq {row'[id].username} \cup Admins
      BY <1>0, <2>2, <3>1, <3>3, <3>4 DEF TypeOK, RowInv, OnlyOwnerOrAdminRevokes, MayActFor
    <3>6. \A o \in Ids \ {id} : revokedBy'[o] = revokedBy[o]
      BY <1>0, <2>2 DEF TypeOK
    <3>7. UNCHANGED <<stored, minted>>
      BY <1>4 DEF Revoke
    <3>8. \A o \in minted' \ stored' : row'[o].expires_at + Grace < now'
      BY <1>0, <1>d, <3>7 DEF RowInv
    <3>9. \A o \in Ids : revokedBy'[o] # {} => o \in minted' /\ row'[o].status = "revoked"
      BY <1>e, <3>1, <3>2, <3>6, <3>7
    <3> QED
      BY <1>b, <1>c, <1>e, <3>5, <3>6, <3>7, <3>8, <3>9 DEF RowInv, OnlyOwnerOrAdminRevokes
  <2> QED
    BY <1>4, <2>1, <2>2 DEF Revoke
<1>5. ASSUME NEW u \in Users, NEW target \in Users, BulkRevokeAPIKeys(u, target) PROVE RowInv'
  <2> DEFINE owned == {id \in Ids : row[id].username = target}
  <2>1. /\ MayActFor(u, target)
        /\ row' = SetStatus(owned, "revoked")
        /\ UNCHANGED <<now, stored, minted>>
        /\ \A id \in Ids : revokedBy'[id] = IF id \in RowsHit(owned)
                                             THEN revokedBy[id] \cup {u} ELSE revokedBy[id]
    BY <1>5 DEF BulkRevokeAPIKeys
  <2>2. ASSUME NEW id \in Ids
        PROVE  /\ revokedBy'[id] # {} => id \in minted' /\ row'[id].status = "revoked"
               /\ revokedBy'[id] \subseteq {row'[id].username} \cup Admins
    <3>1. CASE id \in RowsHit(owned)
      <4>1. id \in minted /\ row[id].username = target
        BY <1>0, <3>1 DEF RowsHit, RowInv
      <4>2. row'[id].status = "revoked" /\ row'[id].username = target
        BY <1>0, <2>1, <3>1, <4>1, SetStatusRows
      <4>3. revokedBy[id] \subseteq {target} \cup Admins
        BY <1>0, <4>1 DEF RowInv, OnlyOwnerOrAdminRevokes
      <4>4. {u} \subseteq {target} \cup Admins
        BY <2>1 DEF MayActFor
      <4> QED
        BY <2>1, <3>1, <4>1, <4>2, <4>3, <4>4
    <3>2. CASE id \notin RowsHit(owned)
      BY <1>e, <2>1, <3>2
    <3> QED
      BY <3>1, <3>2
  <2>3. \A o \in minted' \ stored' : row'[o].expires_at + Grace < now'
    BY <1>0, <1>d, <2>1 DEF RowInv
  <2> QED
    BY <1>b, <1>c, <2>1, <2>2, <2>3 DEF RowInv, OnlyOwnerOrAdminRevokes
<1>6. CASE CleanupExpiredEphemeral
  <2>1. /\ UNCHANGED <<now, row, minted, revokedBy>>
        /\ stored' = {id \in stored : ~Collectable(id)}
    BY <1>6 DEF CleanupExpiredEphemeral
  <2>2. \A o \in minted' \ stored' : row'[o].expires_at + Grace < now'
    BY <1>0, <2>1 DEF RowInv, Collectable
  <2> QED
    BY <1>b, <1>c, <1>e, <2>1, <2>2 DEF RowInv, OnlyOwnerOrAdminRevokes
<1>7. ASSUME NEW g \in touch, UpdateLastUsed(g) PROVE RowInv'
  BY <1>7, <1>f DEF UpdateLastUsed
<1>8. CASE Restart \/ Tick \/ UNCHANGED vars
  BY <1>8, <1>f DEF Restart, Tick, vars
<1> QED
  BY <1>1, <1>2, <1>3, <1>4, <1>5, <1>6, <1>7, <1>8 DEF Next, ServerStep

LEMMA ReqInvStep == IInv /\ [Next]_vars => \A t \in Threads : ReqInv(t)'
<1> SUFFICES ASSUME IInv, [Next]_vars, NEW t \in Threads PROVE ReqInv(t)'
  OBVIOUS
<1> USE ConstantsAssumption, MaxLifetimeType
<1>0. TypeOK /\ TypeOK' /\ RowInv /\ Evolves /\ ReqInv(t)
  BY TypeStep, EvolvesStep DEF IInv
<1>a. /\ req[t] \in Request /\ req[t].snap \in Row /\ req[t].began \in Nat
      /\ now \in Nat /\ now' \in Nat /\ now <= now' /\ minted \subseteq Ids
  BY <1>0 DEF TypeOK, Request, Evolves
<1>b. ASSUME req'[t] = req[t] PROVE ReqInv(t)'
  <2>1. req[t].pc = "insert" => req[t].snap.expires_at <= now' + MaxLifetime(req[t].snap.ephemeral)
    BY <1>0, <1>a DEF ReqInv, Row
  <2>2. req[t].id \in minted =>
          /\ req[t].id \in minted'
          /\ row'[req[t].id].expires_at = row[req[t].id].expires_at
          /\ row'[req[t].id].username = row[req[t].id].username
          /\ row[req[t].id].status = "revoked" => row'[req[t].id].status = "revoked"
    BY <1>0 DEF Evolves
  <2>3. req[t].pc = "check" => req[t].began <= now'
    BY <1>0, <1>a DEF ReqInv
  <2> QED
    BY <1>0, <1>b, <2>1, <2>2, <2>3 DEF ReqInv, MayActFor
<1>c. ASSUME req'[t] = Idle PROVE ReqInv(t)'
  BY <1>c, IdleType DEF ReqInv
<1>1. ASSUME NEW o \in Threads \ {t}, ClientStep(o) \/ ServerStep(o) PROVE ReqInv(t)'
  <2>1. req'[t] = req[t]
    BY <1>0, <1>1 DEF TypeOK, ClientStep, CreateAPIKey, ValidateAPIKey, RevokeAPIKey,
       ServerStep, AddKey, RejectKey, AcceptKey, Revoke, RereadRevoked, Fail
  <2> QED
    BY <1>b, <2>1
<1>2. ASSUME NEW u \in Users, NEW ephemeral \in BOOLEAN, NEW named \in BOOLEAN,
             NEW x \in {<<>>} \cup {<<d>> : d \in Durations},
             CreateAPIKey(t, u, x, ephemeral, named)
      PROVE  ReqInv(t)'
  <2> DEFINE d == Lifetime(x, ephemeral)
  <2>1. d \in Nat /\ d <= MaxLifetime(ephemeral) /\ now' = now
    BY <1>2, LifetimeType DEF CreateAPIKey, LifetimeOK
  <2>2. PICK s \in Subs :
          req' = [req EXCEPT ![t] =
                  [Idle EXCEPT !.pc = "insert", !.snap =
                    [Blank EXCEPT !.username = u, !.subscription = s,
                                  !.expires_at = now + d, !.ephemeral = ephemeral]]]
    BY <1>2 DEF CreateAPIKey
  <2> HIDE DEF d
  <2> DEFINE b == [Blank EXCEPT !.username = u, !.subscription = s,
                                !.expires_at = now + d, !.ephemeral = ephemeral]
  <2>3. b.status = "active" /\ b.expires_at = now + d /\ b.ephemeral = ephemeral
    BY DEF Blank
  <2> HIDE DEF b
  <2>4. req'[t] = [Idle EXCEPT !.pc = "insert", !.snap = b]
    BY <1>0, <2>2 DEF TypeOK, b
  <2>5. req'[t].pc = "insert" /\ req'[t].snap = b
    BY <2>4, IdleType DEF Request
  <2>6. b.expires_at <= now' + MaxLifetime(b.ephemeral)
    BY <1>a, <2>1, <2>3
  <2> QED
    BY <2>3, <2>5, <2>6 DEF ReqInv
<1>3. ASSUME NEW id \in Ids, ValidateAPIKey(t, id) PROVE ReqInv(t)'
  <2>1. req'[t] = [Idle EXCEPT !.pc = "check", !.id = id, !.snap = row[id],
                               !.began = now, !.stale = revokedBy[id] # {}]
    BY <1>0, <1>3 DEF ValidateAPIKey, TypeOK
  <2>2. /\ req'[t].pc = "check" /\ req'[t].id = id /\ req'[t].snap = row[id]
        /\ req'[t].began = now /\ req'[t].stale = (revokedBy[id] # {})
    BY <2>1, IdleType DEF Request
  <2>3. id \in minted /\ (row[id].status = "active" => revokedBy[id] = {})
    BY <1>0, <1>3 DEF ValidateAPIKey, RowInv
  <2>4. UNCHANGED <<now, row, minted>>
    BY <1>3 DEF ValidateAPIKey
  <2> QED
    BY <1>a, <2>2, <2>3, <2>4 DEF ReqInv
<1>4. ASSUME NEW u \in Users, NEW id \in Ids, RevokeAPIKey(t, u, id) PROVE ReqInv(t)'
  <2>1. req'[t] = [Idle EXCEPT !.pc = "revoke", !.user = u, !.id = id]
    BY <1>0, <1>4 DEF RevokeAPIKey, TypeOK
  <2>2. req'[t].pc = "revoke" /\ req'[t].user = u /\ req'[t].id = id
    BY <2>1, IdleType DEF Request
  <2>3. id \in minted /\ MayActFor(u, row[id].username) /\ UNCHANGED <<row, minted>>
    BY <1>0, <1>4 DEF RevokeAPIKey, RowInv
  <2> QED
    BY <2>2, <2>3 DEF ReqInv, MayActFor
<1>5. CASE AddKey(t) \/ RejectKey(t)
  BY <1>0, <1>5, <1>c DEF AddKey, RejectKey, Fail, TypeOK
<1>6. CASE AcceptKey(t)
  <2>1. /\ req'[t].pc = "valid" /\ req'[t].id = req[t].id
        /\ req'[t].began = req[t].began /\ req'[t].stale = req[t].stale
    BY <1>0, <1>6 DEF AcceptKey, TypeOK, Request
  <2>2. req[t].snap.status = "active" /\ now <= req[t].snap.expires_at
    BY <1>6, <1>a DEF AcceptKey, KeyGood, Row
  <2>3. /\ req[t].id \in minted /\ ~req[t].stale /\ req[t].began <= now
        /\ req[t].snap.expires_at = row[req[t].id].expires_at
    BY <1>0, <1>6, <2>2 DEF ReqInv, AcceptKey
  <2>4. req[t].began <= row[req[t].id].expires_at
    BY <1>a, <2>2, <2>3 DEF Row
  <2>5. UNCHANGED <<row, minted>>
    BY <1>6 DEF AcceptKey
  <2> QED
    BY <2>1, <2>3, <2>4, <2>5 DEF ReqInv
<1>7. CASE Revoke(t)
  <2>1. CASE Fail(t)
    BY <1>0, <1>c, <2>1 DEF Fail, TypeOK
  <2>2. CASE /\ RowsHit({req[t].id}) # {}
             /\ row' = SetStatus({req[t].id}, "revoked")
             /\ req' = [req EXCEPT ![t].pc = "reread"]
    <3>1. req'[t].pc = "reread" /\ req'[t].id = req[t].id
      BY <1>0, <2>2 DEF TypeOK, Request
    <3>2. req[t].id \in minted /\ req[t].id \in Ids
      BY <1>0, <1>7, <1>a DEF ReqInv, Revoke
    <3>3. row'[req[t].id].status = "revoked"
      BY <1>0, <2>2, <3>2 DEF SetStatus, RowsHit, TypeOK, Row
    <3> QED
      BY <1>7, <3>1, <3>2, <3>3 DEF ReqInv, Revoke
  <2> QED
    BY <1>7, <2>1, <2>2 DEF Revoke
<1>8. CASE RereadRevoked(t)
  <2>1. CASE Fail(t)
    BY <1>0, <1>c, <2>1 DEF Fail, TypeOK
  <2>2. CASE req' = [req EXCEPT ![t].pc = "revoked", ![t].seen = EffectiveStatus(req[t].id)]
    <3>1. /\ req'[t].pc = "revoked" /\ req'[t].id = req[t].id
          /\ req'[t].seen = EffectiveStatus(req[t].id)
      BY <1>0, <2>2 DEF TypeOK, Request
    <3>2. req[t].id \in minted /\ EffectiveStatus(req[t].id) = "revoked"
      BY <1>0, <1>8 DEF ReqInv, RereadRevoked, EffectiveStatus
    <3> QED
      BY <1>8, <3>1, <3>2 DEF ReqInv, RereadRevoked
  <2> QED
    BY <1>8, <2>1, <2>2 DEF RereadRevoked
<1>9. CASE Restart
  BY <1>9, <1>c DEF Restart
<1>10. CASE \/ \E g \in touch : UpdateLastUsed(g)
            \/ \E u, target \in Users : BulkRevokeAPIKeys(u, target)
            \/ CleanupExpiredEphemeral \/ Tick \/ UNCHANGED vars
  BY <1>10, <1>b DEF UpdateLastUsed, BulkRevokeAPIKeys, CleanupExpiredEphemeral, Tick, vars
<1>11. ASSUME ClientStep(t) PROVE ReqInv(t)'
  BY <1>11, <1>2, <1>3, <1>4 DEF ClientStep
<1>12. ASSUME ServerStep(t) PROVE ReqInv(t)'
  BY <1>12, <1>5, <1>6, <1>7, <1>8 DEF ServerStep
<1> QED
  BY <1>1, <1>9, <1>10, <1>11, <1>12 DEF Next
-----------------------------------------------------------------------------
(* The theorems. *)

\* What RowInv and ReqInv say holds from the first state on.
THEOREM Inductive == Spec => []IInv
<1> USE ConstantsAssumption
<1>1. Init => IInv
  <2> SUFFICES ASSUME Init PROVE IInv
    OBVIOUS
  <2>1. TypeOK
    BY BlankType, IdleType DEF Init, TypeOK
  <2>2. RowInv
    BY DEF Init, RowInv, OnlyOwnerOrAdminRevokes
  <2>3. \A t \in Threads : ReqInv(t)
    BY IdleType DEF Init, ReqInv
  <2> QED
    BY <2>1, <2>2, <2>3 DEF IInv
<1>2. IInv /\ [Next]_vars => IInv'
  BY TypeStep, RowInvStep, ReqInvStep DEF IInv
<1> QED
  BY <1>1, <1>2, PTL DEF Spec

\* Type correctness of the table, the requests and the goroutines.
THEOREM TypeCorrect == Spec => []TypeOK
<1>1. IInv => TypeOK
  BY DEF IInv
<1> QED
  BY <1>1, Inductive, PTL

\* ValidateAPIKey accepts no key that was revoked or had run out when the
\* request arrived, for any number of concurrent requests.
THEOREM ValidationIsSound == Spec => []ValidationSound
<1>1. IInv => ValidationSound
  BY DEF IInv, ReqInv, ValidationSound
<1> QED
  BY <1>1, Inductive, PTL

\* A successful DELETE /v1/api-keys/:id answers with a revoked key.
THEOREM RevokeReply == Spec => []RevokeReplyShowsRevoked
<1>1. IInv => RevokeReplyShowsRevoked
  BY DEF IInv, ReqInv, RevokeReplyShowsRevoked
<1> QED
  BY <1>1, Inductive, PTL

\* The SQL status and the Go expiry check agree, at the boundary too.
THEOREM StatusAgreement == Spec => []StatusAgreesWithValidation
<1>1. TypeOK => StatusAgreesWithValidation
  BY DEF TypeOK, StatusAgreesWithValidation, EffectiveStatus, KeyGood, Row
<1> QED
  BY <1>1, TypeCorrect, PTL

\* Keys live at most as long as CreateAPIKey's maximum, counted from the
\* INSERT although the expiry is computed before it.
THEOREM Lifetimes == Spec => []LifetimeBounded
<1>1. IInv => LifetimeBounded
  BY DEF IInv, RowInv, LifetimeBounded
<1> QED
  BY <1>1, Inductive, PTL

\* The cleanup job deletes no key accepted less than the grace period ago.
THEOREM GraceProtects == Spec => []GraceProtectsAccepted
<1>1. IInv => GraceProtectsAccepted
  <2> SUFFICES ASSUME IInv, NEW t \in Threads, req[t].pc = "valid",
                      req[t].id \notin stored, now <= req[t].began + Grace
               PROVE  FALSE
    BY DEF GraceProtectsAccepted
  <2> DEFINE e == row[req[t].id].expires_at
  <2>1. req[t].began <= e /\ e + Grace < now
    BY DEF IInv, ReqInv, RowInv
  <2>2. req[t].id \in Ids
    BY DEF IInv, ReqInv, TypeOK
  <2>3. row[req[t].id] \in Row /\ req[t] \in Request
    BY <2>2 DEF IInv, TypeOK
  <2>4. e \in Nat /\ req[t].began \in Nat /\ now \in Nat /\ Grace \in Nat
    BY <2>3, ConstantsAssumption DEF IInv, TypeOK, Row, Request
  <2> QED
    BY <2>1, <2>4
<1> QED
  BY <1>1, Inductive, PTL

\* Nobody but its owner and the admins ever revokes a key.
THEOREM OwnerOrAdmin == Spec => []OnlyOwnerOrAdminRevokes
<1>1. IInv => OnlyOwnerOrAdminRevokes
  BY DEF IInv, RowInv
<1> QED
  BY <1>1, Inductive, PTL

\* The api_keys table under all its writers implements KeyLifecycle.
THEOREM ImplementsLifecycle == Spec => OneWayLifecycle
<1>1. Init => Lifecycle!Init
  BY DEF Init, Lifecycle!Init, LifeOf
<1>2. IInv /\ [Next]_vars => [Lifecycle!Next]_([id \in Ids |-> LifeOf(id)])
  <2> SUFFICES ASSUME IInv, [Next]_vars PROVE Lifecycle!Next
    OBVIOUS
  <2>0. TypeOK /\ TypeOK' /\ RowInv /\ RowInv' /\ Evolves
    BY TypeStep, RowInvStep, EvolvesStep DEF IInv
  <2>1. ASSUME NEW id \in Ids
        PROVE  LifeOf(id)' \in Lifecycle!Life /\ Lifecycle!Moves(LifeOf(id), LifeOf(id)')
    <3>1. row[id].status \in Status /\ row'[id].status \in Status
      BY <2>0 DEF TypeOK, Row
    <3>2. CASE id \notin minted
      BY <2>0, <3>1, <3>2 DEF Evolves, LifeOf, Lifecycle!Life, Lifecycle!Moves
    <3>3. CASE id \in minted /\ id \notin stored
      BY <2>0, <3>1, <3>3 DEF Evolves, LifeOf, Lifecycle!Life, Lifecycle!Moves
    <3>4. CASE id \in stored
      BY <2>0, <3>1, <3>4 DEF Evolves, RowInv, LifeOf, Status, Lifecycle!Life, Lifecycle!Moves
    <3> QED
      BY <3>2, <3>3, <3>4
  <2> QED
    BY <2>1 DEF Lifecycle!Next
<1> QED
  BY <1>1, <1>2, Inductive, PTL DEF Spec, OneWayLifecycle, Lifecycle!Spec
=============================================================================
