-------------------------- MODULE RouteTableProofs --------------------------
(* Theorems about RouteTable, for any routes, secrets and bounds.          *)
EXTENDS RouteTable, TLAPS

-----------------------------------------------------------------------------
(* Types *)

Promises == [enabled : BOOLEAN, auth : AuthModes \cup {""}, secret : SecretValues \cup {NoSecret}]

\* What TypeOK leaves out: the local variables of a call, and the answers.
LocalsOK ==
    /\ call = "none" => request = NoRequest
    /\ call # "none" => record \in RouteRecords /\ record.id = request.to
    /\ existing \in RouteRecords \cup {Zero}
    /\ call \in {"remove_secrets", "write_secret", "select_adapter", "save"}
         => request \in Requests /\ record.auth = request.auth
    /\ call \in {"select_adapter", "save"} /\ record.auth # "none"
         => Ref(record.id, record.auth) \in DOMAIN secrets
    /\ promised \in [RouteIds -> Promises]

TypeInv == TypeOK /\ LocalsOK

LEMMA ZeroId == Zero.id = NoId /\ Zero.id \notin RouteIds
  <1>1. Zero.id = NoId
    BY DEF Zero
  <1> QED
    BY <1>1, EmptyStrings

LEMMA RecordId == \A r \in RouteRecords : r.id \in RouteIds
  BY DEF RouteRecords

LEMMA EmptyTable == IsTable(Empty) /\ DOMAIN Empty = {}
  <1>1. DOMAIN Empty = {}
    BY DEF Empty
  <1>2. Empty \in [DOMAIN Empty -> RouteRecords \cup {Zero}]
    BY <1>1 DEF Empty
  <1> QED
    BY <1>1, <1>2 DEF IsTable

\* A record of a table, and the record of an unknown id.
LEMMA LookupType ==
    ASSUME IsTable(routes), NEW id \in RouteIds
    PROVE  /\ Lookup(id) \in RouteRecords \cup {Zero}
           /\ id \in DOMAIN routes => Lookup(id) = routes[id] /\ Lookup(id) \in RouteRecords
           /\ id \notin DOMAIN routes => Lookup(id) = Zero
  <1>1. CASE id \in DOMAIN routes
    <2>1. Lookup(id) = routes[id] /\ routes[id] \in RouteRecords \cup {Zero} /\ routes[id].id = id
      BY <1>1 DEF IsTable, Lookup
    <2>2. routes[id] # Zero
      BY <2>1, ZeroId
    <2> QED
      BY <1>1, <2>1, <2>2
  <1>2. CASE id \notin DOMAIN routes
    BY <1>2 DEF Lookup
  <1> QED
    BY <1>1, <1>2

\* A table stays one when a record is put under its own id, or ids are left out.
LEMMA PutTable ==
    ASSUME NEW t, IsTable(t), NEW r \in RouteRecords \cup {Zero}
    PROVE  /\ IsTable(Put(t, r.id, r))
           /\ DOMAIN Put(t, r.id, r) = DOMAIN t \cup {r.id}
           /\ Put(t, r.id, r)[r.id] = r
           /\ \A k \in DOMAIN t \ {r.id} : Put(t, r.id, r)[k] = t[k]
  <1>1. r.id \in RouteIds \cup {NoId}
    BY ZeroId, RecordId
  <1>2. /\ DOMAIN Put(t, r.id, r) = DOMAIN t \cup {r.id}
        /\ Put(t, r.id, r)[r.id] = r
        /\ \A k \in DOMAIN t \ {r.id} : Put(t, r.id, r)[k] = t[k]
    BY DEF Put
  <1>3. \A k \in DOMAIN Put(t, r.id, r) :
           Put(t, r.id, r)[k] \in RouteRecords \cup {Zero} /\ Put(t, r.id, r)[k].id = k
    BY <1>2 DEF IsTable
  <1>4. Put(t, r.id, r) \in [DOMAIN t \cup {r.id} -> RouteRecords \cup {Zero}]
    BY <1>2, <1>3 DEF Put
  <1> QED
    BY <1>1, <1>2, <1>3, <1>4 DEF IsTable

LEMMA WithoutTable ==
    ASSUME NEW t, IsTable(t), NEW S
    PROVE  /\ IsTable(Without(t, S))
           /\ DOMAIN Without(t, S) = DOMAIN t \ S
           /\ \A k \in DOMAIN t \ S : Without(t, S)[k] = t[k]
  <1>1. /\ DOMAIN Without(t, S) = DOMAIN t \ S
        /\ \A k \in DOMAIN t \ S : Without(t, S)[k] = t[k]
    BY DEF Without, Restrict
  <1>2. Without(t, S) \in [DOMAIN t \ S -> RouteRecords \cup {Zero}]
    BY DEF Without, Restrict, IsTable
  <1> QED
    BY <1>1, <1>2 DEF IsTable

\* The same for the secret files.
IsSecrets(f) == f \in [DOMAIN f -> SecretValues \cup {NoSecret}] /\ DOMAIN f \subseteq Refs

LEMMA PutSecret ==
    ASSUME NEW f, IsSecrets(f), NEW k \in Refs, NEW v \in SecretValues \cup {NoSecret}
    PROVE  /\ IsSecrets(Put(f, k, v))
           /\ DOMAIN Put(f, k, v) = DOMAIN f \cup {k}
           /\ Put(f, k, v)[k] = v
           /\ \A j \in DOMAIN f \ {k} : Put(f, k, v)[j] = f[j]
  BY DEF Put, IsSecrets

LEMMA WithoutSecrets ==
    ASSUME NEW f, IsSecrets(f), NEW S
    PROVE  /\ IsSecrets(Without(f, S))
           /\ DOMAIN Without(f, S) = DOMAIN f \ S
           /\ \A j \in DOMAIN f \ S : Without(f, S)[j] = f[j]
  BY DEF Without, Restrict, IsSecrets

LEMMA TypeInit == Init => TypeInv
  <1> SUFFICES ASSUME Init PROVE TypeInv
    OBVIOUS
  <1>1. IsTable(routes) /\ IsTable(disk)
    BY EmptyTable DEF Init
  <1>2. secrets \in [DOMAIN secrets -> SecretValues \cup {NoSecret}] /\ DOMAIN secrets \subseteq Refs
    BY EmptyTable DEF Init, Empty
  <1>3. Absent \in Promises
    BY DEF Absent, Promises
  <1>4. promised \in [RouteIds -> Promises]
    BY <1>3 DEF Init
  <1>0. MaxUpserts \in Nat /\ MaxSwitches \in Nat
    BY BoundTypes
  <1>8. upserts \in 0 .. MaxUpserts /\ switches \in 0 .. MaxSwitches
    BY <1>0 DEF Init
  <1>5. /\ inFlight \subseteq RouteIds /\ disturbed \subseteq RouteIds /\ wiped \in BOOLEAN
        /\ unsaved \in BOOLEAN /\ call = "none"
    BY DEF Init
  <1>7. TypeOK
    BY <1>1, <1>2, <1>5, <1>8 DEF TypeOK
  <1>6. LocalsOK
    BY <1>4 DEF Init, LocalsOK
  <1> QED
    BY <1>6, <1>7 DEF TypeInv

\* What a step that ends a call, and what a new record, has to do with types.
LEMMA EndCallTypes ==
    ASSUME LocalsOK, EndCall, promised' \in [RouteIds -> Promises]
    PROVE  LocalsOK' /\ call' = "none"
  BY DEF LocalsOK, EndCall

LEMMA RecordForType ==
    ASSUME NEW q \in Requests, NEW old \in RouteRecords \cup {Zero}
    PROVE  /\ RecordFor(q, old) \in RouteRecords
           /\ RecordFor(q, old).id = q.to /\ RecordFor(q, old).auth = q.auth
           /\ RecordFor(q, old).enabled = IF old = Zero THEN TRUE ELSE old.enabled
  <1>1. /\ old.bearerRef \in Refs \cup {NoSecret} /\ old.hmacRef \in Refs \cup {NoSecret}
        /\ old.enabled \in BOOLEAN
    <2>1. CASE old \in RouteRecords
      BY <2>1 DEF RouteRecords
    <2>2. CASE old = Zero
      BY <2>2 DEF Zero
    <2> QED
      BY <2>1, <2>2
  <1> QED
    BY <1>1 DEF RecordFor, RouteRecords, Requests

LEMMA RefType == \A id \in RouteIds, mode \in {"bearer", "hmac"} : Ref(id, mode) \in Refs
  BY DEF Refs

LEMMA RecordWithRefType ==
    ASSUME record \in RouteRecords
    PROVE  /\ RecordWithRef \in RouteRecords
           /\ RecordWithRef.id = record.id /\ RecordWithRef.auth = record.auth
           /\ RecordWithRef.enabled = record.enabled
           /\ RecordWithRef.bearerRef = IF record.auth = "bearer" THEN Ref(record.id, "bearer")
                                                                  ELSE NoSecret
           /\ RecordWithRef.hmacRef = IF record.auth = "hmac" THEN Ref(record.id, "hmac")
                                                              ELSE NoSecret
  <1>1. record.id \in RouteIds /\ record.auth \in AuthModes
    BY DEF RouteRecords
  <1>2. CASE record.auth = "bearer"
    BY <1>1, <1>2, RefType DEF RecordWithRef, RouteRecords
  <1>3. CASE record.auth = "hmac"
    BY <1>1, <1>3, RefType DEF RecordWithRef, RouteRecords
  <1>4. CASE record.auth = "none"
    BY <1>1, <1>4, RefType DEF RecordWithRef, RouteRecords
  <1> QED
    BY <1>1, <1>2, <1>3, <1>4 DEF AuthModes

LEMMA SecretToWriteType ==
    ASSUME TypeInv, call = "write_secret", SecretToWrite # NoSecret
    PROVE  SecretToWrite \in SecretValues
  BY DEF TypeInv, TypeOK, LocalsOK, SecretToWrite, Requests

LEMMA UpsertPromiseType ==
    ASSUME TypeInv, call = "save"
    PROVE  UpsertPromise \in Promises
  <1>1. request \in Requests /\ record \in RouteRecords /\ record.id = request.to
        /\ record.auth = request.auth
    BY DEF TypeInv, LocalsOK
  <1>2. request.from \in RouteIds /\ promised[request.from] \in Promises
    BY <1>1 DEF Requests, TypeInv, LocalsOK
  <1>3. request.auth # "none" => secrets[Ref(request.to, request.auth)] \in SecretValues \cup {NoSecret}
    BY <1>1 DEF TypeInv, TypeOK, LocalsOK
  <1>4. request.auth \in AuthModes /\ request.secret \in SecretValues \cup {NoSecret}
        /\ record.enabled \in BOOLEAN
    BY <1>1 DEF Requests, RouteRecords
  <1>5. UpsertPromise.enabled \in BOOLEAN
    BY <1>4 DEF UpsertPromise
  <1> QED
    BY <1>2, <1>3, <1>4 DEF UpsertPromise, Promises

\* A write of a secret that was cut short leaves one file, with any contents.
LEMMA SecretCutType ==
    ASSUME TypeInv, SecretCut
    PROVE  /\ IsSecrets(secrets') /\ call = "write_secret"
           /\ \A id \in RouteIds \ InCall, m \in {"bearer", "hmac"} : Ref(id, m) \in DOMAIN secrets =>
                 Ref(id, m) \in DOMAIN secrets' /\ secrets'[Ref(id, m)] = secrets[Ref(id, m)]
  <1>1. PICK v \in SecretValues \cup {NoSecret} :
            secrets' = Put(secrets, Ref(record.id, record.auth), v)
    BY DEF SecretCut
  <1>2. call = "write_secret" /\ record.auth # "none" /\ record \in RouteRecords /\ record.id = request.to
    BY DEF SecretCut, TypeInv, LocalsOK
  <1>3. record.id \in RouteIds /\ record.auth \in {"bearer", "hmac"}
    BY <1>2 DEF RouteRecords, AuthModes
  <1> DEFINE k == Ref(record.id, record.auth)
  <1>4. k \in Refs
    BY <1>3, RefType
  <1>5. \A id \in RouteIds \ InCall, m \in {"bearer", "hmac"} : Ref(id, m) # k
    BY <1>2 DEF Ref, InCall
  <1>6. secrets' = Put(secrets, k, v) /\ IsSecrets(secrets)
    BY <1>1 DEF TypeInv, TypeOK, IsSecrets
  <1>8. v \in SecretValues \cup {NoSecret}
    BY <1>1
  <1> HIDE DEF k
  <1>7. /\ IsSecrets(secrets') /\ DOMAIN secrets' = DOMAIN secrets \cup {k}
        /\ \A j \in DOMAIN secrets \ {k} : secrets'[j] = secrets[j]
    <2>1. /\ IsSecrets(Put(secrets, k, v)) /\ DOMAIN Put(secrets, k, v) = DOMAIN secrets \cup {k}
          /\ \A j \in DOMAIN secrets \ {k} : Put(secrets, k, v)[j] = secrets[j]
      BY <1>4, <1>6, <1>8, PutSecret
    <2> QED
      BY <1>6, <2>1
  <1> QED
    BY <1>2, <1>5, <1>7

\* The steps of a call.
LEMMA TypeUpsert == TypeInv /\ Upsert => TypeInv'
  <1> SUFFICES ASSUME TypeInv, Upsert PROVE TypeInv'
    OBVIOUS
  <1> USE DEF tables, callVars, answerVars, bounds
  <1>0. TypeOK /\ LocalsOK /\ MaxUpserts \in Nat /\ IsTable(routes)
    BY BoundTypes DEF TypeInv, TypeOK
  <1>1. ASSUME NEW q \in Requests, BeginUpsert(q) PROVE TypeInv'
    <2>1. q.from \in RouteIds /\ q.to \in RouteIds
      BY DEF Requests
    <2>2. Lookup(q.from) \in RouteRecords \cup {Zero}
      BY <1>0, <2>1, LookupType
    <2>3. IsTable(routes')
      BY <1>0, <1>1, WithoutTable DEF BeginUpsert
    <2>4. /\ record' \in RouteRecords /\ record'.id = request'.to /\ record'.auth = request'.auth
          /\ request' \in Requests /\ call' = "remove_secrets" /\ InCall' \subseteq RouteIds
      BY <1>1, <2>1, <2>2, RecordForType DEF BeginUpsert, InCall
    <2>5. upserts' \in 0 .. MaxUpserts
      BY <1>0, <1>1 DEF BeginUpsert, TypeOK
    <2>6. TypeOK'
      BY <1>0, <1>1, <2>3, <2>4, <2>5 DEF TypeOK, BeginUpsert
    <2>7. LocalsOK'
      BY <1>0, <1>1, <2>2, <2>4 DEF LocalsOK, BeginUpsert
    <2> QED
      BY <2>6, <2>7 DEF TypeInv
  <1>2. ASSUME RemoveSecrets PROVE TypeInv'
    <2>1. IsSecrets(secrets')
      <3>1. PICK gone \in SUBSET Stale : secrets' = Without(secrets, gone)
        BY <1>2 DEF RemoveSecrets
      <3>2. IsSecrets(secrets)
        BY <1>0 DEF TypeOK, IsSecrets
      <3> QED
        BY <3>1, <3>2, WithoutSecrets
    <2>2. call' = "write_secret" /\ call = "remove_secrets" /\ InCall' = InCall
      BY <1>2 DEF RemoveSecrets, InCall
    <2>3. TypeOK'
      BY <1>0, <1>2, <2>1, <2>2 DEF TypeOK, RemoveSecrets, IsSecrets
    <2>4. LocalsOK'
      BY <1>0, <1>2, <2>2 DEF LocalsOK, RemoveSecrets
    <2> QED
      BY <2>3, <2>4 DEF TypeInv
  <1>3. ASSUME WriteSecret PROVE TypeInv'
    <2>1. record \in RouteRecords /\ record.id = request.to /\ record.auth = request.auth
          /\ request \in Requests /\ record.id \in RouteIds /\ record.auth \in AuthModes
      BY <1>0, <1>3, RecordId DEF WriteSecret, LocalsOK, RouteRecords
    <2>2. record' \in RouteRecords /\ record'.id = record.id /\ record'.auth = record.auth
      BY <1>3, <2>1, RecordWithRefType DEF WriteSecret
    <2>3. /\ IsSecrets(secrets')
          /\ record.auth # "none" => Ref(record.id, record.auth) \in DOMAIN secrets'
      <3>1. CASE record.auth = "none"
        BY <1>0, <1>3, <3>1 DEF WriteSecret, TypeOK, IsSecrets
      <3>2. CASE record.auth # "none"
        <4>1. /\ SecretToWrite # NoSecret /\ call = "write_secret"
              /\ secrets' = Put(secrets, Ref(record.id, record.auth), SecretToWrite)
          BY <1>3, <3>2 DEF WriteSecret
        <4>2. Ref(record.id, record.auth) \in Refs
          BY <2>1, <3>2, RefType DEF AuthModes
        <4>3. SecretToWrite \in SecretValues
          BY <4>1, SecretToWriteType
        <4>4. IsSecrets(secrets)
          BY <1>0 DEF TypeOK, IsSecrets
        <4> DEFINE k == Ref(record.id, record.auth)
        <4>5. k \in Refs
          BY <4>2
        <4>6. secrets' = Put(secrets, k, SecretToWrite)
          BY <4>1
        <4> HIDE DEF k
        <4>7. IsSecrets(secrets') /\ DOMAIN secrets' = DOMAIN secrets \cup {k}
          BY <4>3, <4>4, <4>5, <4>6, PutSecret
        <4>8. k \in DOMAIN secrets'
          BY <4>7
        <4> QED
          BY <4>7, <4>8 DEF k
      <3> QED
        BY <3>1, <3>2
    <2>4. call' = "select_adapter" /\ call = "write_secret" /\ InCall' = InCall
      BY <1>3 DEF WriteSecret, InCall
    <2>5. TypeOK'
      BY <1>0, <1>3, <2>3, <2>4 DEF TypeOK, WriteSecret, IsSecrets
    <2>6. LocalsOK'
      BY <1>0, <1>3, <2>1, <2>2, <2>3, <2>4 DEF LocalsOK, WriteSecret
    <2> QED
      BY <2>5, <2>6 DEF TypeInv
  <1>4. ASSUME SelectAdapter PROVE TypeInv'
    <2>1. record \in RouteRecords
      BY <1>0, <1>4 DEF SelectAdapter, LocalsOK
    <2>2. IsTable(routes')
      BY <1>0, <1>4, <2>1, PutTable DEF SelectAdapter, Stored
    <2>3. call' = "save" /\ call = "select_adapter" /\ InCall' = InCall
      BY <1>4 DEF SelectAdapter, InCall
    <2>4. TypeOK'
      BY <1>0, <1>4, <2>2, <2>3 DEF TypeOK, SelectAdapter
    <2>5. LocalsOK'
      BY <1>0, <1>4, <2>3 DEF LocalsOK, SelectAdapter
    <2> QED
      BY <2>4, <2>5 DEF TypeInv
  <1>5. ASSUME RefuseUpsert PROVE TypeInv'
    <2>1. call # "none" /\ InCall \subseteq RouteIds
      BY <1>0, <1>5 DEF RefuseUpsert, TypeOK
    <2>2. LocalsOK' /\ call' = "none"
      BY <1>0, <1>5, EndCallTypes DEF RefuseUpsert, LocalsOK
    <2>3. IsSecrets(secrets')
      BY <1>0, <1>5, SecretCutType DEF RefuseUpsert, TypeOK, IsSecrets
    <2>4. TypeOK'
      BY <1>0, <1>5, <2>1, <2>2, <2>3 DEF TypeOK, RefuseUpsert, IsSecrets
    <2> QED
      BY <2>2, <2>4 DEF TypeInv
  <1> QED
    BY <1>1, <1>2, <1>3, <1>4, <1>5 DEF Upsert

\* Outside a call every route is looked at.
LEMMA OutsideCall ==
    ASSUME TypeInv, call = "none" PROVE InCall = {NoId} /\ RouteIds \ (disturbed \cup InCall) = RouteIds \ disturbed
  <1>1. InCall = {NoId}
    <2>1. request = NoRequest
      BY DEF TypeInv, LocalsOK
    <2> QED
      BY <2>1 DEF NoRequest, InCall
  <1> QED
    BY <1>1, EmptyStrings

LEMMA TypeNext == TypeInv /\ [Next]_vars => TypeInv'
  <1> SUFFICES ASSUME TypeInv, [Next]_vars PROVE TypeInv'
    OBVIOUS
  <1> USE DEF tables, callVars, answerVars, bounds
  <1>0. TypeOK /\ LocalsOK /\ MaxSwitches \in Nat /\ IsTable(routes) /\ IsTable(disk)
    BY BoundTypes DEF TypeInv, TypeOK
  <1>1. ASSUME Upsert PROVE TypeInv'
    BY <1>1, TypeUpsert
  <1>2. ASSUME NEW id \in RouteIds, NEW enabled \in BOOLEAN, SetRouteEnabled(id, enabled)
        PROVE  TypeInv'
    <2>1. id \in DOMAIN routes /\ routes[id] \in RouteRecords /\ routes[id].id = id
      BY <1>0, <1>2, LookupType DEF SetRouteEnabled, IsTable
    <2>2. record' \in RouteRecords /\ record'.id = id /\ record' = [routes[id] EXCEPT !.enabled = enabled]
      BY <1>2, <2>1 DEF SetRouteEnabled, RouteRecords
    <2>3. routes' = [routes EXCEPT ![id] = record']
      BY <1>2, <2>1, <2>2 DEF SetRouteEnabled
    <2>4. IsTable(routes')
      BY <1>0, <2>1, <2>2, <2>3 DEF IsTable
    <2>5. request'.from = id /\ request'.to = id /\ call' = "save_enabled"
      BY <1>2 DEF SetRouteEnabled, NoRequest
    <2>6. switches' \in 0 .. MaxSwitches
      BY <1>0, <1>2 DEF SetRouteEnabled, TypeOK
    <2>7. TypeOK'
      BY <1>0, <1>2, <2>4, <2>5, <2>6 DEF TypeOK, SetRouteEnabled, InCall
    <2>8. LocalsOK'
      BY <1>0, <1>2, <2>2, <2>5 DEF LocalsOK, SetRouteEnabled
    <2> QED
      BY <2>7, <2>8 DEF TypeInv
  <1>3. ASSUME SaveAndAnswer PROVE TypeInv'
    <2>1. call # "none" /\ InCall \subseteq RouteIds /\ request.from \in RouteIds
          /\ request.to \in RouteIds /\ record.enabled \in BOOLEAN
      BY <1>0, <1>3 DEF SaveAndAnswer, TypeOK, InCall, LocalsOK, RouteRecords
    <2>2. promised' \in [RouteIds -> Promises]
      <3>1. Absent \in Promises
        BY DEF Absent, Promises
      <3>2. CASE call = "save"
        BY <1>0, <1>3, <2>1, <3>1, <3>2, UpsertPromiseType DEF SaveAndAnswer, LocalsOK, TypeInv
      <3>3. CASE call = "save_enabled"
        <4>1. promised[request.to] \in Promises
          BY <1>0, <2>1 DEF LocalsOK
        <4>2. [promised[request.to] EXCEPT !.enabled = record.enabled] \in Promises
          BY <2>1, <4>1 DEF Promises
        <4> QED
          BY <1>0, <1>3, <2>1, <3>3, <4>2 DEF SaveAndAnswer, LocalsOK
      <3> QED
        BY <1>3, <3>2, <3>3 DEF SaveAndAnswer
    <2>3. LocalsOK' /\ call' = "none"
      BY <1>0, <1>3, <2>2, EndCallTypes DEF SaveAndAnswer
    <2>4. disturbed' \subseteq RouteIds
      BY <1>0, <1>3 DEF SaveAndAnswer, TypeOK
    <2>5. TypeOK'
      BY <1>0, <1>3, <2>3, <2>4 DEF TypeOK, SaveAndAnswer, SaveDone, Saved
    <2> QED
      BY <2>3, <2>5 DEF TypeInv
  <1>4. ASSUME SaveFails PROVE TypeInv'
    <2>1. call # "none" /\ InCall \subseteq RouteIds
      BY <1>0, <1>4 DEF SaveFails, TypeOK
    <2>2. LocalsOK' /\ call' = "none"
      BY <1>0, <1>4, EndCallTypes DEF SaveFails, LocalsOK
    <2>3. TypeOK'
      BY <1>0, <1>4, <2>1, <2>2, EmptyTable DEF TypeOK, SaveFails, SaveDone, FileKept, FileRemoved, Saved
    <2> QED
      BY <2>2, <2>3 DEF TypeInv
  <1>5. ASSUME NEW id \in RouteIds, Admit(id) PROVE TypeInv'
    <2>1. TypeOK'
      BY <1>0, <1>5 DEF TypeOK, Admit, InCall
    <2>2. LocalsOK'
      BY <1>0, <1>5 DEF LocalsOK, Admit
    <2> QED
      BY <2>1, <2>2 DEF TypeInv
  <1>6. ASSUME NEW id \in RouteIds, HandleFinished(id) PROVE TypeInv'
    <2>1. IsTable(routes')
      BY <1>0, <1>6, LookupType, PutTable DEF HandleFinished, WithResult, Stored
    <2>2. TypeOK'
      BY <1>0, <1>6, <2>1 DEF TypeOK, HandleFinished, InCall
    <2>3. LocalsOK'
      BY <1>0, <1>6 DEF LocalsOK, HandleFinished
    <2> QED
      BY <2>2, <2>3 DEF TypeInv
  <1>7. ASSUME SaveRoutes PROVE TypeInv'
    <2>1. TypeOK'
      BY <1>0, <1>7, EmptyTable DEF TypeOK, SaveRoutes, SaveDone, FileKept, FileRemoved, Saved, InCall
    <2>2. LocalsOK'
      BY <1>0, <1>7 DEF LocalsOK, SaveRoutes
    <2> QED
      BY <2>1, <2>2 DEF TypeInv
  <1>8. ASSUME Restart PROVE TypeInv'
    <2>1. LocalsOK' /\ call' = "none"
      BY <1>0, <1>8, EndCallTypes DEF Restart, LocalsOK
    <2>2. IsTable(routes') /\ IsTable(disk')
      BY <1>0, <1>8, EmptyTable DEF Restart, EndWith, Saved
    <2>3. InCall \ {NoId} \subseteq RouteIds
      BY <1>0, OutsideCall DEF TypeOK
    <2>4. disturbed' \subseteq RouteIds
      BY <1>0, <1>8, <2>3 DEF Restart, EndWith, TypeOK
    <2>5. IsSecrets(secrets')
      BY <1>0, <1>8, SecretCutType DEF Restart, TypeOK, IsSecrets
    <2>6. TypeOK'
      BY <1>0, <1>8, <2>1, <2>2, <2>4, <2>5 DEF TypeOK, Restart, IsSecrets
    <2> QED
      BY <2>1, <2>6 DEF TypeInv
  <1>9. CASE UNCHANGED vars
    <2>1. TypeOK'
      BY <1>0, <1>9 DEF TypeOK, vars, InCall
    <2>2. LocalsOK'
      BY <1>0, <1>9 DEF LocalsOK, vars
    <2> QED
      BY <2>1, <2>2 DEF TypeInv
  <1> QED
    BY <1>1, <1>2, <1>3, <1>4, <1>5, <1>6, <1>7, <1>8, <1>9 DEF Next

\* Every variable keeps its type; what tables hold is filed under its own id.
THEOREM TypeCorrect == Spec => []TypeOK
  <1>1. TypeInv => TypeOK
    BY DEF TypeInv
  <1> QED
    BY <1>1, TypeInit, TypeNext, PTL DEF Spec

-----------------------------------------------------------------------------
(* References to secret files                                              *)

OwnRefs(r) ==
    /\ r.bearerRef = IF r.auth = "bearer" THEN Ref(r.id, "bearer") ELSE NoSecret
    /\ r.hmacRef = IF r.auth = "hmac" THEN Ref(r.id, "hmac") ELSE NoSecret
OwnTable(t) == \A id \in DOMAIN t \ {NoId} : OwnRefs(t[id])

\* The call's record takes over the references of the route it replaces, so it
\* is in order only from the step that writes the secret on.
RefInv ==
    /\ TypeInv
    /\ OwnTable(routes) /\ OwnTable(disk)
    /\ call \in {"select_adapter", "save"} => OwnRefs(record)

LEMMA RefInvImplies == RefInv => RefsAreOwn
  <1> SUFFICES ASSUME RefInv, NEW t \in {routes, disk}, NEW id \in DOMAIN t \ {NoId}
               PROVE  /\ t[id].bearerRef = IF t[id].auth = "bearer" THEN Ref(id, "bearer") ELSE NoSecret
                      /\ t[id].hmacRef = IF t[id].auth = "hmac" THEN Ref(id, "hmac") ELSE NoSecret
    BY DEF RefsAreOwn
  <1>1. IsTable(t) /\ OwnTable(t)
    BY DEF RefInv, TypeInv, TypeOK
  <1>2. t[id].id = id /\ OwnRefs(t[id])
    BY <1>1 DEF IsTable, OwnTable
  <1> QED
    BY <1>2 DEF OwnRefs

LEMMA RefInit == Init => RefInv
  <1> SUFFICES ASSUME Init PROVE RefInv
    OBVIOUS
  <1>1. OwnTable(routes) /\ OwnTable(disk)
    BY EmptyTable DEF Init, OwnTable
  <1> QED
    BY <1>1, TypeInit DEF RefInv, Init

\* Putting a record that is in order, or the zero record, keeps a table in order.
LEMMA PutOwn ==
    ASSUME NEW t, IsTable(t), OwnTable(t), NEW r \in RouteRecords \cup {Zero}, r = Zero \/ OwnRefs(r)
    PROVE  OwnTable(Put(t, r.id, r))
  <1> SUFFICES ASSUME NEW id \in DOMAIN Put(t, r.id, r) \ {NoId}
               PROVE  OwnRefs(Put(t, r.id, r)[id])
    BY DEF OwnTable
  <1>0. /\ DOMAIN Put(t, r.id, r) = DOMAIN t \cup {r.id}
        /\ Put(t, r.id, r)[r.id] = r
        /\ \A k \in DOMAIN t \ {r.id} : Put(t, r.id, r)[k] = t[k]
    BY PutTable
  <1>1. CASE id = r.id
    <2>1. r # Zero
      BY <1>1, ZeroId
    <2> QED
      BY <1>0, <1>1, <2>1
  <1>2. CASE id # r.id
    <2>1. id \in DOMAIN t \ {NoId} /\ Put(t, r.id, r)[id] = t[id]
      BY <1>0, <1>2
    <2> QED
      BY <2>1 DEF OwnTable
  <1> QED
    BY <1>1, <1>2

LEMMA RefNext == RefInv /\ [Next]_vars => RefInv'
  <1> SUFFICES ASSUME RefInv, [Next]_vars PROVE RefInv'
    OBVIOUS
  <1> USE DEF tables, callVars, answerVars, bounds
  <1>0. /\ TypeInv /\ TypeInv' /\ IsTable(routes) /\ IsTable(disk)
        /\ OwnTable(routes) /\ OwnTable(disk)
    BY TypeNext DEF RefInv, TypeInv, TypeOK
  <1> SUFFICES /\ OwnTable(routes') /\ OwnTable(disk')
               /\ call' \in {"select_adapter", "save"} => OwnRefs(record')
    BY <1>0 DEF RefInv, OwnTable, OwnRefs, Ref
  <1>1. ASSUME NEW q \in Requests, BeginUpsert(q)
        PROVE  OwnTable(routes') /\ disk' = disk /\ call' = "remove_secrets"
    <2>1. OwnTable(Without(routes, {q.from}))
      <3>1. /\ DOMAIN Without(routes, {q.from}) = DOMAIN routes \ {q.from}
            /\ \A k \in DOMAIN routes \ {q.from} : Without(routes, {q.from})[k] = routes[k]
        BY <1>0, WithoutTable
      <3> QED
        BY <1>0, <3>1 DEF OwnTable
    <2> QED
      BY <1>0, <1>1, <2>1 DEF BeginUpsert
  <1>2. ASSUME RemoveSecrets PROVE UNCHANGED tables /\ call' = "write_secret"
    BY <1>2 DEF RemoveSecrets
  <1>3. ASSUME WriteSecret PROVE UNCHANGED tables /\ OwnRefs(record')
    <2>1. record \in RouteRecords
      BY <1>0, <1>3 DEF WriteSecret, TypeInv, LocalsOK
    <2> QED
      BY <1>3, <2>1, RecordWithRefType DEF WriteSecret, OwnRefs
  <1>4. ASSUME SelectAdapter PROVE OwnTable(routes') /\ disk' = disk /\ OwnRefs(record')
    <2>1. record \in RouteRecords /\ OwnRefs(record)
      BY <1>0, <1>4 DEF SelectAdapter, RefInv, TypeInv, LocalsOK
    <2> QED
      BY <1>0, <1>4, <2>1, PutOwn DEF SelectAdapter, Stored
  <1>5. ASSUME RefuseUpsert PROVE UNCHANGED tables /\ call' = "none"
    BY <1>5 DEF RefuseUpsert, EndCall
  <1>6. ASSUME NEW id \in RouteIds, NEW enabled \in BOOLEAN, SetRouteEnabled(id, enabled)
        PROVE  OwnTable(routes') /\ disk' = disk /\ call' = "save_enabled"
    <2>1. id \in DOMAIN routes /\ id # NoId /\ routes[id] \in RouteRecords
      BY <1>0, <1>6, LookupType, EmptyStrings DEF SetRouteEnabled
    <2>2. OwnRefs([routes[id] EXCEPT !.enabled = enabled])
      BY <1>0, <2>1 DEF OwnTable, OwnRefs, RouteRecords
    <2>3. routes' = [routes EXCEPT ![id] = [routes[id] EXCEPT !.enabled = enabled]]
      BY <1>6, <2>1 DEF SetRouteEnabled
    <2>4. OwnTable(routes')
      BY <1>0, <2>1, <2>2, <2>3 DEF OwnTable, IsTable
    <2> QED
      BY <1>6, <2>4 DEF SetRouteEnabled
  <1>7. ASSUME SaveAndAnswer \/ SaveFails
        PROVE  routes' = routes /\ disk' \in {routes, disk, Empty} /\ call' = "none"
    BY <1>7 DEF SaveAndAnswer, SaveFails, SaveDone, FileKept, FileRemoved, Saved, EndCall
  <1>8. ASSUME NEW id \in RouteIds, Admit(id) PROVE UNCHANGED tables /\ call' = "none"
    BY <1>8 DEF Admit
  <1>9. ASSUME NEW id \in RouteIds, HandleFinished(id)
        PROVE  OwnTable(routes') /\ disk' = disk /\ call' = "none"
    <2>1. Lookup(id) \in RouteRecords \cup {Zero} /\ (Lookup(id) = Zero \/ OwnRefs(Lookup(id)))
      BY <1>0, LookupType, EmptyStrings DEF OwnTable
    <2> QED
      BY <1>0, <1>9, <2>1, PutOwn DEF HandleFinished, WithResult, Stored
  <1>10. ASSUME SaveRoutes PROVE routes' = routes /\ disk' \in {routes, disk, Empty} /\ call' = "none"
    BY <1>10 DEF SaveRoutes, SaveDone, FileKept, FileRemoved, Saved
  <1>11. ASSUME Restart PROVE routes' = disk' /\ disk' \in {routes, disk, Empty} /\ call' = "none"
    BY <1>11 DEF Restart, EndWith, Saved, EndCall
  <1>12. CASE UNCHANGED vars
    BY <1>0, <1>12 DEF vars, RefInv
  <1>13. OwnTable(Empty)
    BY EmptyTable DEF OwnTable
  <1> QED
    BY <1>0, <1>13, <1>1, <1>2, <1>3, <1>4, <1>5, <1>6, <1>7, <1>8, <1>9, <1>10, <1>11, <1>12
       DEF Next, Upsert

\* A route refers to its own secret file of its own mode and to no other, in
\* memory and on disk, whatever is renamed, refused, cut short or restarted.
THEOREM RefsOwned == Spec => []RefsAreOwn
  <1> QED
    BY RefInvImplies, RefInit, RefNext, PTL DEF Spec

-----------------------------------------------------------------------------
(* What was answered is kept                                               *)

\* A table and the secret files agree with what was promised of a route.
Agree(t, s, p, id) ==
    /\ id \in DOMAIN t <=> p # Absent
    /\ p # Absent =>
        /\ t[id].enabled = p.enabled /\ t[id].auth = p.auth
        /\ t[id].auth = "none" \/ (Ref(id, t[id].auth) \in DOMAIN s
                                   /\ s[Ref(id, t[id].auth)] = p.secret)
AllAgree(t) == \A id \in RouteIds \ (disturbed \cup InCall) : Agree(t, secrets, promised[id], id)

UpsertCalls == {"remove_secrets", "write_secret", "select_adapter", "save"}
\* The secret of the promise, once its file is written.
SecretKept == secrets[Ref(request.to, request.auth)] = UpsertPromise.secret
\* What a call has done so far agrees with what it will answer.
CallKept ==
    /\ call \in UpsertCalls =>
        /\ request.from \notin disturbed =>
            record.enabled = (Present(request.from) => promised[request.from].enabled)
        /\ request.from # request.to => request.from \notin DOMAIN routes
    /\ call \in {"remove_secrets", "write_secret"} =>
        /\ existing # Zero => existing.id = request.from /\ OwnRefs(existing)
        /\ request.from \notin disturbed /\ existing # Zero
             /\ existing.auth = record.auth /\ record.auth # "none" =>
            /\ Ref(request.from, record.auth) \in DOMAIN secrets
            /\ secrets[Ref(request.from, record.auth)] = promised[request.from].secret
    /\ call \in {"select_adapter", "save"} /\ request.auth # "none" => SecretKept
    /\ call = "save" => request.to \in DOMAIN routes /\ routes[request.to] = record
    /\ call = "save_enabled" =>
        /\ request.from = request.to
        /\ request.to \in DOMAIN routes /\ routes[request.to] = record
        /\ request.to \notin disturbed =>
            Agree(routes, secrets, [promised[request.to] EXCEPT !.enabled = record.enabled], request.to)

\* The file agrees too, unless a save has removed it.
FileAgrees == IF wiped THEN disk = Empty ELSE AllAgree(disk)

KeptInv == RefInv /\ AllAgree(routes) /\ FileAgrees /\ CallKept

LEMMA KeptInvImplies == KeptInv => ServedRoutesKept /\ StoredRoutesKept
  BY DEF KeptInv, FileAgrees, AllAgree, Agree, ServedRoutesKept, StoredRoutesKept, Keeps, Present

LEMMA RefsDiffer ==
    /\ \A i, j \in RouteIds, m, n \in {"bearer", "hmac"} : Ref(i, m) = Ref(j, n) => i = j /\ m = n
    /\ \A i \in RouteIds, m \in {"bearer", "hmac"} : Ref(i, m) # NoSecret
  <1>1. \A i \in RouteIds, m \in {"bearer", "hmac"} : Ref(i, m) # NoSecret
    BY RefType, RefsAreNamed
  <1> QED
    BY <1>1 DEF Ref

LEMMA KeptInit == Init => KeptInv
  <1> SUFFICES ASSUME Init PROVE KeptInv
    OBVIOUS
  <1>1. DOMAIN routes = {} /\ DOMAIN disk = {} /\ call = "none"
    BY EmptyTable DEF Init
  <1>2. \A id \in RouteIds : promised[id] = Absent
    BY DEF Init
  <1>3. AllAgree(routes) /\ AllAgree(disk) /\ ~wiped
    BY <1>1, <1>2 DEF AllAgree, Agree, Init
  <1>4. CallKept
    BY <1>1 DEF CallKept, UpsertCalls
  <1> QED
    BY <1>3, <1>4, RefInit DEF KeptInv, FileAgrees

\* A table that a step leaves alone at a route, with its secret files, agrees
\* as before.
LEMMA Frame ==
    ASSUME NEW t, NEW u, NEW s, NEW v, NEW p, NEW id \in RouteIds,
           Agree(t, s, p, id), id \in DOMAIN t => t[id] \in RouteRecords,
           id \in DOMAIN u <=> id \in DOMAIN t, id \in DOMAIN t => u[id] = t[id],
           \A m \in {"bearer", "hmac"} : Ref(id, m) \in DOMAIN s =>
               Ref(id, m) \in DOMAIN v /\ v[Ref(id, m)] = s[Ref(id, m)]
    PROVE  Agree(u, v, p, id)
  <1>1. id \in DOMAIN t => t[id].auth \in {"none", "bearer", "hmac"}
    BY DEF RouteRecords, AuthModes
  <1> QED
    BY <1>1 DEF Agree

\* A call that has ended is about no route.
LEMMA AfterCall ==
    ASSUME EndCall PROVE InCall' = {NoId}
  BY DEF EndCall, NoRequest, InCall

LEMMA ZeroRefs == Zero.bearerRef = NoSecret /\ Zero.hmacRef = NoSecret
  BY DEF Zero

\* The secret file in use is never among those a call removes.
LEMMA StaleRefs ==
    ASSUME KeptInv, call = "remove_secrets", NEW id \in RouteIds, NEW m \in {"bearer", "hmac"},
           id # request.from \/ m = record.auth
    PROVE  Ref(id, m) \notin Stale
  <1>1. existing = Zero \/ (existing.id = request.from /\ OwnRefs(existing))
    BY DEF KeptInv, CallKept
  <1>2. request.from \in RouteIds /\ record.auth \in AuthModes
    BY DEF KeptInv, RefInv, TypeInv, LocalsOK, Requests, RouteRecords
  <1>3. /\ existing.bearerRef \in {NoSecret, Ref(request.from, "bearer")}
        /\ existing.hmacRef \in {NoSecret, Ref(request.from, "hmac")}
    BY <1>1, ZeroRefs DEF OwnRefs
  <1>4. /\ Ref(id, m) # NoSecret
        /\ Ref(id, m) = Ref(request.from, "bearer") => id = request.from /\ m = "bearer"
        /\ Ref(id, m) = Ref(request.from, "hmac") => id = request.from /\ m = "hmac"
    BY <1>2, RefsDiffer
  <1> QED
    BY <1>2, <1>3, <1>4 DEF Stale, AuthModes

\* The secret that is written is the one the answer will promise: the one
\* given, or the one in use under the same mode.
LEMMA WrittenSecret ==
    ASSUME KeptInv, call = "write_secret", record.auth # "none", SecretToWrite # NoSecret,
           request.secret = NoSecret, request.from \notin disturbed
    PROVE  SecretToWrite = promised[request.from].secret
  <1>1. OldRef \in DOMAIN secrets /\ SecretToWrite = secrets[OldRef]
    BY DEF SecretToWrite
  <1>2. OldRef # NoSecret
    BY <1>1, RefsAreNamed DEF KeptInv, RefInv, TypeInv, TypeOK
  <1>3. record.auth \in {"bearer", "hmac"}
    BY DEF KeptInv, RefInv, TypeInv, LocalsOK, Requests, RouteRecords, AuthModes
  <1>4. existing # Zero
    BY <1>2, ZeroRefs DEF OldRef
  <1>5. existing.id = request.from /\ OwnRefs(existing)
    BY <1>4 DEF KeptInv, CallKept
  <1>6. existing.auth = record.auth /\ OldRef = Ref(request.from, record.auth)
    BY <1>2, <1>3, <1>5 DEF OldRef, OwnRefs
  <1> QED
    BY <1>1, <1>4, <1>6 DEF KeptInv, CallKept

\* The table agrees with the answer of an upsert.
LEMMA AnswerAgrees ==
    ASSUME KeptInv, call = "save"
    PROVE  Agree(routes, secrets, UpsertPromise, request.to)
  <1>1. /\ request.auth \in AuthModes /\ record.auth = request.auth /\ record \in RouteRecords
        /\ record.auth # "none" => Ref(record.id, record.auth) \in DOMAIN secrets
        /\ record.id = request.to
    BY DEF KeptInv, RefInv, TypeInv, LocalsOK, Requests
  <1>2. request.to \in DOMAIN routes /\ routes[request.to] = record
    BY DEF KeptInv, CallKept
  <1>3. UpsertPromise.auth = request.auth /\ UpsertPromise # Absent
    BY <1>1 DEF UpsertPromise, Absent, AuthModes
  <1>4. record.enabled = UpsertPromise.enabled
    BY DEF UpsertPromise, KeptInv, CallKept, UpsertCalls
  <1>5. request.auth # "none" => SecretKept
    BY DEF KeptInv, CallKept
  <1> QED
    BY <1>1, <1>2, <1>3, <1>4, <1>5 DEF Agree, SecretKept

LEMMA InTable ==
    ASSUME NEW t, IsTable(t), NEW id \in RouteIds, id \in DOMAIN t
    PROVE  t[id] \in RouteRecords /\ t[id].id = id
  <1>1. t[id] \in RouteRecords \cup {Zero} /\ t[id].id = id
    BY DEF IsTable
  <1> QED
    BY <1>1, ZeroId

\* A write of a secret that was cut short harms only the routes of its call.
LEMMA SecretsFrame ==
    ASSUME TypeInv, UNCHANGED secrets \/ SecretCut, NEW t, IsTable(t), NEW p,
           NEW id \in RouteIds \ InCall, Agree(t, secrets, p, id)
    PROVE  Agree(t, secrets', p, id)
  <1>1. id \in DOMAIN t => t[id] \in RouteRecords
    BY InTable
  <1> QED
    BY <1>1, SecretCutType, Frame

LEMMA KeptBegin ==
    ASSUME KeptInv, NEW q \in Requests, BeginUpsert(q)
    PROVE  AllAgree(routes)' /\ FileAgrees' /\ CallKept'
  <1> USE DEF tables, callVars, answerVars, bounds
  <1>0. /\ TypeInv /\ IsTable(routes) /\ OwnTable(routes) /\ AllAgree(routes) /\ FileAgrees
        /\ q.from \in RouteIds /\ q.to \in RouteIds
    BY DEF KeptInv, RefInv, TypeInv, TypeOK, Requests
  <1>1. RouteIds \ (disturbed \cup InCall) = RouteIds \ disturbed
    BY <1>0, OutsideCall DEF BeginUpsert
  <1>2. /\ request' = q /\ InCall' = {q.from, q.to} /\ UNCHANGED <<disk, wiped, secrets, promised, disturbed>>
        /\ existing' = Lookup(q.from) /\ record' = RecordFor(q, Lookup(q.from))
        /\ call' = "remove_secrets"
    BY DEF BeginUpsert, InCall
  <1>3. /\ q.from # q.to => q.from \notin DOMAIN routes'
        /\ \A id \in RouteIds \ {q.from} : /\ id \in DOMAIN routes' <=> id \in DOMAIN routes
                                           /\ id \in DOMAIN routes => routes'[id] = routes[id]
    <2>1. /\ DOMAIN Without(routes, {q.from}) = DOMAIN routes \ {q.from}
          /\ \A k \in DOMAIN routes \ {q.from} : Without(routes, {q.from})[k] = routes[k]
      BY <1>0, WithoutTable
    <2> QED
      BY <2>1 DEF BeginUpsert
  <1>4. FileAgrees'
    BY <1>0, <1>1, <1>2 DEF FileAgrees, AllAgree
  <1>5. ASSUME NEW id \in RouteIds \ (disturbed' \cup InCall')
        PROVE  Agree(routes', secrets', promised'[id], id)
    <2>1. id \in RouteIds \ disturbed /\ id # q.from
      BY <1>2, <1>5
    <2>2. Agree(routes, secrets, promised[id], id)
      BY <1>0, <1>1, <2>1 DEF AllAgree
    <2>3. id \in DOMAIN routes => routes[id] \in RouteRecords
      BY <1>0, InTable
    <2> QED
      BY <1>2, <1>3, <2>1, <2>2, <2>3, Frame
  <1>6. AllAgree(routes)'
    BY <1>5 DEF AllAgree
  <1>7. /\ existing' \in RouteRecords \cup {Zero}
        /\ q.from \in DOMAIN routes => existing' = routes[q.from] /\ existing' \in RouteRecords
        /\ q.from \notin DOMAIN routes => existing' = Zero
        /\ record'.auth = q.auth
        /\ record'.enabled = IF existing' = Zero THEN TRUE ELSE existing'.enabled
    BY <1>0, <1>2, LookupType, RecordForType
  <1>8. existing' # Zero => q.from \in DOMAIN routes /\ existing'.id = q.from /\ OwnRefs(existing')
    BY <1>0, <1>7, EmptyStrings DEF IsTable, OwnTable
  <1>9. ASSUME q.from \notin disturbed
        PROVE  /\ record'.enabled = (Present(q.from) => promised[q.from].enabled)
               /\ existing' # Zero /\ existing'.auth = record'.auth /\ record'.auth # "none" =>
                    /\ Ref(q.from, record'.auth) \in DOMAIN secrets
                    /\ secrets[Ref(q.from, record'.auth)] = promised[q.from].secret
    <2>1. Agree(routes, secrets, promised[q.from], q.from)
      BY <1>0, <1>1, <1>9 DEF AllAgree
    <2>2. q.from \in DOMAIN routes => existing' # Zero
      BY <1>7, ZeroId, RecordId
    <2>3. CASE q.from \in DOMAIN routes
      <3>1. /\ Present(q.from) /\ existing' = routes[q.from] /\ existing' # Zero
            /\ existing'.enabled = promised[q.from].enabled
        BY <1>7, <2>1, <2>2, <2>3 DEF Agree, Present
      <3>2. promised[q.from].enabled \in BOOLEAN
        BY <1>0 DEF TypeInv, LocalsOK, Promises
      <3>3. record'.enabled = promised[q.from].enabled
        BY <1>7, <3>1
      <3> QED
        BY <2>1, <2>3, <3>1, <3>2, <3>3 DEF Agree, Present
    <2>4. CASE q.from \notin DOMAIN routes
      BY <1>7, <2>1, <2>4 DEF Agree, Present
    <2> QED
      BY <2>3, <2>4
  <1>10. CallKept'
    BY <1>2, <1>3, <1>8, <1>9 DEF CallKept, UpsertCalls, OwnRefs, Present, Ref
  <1> QED
    BY <1>4, <1>6, <1>10

LEMMA KeptRemove ==
    ASSUME KeptInv, RemoveSecrets
    PROVE  AllAgree(routes)' /\ FileAgrees' /\ CallKept'
  <1> USE DEF tables, callVars, answerVars, bounds
  <1>0. /\ TypeInv /\ IsTable(routes) /\ IsTable(disk) /\ IsSecrets(secrets)
        /\ AllAgree(routes) /\ FileAgrees /\ CallKept /\ call = "remove_secrets"
    BY DEF KeptInv, RefInv, TypeInv, TypeOK, RemoveSecrets, IsSecrets
  <1>1. /\ InCall' = InCall /\ UNCHANGED <<routes, disk, wiped, promised, disturbed, request, record, existing>>
        /\ call' = "write_secret"
    BY DEF RemoveSecrets, InCall
  <1>2. \A k \in DOMAIN secrets \ Stale : k \in DOMAIN secrets' /\ secrets'[k] = secrets[k]
    <2>1. PICK gone \in SUBSET Stale : secrets' = Without(secrets, gone)
      BY DEF RemoveSecrets
    <2>2. /\ DOMAIN Without(secrets, gone) = DOMAIN secrets \ gone
          /\ \A j \in DOMAIN secrets \ gone : Without(secrets, gone)[j] = secrets[j]
      BY <1>0, WithoutSecrets
    <2> QED
      BY <2>1, <2>2
  <1>3. \A id \in RouteIds, m \in {"bearer", "hmac"} :
            (id # request.from \/ m = record.auth) /\ Ref(id, m) \in DOMAIN secrets =>
                Ref(id, m) \in DOMAIN secrets' /\ secrets'[Ref(id, m)] = secrets[Ref(id, m)]
    BY <1>0, <1>2, StaleRefs
  <1>4. ASSUME NEW t, IsTable(t), AllAgree(t), NEW id \in RouteIds \ (disturbed' \cup InCall')
        PROVE  Agree(t, secrets', promised'[id], id)
    <2>1. id \in RouteIds \ (disturbed \cup InCall) /\ id # request.from /\ promised'[id] = promised[id]
      BY <1>1, <1>4 DEF InCall
    <2>2. Agree(t, secrets, promised[id], id)
      BY <1>4, <2>1 DEF AllAgree
    <2>3. id \in DOMAIN t => t[id] \in RouteRecords
      BY <1>4, InTable
    <2> QED
      BY <1>3, <2>1, <2>2, <2>3, Frame
  <1>5. AllAgree(routes)' /\ FileAgrees'
    BY <1>0, <1>1, <1>4 DEF FileAgrees, AllAgree
  <1>6. request.from \in RouteIds /\ record.auth \in {"none", "bearer", "hmac"}
    BY <1>0 DEF TypeInv, LocalsOK, Requests, RouteRecords, AuthModes
  <1>7. record.auth # "none" /\ Ref(request.from, record.auth) \in DOMAIN secrets =>
            /\ Ref(request.from, record.auth) \in DOMAIN secrets'
            /\ secrets'[Ref(request.from, record.auth)] = secrets[Ref(request.from, record.auth)]
    BY <1>3, <1>6
  <1>8. CallKept'
    BY <1>0, <1>1, <1>7 DEF CallKept, UpsertCalls, OwnRefs, Present, Ref
  <1> QED
    BY <1>5, <1>8

LEMMA KeptWrite ==
    ASSUME KeptInv, WriteSecret
    PROVE  AllAgree(routes)' /\ FileAgrees' /\ CallKept'
  <1> USE DEF tables, callVars, answerVars, bounds
  <1>0. /\ TypeInv /\ IsTable(routes) /\ IsTable(disk) /\ IsSecrets(secrets)
        /\ AllAgree(routes) /\ FileAgrees /\ CallKept /\ call = "write_secret"
    BY DEF KeptInv, RefInv, TypeInv, TypeOK, WriteSecret, IsSecrets
  <1>1. /\ InCall' = InCall /\ UNCHANGED <<routes, disk, wiped, promised, disturbed, request>>
        /\ call' = "select_adapter"
    BY DEF WriteSecret, InCall
  <1>2. /\ record \in RouteRecords /\ record.id = request.to /\ record.auth = request.auth
        /\ request.from \in RouteIds /\ request.to \in RouteIds
        /\ record.auth \in {"none", "bearer", "hmac"}
    BY <1>0 DEF TypeInv, LocalsOK, Requests, RouteRecords, AuthModes
  <1>3. record'.enabled = record.enabled
    BY <1>2, RecordWithRefType DEF WriteSecret
  <1> DEFINE k == Ref(request.to, request.auth)
  <1>4. record.auth # "none" =>
            /\ SecretToWrite # NoSecret /\ secrets'[k] = SecretToWrite
            /\ \A j \in DOMAIN secrets \ {k} : j \in DOMAIN secrets' /\ secrets'[j] = secrets[j]
    <2> SUFFICES ASSUME record.auth # "none"
                 PROVE  /\ SecretToWrite # NoSecret /\ secrets'[k] = SecretToWrite
                        /\ \A j \in DOMAIN secrets \ {k} : j \in DOMAIN secrets' /\ secrets'[j] = secrets[j]
      OBVIOUS
    <2>1. SecretToWrite # NoSecret /\ secrets' = Put(secrets, k, SecretToWrite)
      BY <1>2 DEF WriteSecret
    <2>2. k \in Refs /\ SecretToWrite \in SecretValues
      BY <1>0, <1>2, <2>1, RefType, SecretToWriteType
    <2> HIDE DEF k
    <2>3. /\ DOMAIN Put(secrets, k, SecretToWrite) = DOMAIN secrets \cup {k}
          /\ Put(secrets, k, SecretToWrite)[k] = SecretToWrite
          /\ \A j \in DOMAIN secrets \ {k} : Put(secrets, k, SecretToWrite)[j] = secrets[j]
      BY <1>0, <2>2, PutSecret
    <2> QED
      BY <2>1, <2>3
  <1>5. \A id \in RouteIds \ {request.to}, m \in {"bearer", "hmac"} : Ref(id, m) \in DOMAIN secrets =>
            Ref(id, m) \in DOMAIN secrets' /\ secrets'[Ref(id, m)] = secrets[Ref(id, m)]
    <2>1. CASE record.auth = "none"
      BY <2>1 DEF WriteSecret
    <2>2. CASE record.auth # "none"
      BY <1>2, <1>4, <2>2, RefsDiffer
    <2> QED
      BY <2>1, <2>2
  <1>6. ASSUME NEW t, IsTable(t), AllAgree(t), NEW id \in RouteIds \ (disturbed' \cup InCall')
        PROVE  Agree(t, secrets', promised'[id], id)
    <2>1. id \in RouteIds \ (disturbed \cup InCall) /\ id # request.to /\ promised'[id] = promised[id]
      BY <1>1, <1>6 DEF InCall
    <2>2. Agree(t, secrets, promised[id], id)
      BY <1>6, <2>1 DEF AllAgree
    <2>3. id \in DOMAIN t => t[id] \in RouteRecords
      BY <1>6, InTable
    <2> QED
      BY <1>5, <2>1, <2>2, <2>3, Frame
  <1>7. AllAgree(routes)' /\ FileAgrees'
    BY <1>0, <1>1, <1>6 DEF FileAgrees, AllAgree
  <1>8. request.auth # "none" => SecretKept'
    <2> SUFFICES ASSUME request.auth # "none" PROVE SecretKept'
      OBVIOUS
    <2>1. SecretToWrite # NoSecret /\ secrets'[k] = SecretToWrite
      BY <1>2, <1>4
    <2>2. SecretToWrite = IF request.secret # NoSecret THEN request.secret
                          ELSE IF request.from \in disturbed THEN secrets'[k]
                          ELSE promised[request.from].secret
      <3>1. CASE request.secret # NoSecret
        BY <3>1 DEF SecretToWrite
      <3>2. CASE request.secret = NoSecret /\ request.from \in disturbed
        BY <2>1, <3>2
      <3>3. CASE request.secret = NoSecret /\ request.from \notin disturbed
        BY <1>0, <1>2, <2>1, <3>3, WrittenSecret
      <3> QED
        BY <3>1, <3>2, <3>3
    <2>3. UpsertPromise'.secret = IF request.secret # NoSecret THEN request.secret
                                  ELSE IF request.from \in disturbed THEN secrets'[k]
                                  ELSE promised[request.from].secret
      BY <1>1 DEF UpsertPromise, Ref
    <2> QED
      BY <1>1, <2>1, <2>2, <2>3 DEF SecretKept, Ref
  <1>9. CallKept'
    BY <1>0, <1>1, <1>3, <1>8 DEF CallKept, UpsertCalls, Present
  <1> QED
    BY <1>7, <1>9

LEMMA KeptSelect ==
    ASSUME KeptInv, SelectAdapter
    PROVE  AllAgree(routes)' /\ FileAgrees' /\ CallKept'
  <1> USE DEF tables, callVars, answerVars, bounds
  <1>0. /\ TypeInv /\ IsTable(routes) /\ AllAgree(routes) /\ FileAgrees /\ CallKept
        /\ call = "select_adapter" /\ record \in RouteRecords /\ record.id = request.to
    BY DEF KeptInv, RefInv, TypeInv, TypeOK, LocalsOK, SelectAdapter
  <1>1. /\ InCall' = InCall /\ UNCHANGED <<disk, wiped, secrets, promised, disturbed, request, record>>
        /\ call' = "save" /\ routes' = Put(routes, record.id, record)
    BY DEF SelectAdapter, InCall, Stored
  <1>2. /\ DOMAIN routes' = DOMAIN routes \cup {request.to} /\ routes'[request.to] = record
        /\ \A id \in DOMAIN routes \ {request.to} : routes'[id] = routes[id]
    <2>1. /\ DOMAIN Put(routes, record.id, record) = DOMAIN routes \cup {record.id}
          /\ Put(routes, record.id, record)[record.id] = record
          /\ \A id \in DOMAIN routes \ {record.id} : Put(routes, record.id, record)[id] = routes[id]
      BY <1>0, PutTable
    <2> QED
      BY <1>0, <1>1, <2>1
  <1>3. ASSUME NEW id \in RouteIds \ (disturbed' \cup InCall')
        PROVE  Agree(routes', secrets', promised'[id], id)
    <2>1. id \in RouteIds \ (disturbed \cup InCall) /\ id # request.to
      BY <1>1, <1>3 DEF InCall
    <2>2. Agree(routes, secrets, promised[id], id)
      BY <1>0, <2>1 DEF AllAgree
    <2> QED
      BY <1>1, <1>2, <2>1, <2>2 DEF Agree
  <1>4. AllAgree(routes)' /\ FileAgrees'
    BY <1>0, <1>1, <1>3 DEF FileAgrees, AllAgree
  <1>5. request.auth # "none" => SecretKept'
    BY <1>0, <1>1 DEF CallKept, SecretKept, UpsertPromise, Ref, Present
  <1>6. CallKept'
    BY <1>0, <1>1, <1>2, <1>5 DEF CallKept, UpsertCalls, Present
  <1> QED
    BY <1>4, <1>6

LEMMA KeptSwitch ==
    ASSUME KeptInv, NEW id \in RouteIds, NEW enabled \in BOOLEAN, SetRouteEnabled(id, enabled)
    PROVE  AllAgree(routes)' /\ FileAgrees' /\ CallKept'
  <1> USE DEF tables, callVars, answerVars, bounds
  <1>0. /\ TypeInv /\ IsTable(routes) /\ AllAgree(routes) /\ FileAgrees
        /\ id \in DOMAIN routes /\ routes[id] \in RouteRecords
    BY InTable DEF KeptInv, RefInv, TypeInv, TypeOK, SetRouteEnabled
  <1>1. RouteIds \ (disturbed \cup InCall) = RouteIds \ disturbed
    BY <1>0, OutsideCall DEF SetRouteEnabled
  <1>2. /\ request'.from = id /\ request'.to = id /\ InCall' = {id} /\ call' = "save_enabled"
        /\ UNCHANGED <<disk, wiped, secrets, promised, disturbed>>
        /\ record' = [routes[id] EXCEPT !.enabled = enabled]
    BY DEF SetRouteEnabled, InCall, NoRequest
  <1>3. routes' = [routes EXCEPT ![id] = record']
    BY <1>0, <1>2 DEF SetRouteEnabled
  <1>4. routes \in [DOMAIN routes -> RouteRecords \cup {Zero}]
    BY <1>0 DEF IsTable
  <1>5. /\ DOMAIN routes' = DOMAIN routes /\ routes'[id] = record'
        /\ \A j \in DOMAIN routes \ {id} : routes'[j] = routes[j]
    BY <1>0, <1>3, <1>4
  <1>6. ASSUME NEW j \in RouteIds \ (disturbed' \cup InCall')
        PROVE  Agree(routes', secrets', promised'[j], j)
    <2>1. j \in RouteIds \ disturbed /\ j # id
      BY <1>2, <1>6
    <2>2. Agree(routes, secrets, promised[j], j)
      BY <1>0, <1>1, <2>1 DEF AllAgree
    <2> QED
      BY <1>2, <1>5, <2>1, <2>2 DEF Agree
  <1>7. AllAgree(routes)' /\ FileAgrees'
    BY <1>0, <1>1, <1>2, <1>6 DEF FileAgrees, AllAgree
  <1>8. ASSUME id \notin disturbed
        PROVE  Agree(routes', secrets, [promised[id] EXCEPT !.enabled = record'.enabled], id)
    <2>1. Agree(routes, secrets, promised[id], id)
      BY <1>0, <1>1, <1>8 DEF AllAgree
    <2>2. /\ promised[id].auth = routes[id].auth /\ routes[id].auth \in AuthModes
          /\ promised[id] \in Promises
      BY <1>0, <2>1 DEF Agree, RouteRecords, TypeInv, LocalsOK
    <2> DEFINE p == [promised[id] EXCEPT !.enabled = record'.enabled]
    <2>3. p.enabled = record'.enabled /\ p.auth = promised[id].auth /\ p.secret = promised[id].secret
      BY <2>2 DEF Promises
    <2>4. p # Absent
      BY <2>2, <2>3 DEF Absent, AuthModes
    <2>5. record'.auth = routes[id].auth
      BY <1>0, <1>2 DEF RouteRecords
    <2> HIDE DEF p
    <2>6. Agree(routes', secrets, p, id)
      BY <1>0, <1>5, <2>1, <2>3, <2>4, <2>5 DEF Agree
    <2> QED
      BY <2>6 DEF p
  <1>9. CallKept'
    BY <1>0, <1>2, <1>5, <1>8 DEF CallKept, UpsertCalls
  <1> QED
    BY <1>7, <1>9

LEMMA KeptAnswer ==
    ASSUME KeptInv, SaveAndAnswer
    PROVE  AllAgree(routes)' /\ FileAgrees' /\ CallKept'
  <1> USE DEF tables, callVars, answerVars, bounds
  <1>0. /\ TypeInv /\ AllAgree(routes) /\ CallKept /\ promised \in [RouteIds -> Promises]
        /\ request.from \in RouteIds /\ request.to \in RouteIds
    BY DEF KeptInv, RefInv, TypeInv, TypeOK, LocalsOK, SaveAndAnswer, InCall
  <1>1. /\ disk' = routes /\ ~wiped' /\ UNCHANGED <<routes, secrets>> /\ InCall' = {NoId} /\ call' = "none"
    BY AfterCall DEF SaveAndAnswer, SaveDone, Saved, EndCall
  <1>2. ASSUME NEW id \in RouteIds \ disturbed' PROVE Agree(routes, secrets, promised'[id], id)
    <2>1. CASE call = "save"
      <3>1. /\ promised' = [promised EXCEPT ![request.from] = Absent, ![request.to] = UpsertPromise]
            /\ disturbed' = disturbed \ InCall
        BY <2>1 DEF SaveAndAnswer
      <3>2. CASE id = request.to
        <4>1. promised'[id] = UpsertPromise
          BY <1>0, <3>1, <3>2
        <4> QED
          BY <2>1, <3>2, <4>1, AnswerAgrees
      <3>3. CASE id = request.from /\ id # request.to
        <4>1. promised'[id] = Absent /\ id \notin DOMAIN routes
          BY <1>0, <2>1, <3>1, <3>3 DEF CallKept, UpsertCalls
        <4> QED
          BY <4>1 DEF Agree
      <3>4. CASE id # request.from /\ id # request.to
        <4>1. promised'[id] = promised[id] /\ id \in RouteIds \ (disturbed \cup InCall)
          BY <1>0, <1>2, <3>1, <3>4 DEF InCall
        <4> QED
          BY <1>0, <4>1 DEF AllAgree
      <3> QED
        BY <3>2, <3>3, <3>4
    <2>2. CASE call = "save_enabled"
      <3>1. /\ promised' = IF request.to \in disturbed THEN promised
                           ELSE [promised EXCEPT ![request.to].enabled = record.enabled]
            /\ disturbed' = disturbed /\ request.from = request.to
        BY <1>0, <2>2 DEF SaveAndAnswer, CallKept
      <3>2. CASE id = request.to
        <4>1. promised'[id] = [promised[id] EXCEPT !.enabled = record.enabled]
          BY <1>0, <1>2, <3>1, <3>2
        <4> QED
          BY <1>0, <1>2, <2>2, <3>1, <3>2, <4>1 DEF CallKept
      <3>3. CASE id # request.to
        <4>1. promised'[id] = promised[id] /\ id \in RouteIds \ (disturbed \cup InCall)
          BY <1>0, <1>2, <3>1, <3>3 DEF InCall
        <4> QED
          BY <1>0, <4>1 DEF AllAgree
      <3> QED
        BY <3>2, <3>3
    <2> QED
      BY <2>1, <2>2 DEF SaveAndAnswer
  <1>3. AllAgree(routes)' /\ FileAgrees'
    BY <1>1, <1>2 DEF FileAgrees, AllAgree
  <1>4. CallKept'
    BY <1>1 DEF CallKept, UpsertCalls
  <1> QED
    BY <1>3, <1>4

LEMMA KeptNext == KeptInv /\ [Next]_vars => KeptInv'
  <1> SUFFICES ASSUME KeptInv, [Next]_vars PROVE KeptInv'
    OBVIOUS
  <1> USE DEF tables, callVars, answerVars, bounds
  <1>0. /\ RefInv' /\ TypeInv /\ IsTable(routes) /\ IsTable(disk)
        /\ AllAgree(routes) /\ FileAgrees /\ CallKept
    BY RefNext DEF KeptInv, RefInv, TypeInv, TypeOK
  <1> SUFFICES AllAgree(routes)' /\ FileAgrees' /\ CallKept'
    BY <1>0 DEF KeptInv
  <1>1. ASSUME NEW q \in Requests, BeginUpsert(q)
        PROVE  AllAgree(routes)' /\ FileAgrees' /\ CallKept'
    BY <1>1, KeptBegin
  \* A call that ends without an answer leaves its routes out of the promise.
  <1>2. ASSUME RefuseUpsert
        PROVE  AllAgree(routes)' /\ FileAgrees' /\ CallKept'
    <2>1. InCall' = {NoId} /\ call' = "none" /\ UNCHANGED <<routes, disk, wiped, promised>>
          /\ disturbed' = disturbed \cup InCall
      BY <1>2, AfterCall DEF RefuseUpsert, EndCall
    <2>2. UNCHANGED secrets \/ SecretCut
      BY <1>2 DEF RefuseUpsert
    <2>3. AllAgree(routes)' /\ (AllAgree(disk) => AllAgree(disk)')
      BY <1>0, <2>1, <2>2, SecretsFrame DEF AllAgree
    <2> QED
      BY <1>0, <2>1, <2>3 DEF FileAgrees, CallKept, UpsertCalls
  <1>3. ASSUME SaveFails
        PROVE  AllAgree(routes)' /\ FileAgrees' /\ CallKept'
    <2>1. InCall' = {NoId} /\ call' = "none" /\ UNCHANGED <<routes, secrets, promised>>
          /\ disturbed' = disturbed \cup InCall
          /\ (SaveDone \/ FileKept \/ FileRemoved)
      BY <1>3, AfterCall DEF SaveFails, EndCall
    <2>2. AllAgree(routes)' /\ (AllAgree(disk) /\ disk' = disk => AllAgree(disk)')
      BY <1>0, <2>1 DEF AllAgree
    <2>3. FileAgrees'
      BY <1>0, <2>1, <2>2 DEF FileAgrees, AllAgree, SaveDone, FileKept, FileRemoved, Saved
    <2> QED
      BY <2>1, <2>2, <2>3 DEF CallKept, UpsertCalls
  <1>4. ASSUME Restart
        PROVE  AllAgree(routes)' /\ FileAgrees' /\ CallKept'
    <2>1. UNCHANGED promised /\ EndCall /\ ~wiped' /\ (UNCHANGED secrets \/ SecretCut)
      BY <1>4 DEF Restart
    <2>2. InCall' = {NoId} /\ call' = "none"
      BY <2>1, AfterCall DEF EndCall
    <2>3. routes' = disk' /\ disturbed \cup (InCall \ {NoId}) \subseteq disturbed'
      BY <1>4 DEF Restart, EndWith
    <2>4. RouteIds \ (disturbed' \cup InCall') \subseteq RouteIds \ (disturbed \cup InCall)
      BY <2>2, <2>3, EmptyStrings
    <2>5. ASSUME NEW t, IsTable(t), AllAgree(t), disk' = t PROVE AllAgree(routes)'
      <3>1. \A id \in RouteIds \ (disturbed' \cup InCall') : Agree(t, secrets', promised[id], id)
        BY <1>0, <2>1, <2>4, <2>5, SecretsFrame DEF AllAgree
      <3> QED
        BY <2>1, <2>3, <2>5, <3>1 DEF AllAgree
    <2>6. ASSUME disk' = Empty, {id \in RouteIds : Present(id)} \subseteq disturbed' PROVE AllAgree(routes)'
      BY <2>1, <2>3, <2>6, EmptyTable DEF AllAgree, Agree, Present
    <2>7. AllAgree(routes)'
      <3>1. CASE EndWith(disk, wiped) /\ ~wiped
        BY <1>0, <2>5, <3>1 DEF EndWith, FileAgrees
      <3>2. CASE EndWith(disk, wiped) /\ wiped
        BY <1>0, <2>6, <3>2 DEF EndWith, FileAgrees
      <3>3. CASE EndWith(Saved, FALSE)
        BY <1>0, <2>5, <3>3 DEF EndWith, Saved
      <3>4. CASE EndWith(Empty, TRUE)
        BY <2>6, <3>4 DEF EndWith
      <3> QED
        BY <1>4, <3>1, <3>2, <3>3, <3>4 DEF Restart
    <2>8. AllAgree(disk)'
      BY <2>3, <2>7 DEF AllAgree
    <2> QED
      BY <2>1, <2>2, <2>7, <2>8 DEF FileAgrees, CallKept, UpsertCalls
  \* A finished run puts a record back as it is, or one under no route's id.
  <1>5. ASSUME NEW id \in RouteIds, HandleFinished(id)
        PROVE  AllAgree(routes)' /\ FileAgrees' /\ CallKept'
    <2>1. /\ UNCHANGED <<disk, secrets, callVars, answerVars>> /\ call = "none"
          /\ routes' = Put(routes, Lookup(id).id, Lookup(id))
      BY <1>5 DEF HandleFinished, WithResult, Stored
    <2>2. \A j \in RouteIds : /\ j \in DOMAIN routes' <=> j \in DOMAIN routes
                              /\ j \in DOMAIN routes => routes'[j] = routes[j]
      <3>1. CASE id \in DOMAIN routes
        <4>1. Lookup(id) = routes[id] /\ routes[id].id = id
          BY <1>0, <3>1, LookupType, InTable
        <4> QED
          BY <2>1, <3>1, <4>1 DEF Put
      <3>2. CASE id \notin DOMAIN routes
        <4>1. Lookup(id) = Zero /\ Lookup(id).id \notin RouteIds
          BY <1>0, <3>2, LookupType, ZeroId
        <4> QED
          BY <2>1, <4>1 DEF Put
      <3> QED
        BY <3>1, <3>2
    <2>3. InCall' = InCall
      BY <2>1 DEF InCall
    <2>4. AllAgree(routes)' /\ FileAgrees'
      BY <1>0, <2>1, <2>2, <2>3 DEF FileAgrees, AllAgree, Agree
    <2> QED
      BY <2>1, <2>4 DEF CallKept, UpsertCalls
  <1>6. ASSUME SaveRoutes
        PROVE  AllAgree(routes)' /\ FileAgrees' /\ CallKept'
    <2>1. /\ UNCHANGED <<routes, secrets, callVars, promised, disturbed>> /\ call = "none"
          /\ SaveDone \/ FileKept \/ FileRemoved
          /\ InCall' = InCall
      BY <1>6 DEF SaveRoutes, InCall
    <2>2. AllAgree(routes)' /\ (AllAgree(disk) /\ disk' = disk => AllAgree(disk)')
      BY <1>0, <2>1 DEF AllAgree
    <2>3. FileAgrees'
      BY <1>0, <2>1, <2>2 DEF FileAgrees, AllAgree, SaveDone, FileKept, FileRemoved, Saved
    <2> QED
      BY <2>1, <2>2, <2>3 DEF CallKept, UpsertCalls
  <1>7. ASSUME UNCHANGED <<tables, secrets, callVars, answerVars>>
        PROVE  AllAgree(routes)' /\ FileAgrees' /\ CallKept'
    <2>1. InCall' = InCall
      BY <1>7 DEF InCall
    <2>2. CallKept'
      BY <1>0, <1>7 DEF CallKept, UpsertCalls, Present, SecretKept, UpsertPromise, Ref, OwnRefs
    <2> QED
      BY <1>0, <1>7, <2>1, <2>2 DEF FileAgrees, AllAgree
  <1>8. ASSUME NEW id \in RouteIds, Admit(id) PROVE UNCHANGED <<tables, secrets, callVars, answerVars>>
    BY <1>8 DEF Admit
  <1>9. CASE UNCHANGED vars
    BY <1>7, <1>9 DEF vars
  <1> QED
    BY <1>1, <1>2, <1>3, <1>4, <1>5, <1>6, <1>7, <1>8, <1>9,
       KeptRemove, KeptWrite, KeptSelect, KeptSwitch, KeptAnswer
       DEF Next, Upsert

\* The table the daemon serves from holds what the operator was last answered,
\* for every route that no failed or interrupted call and no start without
\* routes.json has touched since.
THEOREM ServedKept == Spec => []ServedRoutesKept
  <1> QED
    BY KeptInvImplies, KeptInit, KeptNext, PTL DEF Spec

\* So do routes.json and the secret files, whenever the process ends, unless
\* a save has removed the file: then it is empty.
THEOREM StoredKept == Spec => []StoredRoutesKept
  <1> QED
    BY KeptInvImplies, KeptInit, KeptNext, PTL DEF Spec
=============================================================================
