-------------------- MODULE PacketReplicationStoreProofs --------------------
(***************************************************************************)
(* The App DB matches the cache after every request: StoreInv is an       *)
(* inductive invariant and implies StoreMatchesCache.                      *)
(***************************************************************************)
EXTENDS PacketReplicationProofs

(* What the serializer writes for an update: the key of its group, and a  *)
(* SET of the replicas' fields unless it is a DELETE.                      *)
LEMMA SerializedShape ==
  ASSUME NEW req \in Request
  PROVE  /\ Serialized(req).key = Key(req.entry.group_id)
         /\ Serialized(req).op = "SET" <=> req.type # "DELETE"
         /\ Serialized(req).op = "SET" =>
              Serialized(req).fields = ReplicaFields(req.entry.replicas)
BY DEF Serialized, CreatePacketReplicationTableUpdateForAppDb, CreateEntryForInsert,
       CreateEntryForDelete, Key

(* Applying the serialized update of req to the App DB leaves its group as *)
(* the update says, and every other group's key as it was.                 *)
LEMMA ApplySerialized ==
  ASSUME NEW db, NEW req \in Request, NEW g \in GroupIds,
         req.entry.group_id \in GroupIds
  PROVE  LET db2 == ApplyKfv(db, Serialized(req))
             k   == Key(g)
         IN  /\ g = req.entry.group_id =>
                  /\ k \in DOMAIN db2 <=> req.type # "DELETE"
                  /\ k \in DOMAIN db2 => db2[k] = ReplicaFields(req.entry.replicas)
             /\ g # req.entry.group_id =>
                  /\ k \in DOMAIN db2 <=> k \in DOMAIN db
                  /\ k \in DOMAIN db2 => db2[k] = db[k]
<1> DEFINE kfv == Serialized(req)
           db2 == ApplyKfv(db, kfv)
           k   == Key(g)
<1> SUFFICES /\ g = req.entry.group_id =>
                  /\ k \in DOMAIN db2 <=> req.type # "DELETE"
                  /\ k \in DOMAIN db2 => db2[k] = ReplicaFields(req.entry.replicas)
             /\ g # req.entry.group_id =>
                  /\ k \in DOMAIN db2 <=> k \in DOMAIN db
                  /\ k \in DOMAIN db2 => db2[k] = db[k]
  OBVIOUS
<1>1. kfv.key = Key(req.entry.group_id)
  BY SerializedShape
<1>2. g # req.entry.group_id => k # kfv.key
  BY <1>1, KeyAssumption
<1>3. CASE req.type # "DELETE"
  <2>1. db2 = Bind(db, kfv.key, ReplicaFields(req.entry.replicas))
    BY <1>3, SerializedShape DEF ApplyKfv
  <2>2. DOMAIN db2 = DOMAIN db \cup {kfv.key}
    BY <2>1 DEF Bind
  <2>3. \A x \in DOMAIN db2 : db2[x] = IF x = kfv.key THEN ReplicaFields(req.entry.replicas) ELSE db[x]
    BY <2>1 DEF Bind
  <2>4. QED
    BY <1>1, <1>2, <1>3, <2>2, <2>3
<1>4. CASE req.type = "DELETE"
  <2>1. db2 = Restrict(db, DOMAIN db \ {kfv.key})
    BY <1>4, SerializedShape DEF ApplyKfv
  <2>2. DOMAIN db2 = DOMAIN db \ {kfv.key}
    BY <2>1 DEF Restrict
  <2>3. \A x \in DOMAIN db2 : db2[x] = db[x]
    BY <2>1 DEF Restrict
  <2>4. QED
    BY <1>1, <1>2, <1>4, <2>2, <2>3
<1>5. QED
  BY <1>3, <1>4

(* Applying a tuple adds at most its own key to the App DB. *)
LEMMA ApplyKfvDomain ==
  ASSUME NEW db, NEW kfv
  PROVE  DOMAIN ApplyKfv(db, kfv) \subseteq DOMAIN db \cup {kfv.key}
BY DEF ApplyKfv, Bind, Restrict

(* Recording an update in the cache leaves its group as the update says, *)
(* and every other group as it was.                                       *)
LEMMA CacheRecorded ==
  ASSUME NEW c, NEW req \in Request, NEW g
  PROVE  LET c2 == CacheUpdate(c, req)
             View(x, h) == IF h \in DOMAIN x THEN [present |-> TRUE, fields |-> ReplicaFields(x[h])]
                                             ELSE [present |-> FALSE, fields |-> {}]
         IN  /\ g = req.entry.group_id => View(c2, g) = RequestView(req)
             /\ g # req.entry.group_id => View(c2, g) = View(c, g)
<1> DEFINE c2 == CacheUpdate(c, req)
<1>1. CASE req.type = "DELETE"
  <2>1. c2 = Restrict(c, DOMAIN c \ {req.entry.group_id})
    BY <1>1 DEF CacheUpdate
  <2>2. DOMAIN c2 = DOMAIN c \ {req.entry.group_id} /\ \A x \in DOMAIN c2 : c2[x] = c[x]
    BY <2>1 DEF Restrict
  <2>3. QED
    BY <1>1, <2>2 DEF RequestView
<1>2. CASE req.type # "DELETE"
  <2>1. c2 = Bind(c, req.entry.group_id, req.entry.replicas)
    BY <1>2 DEF CacheUpdate
  <2>2. /\ DOMAIN c2 = DOMAIN c \cup {req.entry.group_id}
        /\ \A x \in DOMAIN c2 : c2[x] = IF x = req.entry.group_id THEN req.entry.replicas ELSE c[x]
    BY <2>1 DEF Bind
  <2>3. QED
    BY <1>2, <2>2 DEF RequestView
<1>3. QED
  BY <1>1, <1>2

(* The initial state: nothing applied, no group in the table or cache. *)
LEMMA StoreInvInit == Init => StoreInv
<1> SUFFICES ASSUME Init PROVE StoreInv
  OBVIOUS
<1>1. Applied = 0 /\ Len(kfvUpdates) = 0
  BY DEF Init, Applied
<1>2. QueuedMatches
  BY <1>1 DEF QueuedMatches
<1>3. StoreKeys
  BY DEF Init, StoreKeys
<1>4. ASSUME NEW g \in GroupIds PROVE Untouched(g)
  <2>1. Key(g) \notin DOMAIN appDb
    BY KeyAssumption DEF Init
  <2>2. g \notin DOMAIN cache
    BY DEF Init
  <2>3. QED
    BY <1>1, <2>1, <2>2 DEF Untouched, StoreView, CacheView
<1>5. QED
  BY <1>2, <1>3, <1>4 DEF StoreInv, GroupState

(* StoreInv is preserved by every step.  A new update is queued only     *)
(* between requests (Applied = 0); the App DB's step makes its update the *)
(* last applied one of its group; the cache's step records the oldest     *)
(* applied update, which is the last one of its group or is overridden by *)
(* a later one; other writers end the claim about the table.              *)
LEMMA StoreInvInductive == TypeOK /\ StoreInv /\ [Next]_vars => StoreInv'
<1> SUFFICES ASSUME TypeOK, StoreInv, [Next]_vars PROVE StoreInv'
  OBVIOUS
<1>0. /\ Len(kfvUpdates) \in Nat /\ Len(requests) \in Nat /\ Applied \in Nat
      /\ Applied + Len(kfvUpdates) = Len(requests)
      /\ kfvUpdates \in Seq(KeyOpFieldsValues) /\ requests \in Seq(Request)
  BY DEF TypeOK, Applied
<1>1. ASSUME NEW t \in SupportedUpdateTypes, NEW e \in Entries, CreateUpdate(t, e)
      PROVE  StoreInv'
  <2> DEFINE req == [type |-> t, entry |-> e]
  <2>1. /\ kfvUpdates' = Append(kfvUpdates, Serialized(req))
        /\ requests' = Append(requests, req)
        /\ UNCHANGED <<appDb, cache, edits>>
        /\ Len(kfvUpdates) = Len(requests)
    BY <1>1 DEF CreateUpdate, Serialized
  <2>2. req \in Request /\ Serialized(req) \in KeyOpFieldsValues
    BY UpdateType DEF Request, Serialized
  <2>3. /\ Len(kfvUpdates') = Len(kfvUpdates) + 1 /\ Len(requests') = Len(requests) + 1
        /\ \A i \in 1..Len(kfvUpdates) : kfvUpdates'[i] = kfvUpdates[i]
        /\ \A i \in 1..Len(requests) : requests'[i] = requests[i]
        /\ kfvUpdates'[Len(kfvUpdates) + 1] = Serialized(req)
        /\ requests'[Len(requests) + 1] = req
    BY <1>0, <2>1, <2>2, AppendProperties
  <2>4. Applied = 0 /\ Applied' = 0
    BY <1>0, <2>1, <2>3 DEF Applied
  <2>5. QueuedMatches'
    <3> SUFFICES ASSUME NEW i \in 1..Len(kfvUpdates')
                 PROVE  kfvUpdates'[i] = Serialized(requests'[i])
      BY <2>4 DEF QueuedMatches
    <3>1. CASE i <= Len(kfvUpdates)
      BY <1>0, <2>1, <2>3, <2>4, <3>1 DEF StoreInv, QueuedMatches
    <3>2. CASE i = Len(kfvUpdates) + 1
      BY <2>1, <2>3, <3>2
    <3>3. QED
      BY <1>0, <2>3, <3>1, <3>2
  <2>6. ASSUME NEW g \in GroupIds, edits = 0 PROVE GroupState(g)'
    <3>1. Untouched(g)
      BY <2>4, <2>6 DEF StoreInv, GroupState
    <3>2. StoreView(g)' = StoreView(g) /\ CacheView(g)' = CacheView(g)
      BY <2>1 DEF StoreView, CacheView
    <3>3. QED
      BY <2>4, <3>1, <3>2 DEF GroupState, Untouched
  <2>7. QED
    BY <2>1, <2>5, <2>6 DEF StoreInv, StoreKeys
<1>2. ASSUME NEW t \in UpdateTypes, RejectUpdate(t) PROVE StoreInv'
  <2>1. UNCHANGED <<appDb, cache, kfvUpdates, requests, edits>>
    BY <1>2 DEF RejectUpdate
  <2>2. Applied' = Applied
    BY <2>1 DEF Applied
  <2>3. \A g \in GroupIds : StoreView(g)' = StoreView(g) /\ CacheView(g)' = CacheView(g)
    BY <2>1 DEF StoreView, CacheView
  <2>4. QED
    BY <2>1, <2>2, <2>3 DEF StoreInv, QueuedMatches, StoreKeys, GroupState, UpdatedBy, Untouched
<1>3. CASE AppDbApply
  <2> DEFINE A == Applied
             r == requests[A + 1]
             g0 == r.entry.group_id
  <2>1. /\ kfvUpdates # <<>>
        /\ appDb' = ApplyKfv(appDb, Head(kfvUpdates))
        /\ kfvUpdates' = Tail(kfvUpdates)
        /\ UNCHANGED <<cache, requests, edits>>
    BY <1>3 DEF AppDbApply
  <2>2. /\ Len(kfvUpdates) \in Nat \ {0}
        /\ Len(kfvUpdates') = Len(kfvUpdates) - 1
        /\ \A i \in 1..Len(kfvUpdates') : kfvUpdates'[i] = kfvUpdates[i + 1]
    BY <1>0, <2>1, EmptySeq, HeadTailProperties
  <2>3. A + 1 \in 1..Len(requests) /\ Applied' = A + 1
    BY <1>0, <2>1, <2>2 DEF Applied
  <2>4. r \in Request /\ g0 \in GroupIds
    <3>1. r \in Request
      BY <1>0, <2>3
    <3>2. QED
      BY <3>1 DEF Request, Entries
  <2>5. Head(kfvUpdates) = Serialized(r)
    BY <2>2 DEF StoreInv, QueuedMatches
  <2>6. QueuedMatches'
    <3> SUFFICES ASSUME NEW i \in 1..Len(kfvUpdates')
                 PROVE  kfvUpdates'[i] = Serialized(requests[A + 1 + i])
      BY <2>1, <2>3 DEF QueuedMatches
    <3>1. i + 1 \in 1..Len(kfvUpdates) /\ i \in Nat
      BY <1>0, <2>2
    <3>2. kfvUpdates[i + 1] = Serialized(requests[A + (i + 1)])
      BY <3>1 DEF StoreInv, QueuedMatches
    <3>3. QED
      BY <1>0, <2>2, <3>1, <3>2
  <2>7. ASSUME edits' = 0 PROVE StoreKeys' /\ \A g \in GroupIds : GroupState(g)'
    <3>0. edits = 0
      BY <2>1, <2>7
    <3>1. StoreKeys'
      <4>1. DOMAIN appDb' \subseteq DOMAIN appDb \cup {Key(g0)}
        BY <2>1, <2>4, <2>5, ApplyKfvDomain, SerializedShape
      <4>2. QED
        BY <3>0, <2>4, <4>1 DEF StoreInv, StoreKeys
    <3>2. ASSUME NEW g \in GroupIds PROVE GroupState(g)'
      <4>1. CASE g = g0
        <5>1. StoreView(g)' = RequestView(r)
          <6>1. /\ Key(g) \in DOMAIN appDb' <=> r.type # "DELETE"
                /\ Key(g) \in DOMAIN appDb' => appDb'[Key(g)] = ReplicaFields(r.entry.replicas)
            BY <2>1, <2>4, <2>5, <4>1, ApplySerialized
          <6>2. QED
            BY <6>1 DEF StoreView, RequestView
        <5>2. ASSUME NEW i \in Nat, i = A + 1 PROVE UpdatedBy(g, i)'
          BY <2>1, <2>3, <4>1, <5>1, <5>2 DEF UpdatedBy
        <5>3. QED
          BY <1>0, <2>3, <5>2 DEF GroupState
      <4>2. CASE g # g0
        <5>1. StoreView(g)' = StoreView(g)
          <6>1. /\ Key(g) \in DOMAIN appDb' <=> Key(g) \in DOMAIN appDb
                /\ Key(g) \in DOMAIN appDb' => appDb'[Key(g)] = appDb[Key(g)]
            BY <2>1, <2>4, <2>5, <4>2, ApplySerialized
          <6>2. QED
            BY <6>1 DEF StoreView
        <5>2. CacheView(g)' = CacheView(g)
          BY <2>1 DEF CacheView
        <5>3. GroupState(g)
          BY <3>0 DEF StoreInv
        <5>4. CASE \E i \in 1..A : UpdatedBy(g, i)
          <6>1. PICK i \in 1..A : UpdatedBy(g, i)
            BY <5>4
          <6>2. \A j \in i+1..Applied' : requests'[j].entry.group_id # g
            <7>1. \A j \in i+1..A : requests[j].entry.group_id # g
              BY <6>1 DEF UpdatedBy
            <7>2. requests[A + 1].entry.group_id # g /\ i \in Nat
              BY <4>2, <1>0
            <7>3. \A j \in i+1..A+1 : requests[j].entry.group_id # g
              BY <1>0, <7>1, <7>2
            <7>4. QED
              BY <2>1, <2>3, <7>3
          <6>3. UpdatedBy(g, i)'
            BY <2>1, <5>1, <6>1, <6>2 DEF UpdatedBy
          <6>4. QED
            BY <1>0, <2>3, <6>1, <6>3 DEF GroupState
        <5>5. CASE Untouched(g)
          <6>0. \A i \in 1..Applied' : requests'[i].entry.group_id # g
            <7>1. \A i \in 1..A : requests[i].entry.group_id # g
              BY <5>5 DEF Untouched
            <7>2. QED
              BY <1>0, <2>1, <2>3, <4>2, <7>1
          <6>1. Untouched(g)'
            BY <5>1, <5>2, <5>5, <6>0 DEF Untouched
          <6>2. QED
            BY <6>1 DEF GroupState
        <5>6. QED
          BY <5>3, <5>4, <5>5 DEF GroupState
      <4>3. QED
        BY <4>1, <4>2
    <3>3. QED
      BY <3>1, <3>2
  <2>8. QED
    BY <2>6, <2>7 DEF StoreInv
<1>4. CASE CacheRecord
  <2> DEFINE L == Len(requests)
             h == Head(requests)
             gh == h.entry.group_id
  <2>1. /\ kfvUpdates = <<>> /\ requests # <<>>
        /\ cache' = CacheUpdate(cache, h)
        /\ requests' = Tail(requests)
        /\ UNCHANGED <<appDb, kfvUpdates, edits>>
    BY <1>4 DEF CacheRecord
  <2>2. /\ L \in Nat \ {0} /\ h \in Request /\ h = requests[1]
        /\ Len(requests') = L - 1
        /\ \A i \in 1..L - 1 : requests'[i] = requests[i + 1]
    BY <1>0, <2>1, EmptySeq, HeadTailProperties
  <2>3. Applied = L /\ Applied' = L - 1 /\ Len(kfvUpdates') = 0
    BY <1>0, <2>1, <2>2 DEF Applied
  <2>4. QueuedMatches'
    BY <2>3 DEF QueuedMatches
  <2>5. ASSUME edits' = 0 PROVE StoreKeys' /\ \A g \in GroupIds : GroupState(g)'
    <3>0. edits = 0
      BY <2>1, <2>5
    <3>1. StoreKeys'
      BY <2>1, <3>0 DEF StoreInv, StoreKeys
    <3>2. ASSUME NEW g \in GroupIds PROVE GroupState(g)'
      <4>1. StoreView(g)' = StoreView(g)
        BY <2>1 DEF StoreView
      <4>2. /\ g = gh => CacheView(g)' = RequestView(h)
            /\ g # gh => CacheView(g)' = CacheView(g)
        BY <2>1, <2>2, CacheRecorded DEF CacheView
      <4>3. GroupState(g)
        BY <3>0 DEF StoreInv
      <4>4. CASE \E i \in 1..L : UpdatedBy(g, i)
        <5>1. PICK i \in 1..L : UpdatedBy(g, i)
          BY <2>3, <4>4
        <5>2. CASE i = 1
          <6>1. g = gh /\ StoreView(g) = RequestView(h)
            BY <2>2, <5>1, <5>2 DEF UpdatedBy
          <6>2. \A j \in 2..L : requests[j].entry.group_id # g
            BY <2>3, <5>1, <5>2 DEF UpdatedBy
          <6>3. \A j \in 1..Applied' : requests'[j].entry.group_id # g
            BY <2>2, <2>3, <6>2
          <6>4. Untouched(g)'
            BY <4>1, <4>2, <6>1, <6>3 DEF Untouched
          <6>5. QED
            BY <6>4 DEF GroupState
        <5>3. CASE i # 1
          <6> DEFINE k == i - 1
          <6>1. k \in 1..L - 1 /\ requests'[k] = requests[i]
            BY <2>2, <5>1, <5>3
          <6>2. \A j \in k+1..Applied' : requests'[j].entry.group_id # g
            <7>1. \A j \in i+1..L : requests[j].entry.group_id # g
              BY <2>3, <5>1 DEF UpdatedBy
            <7>2. QED
              BY <2>2, <2>3, <6>1, <7>1
          <6>3. UpdatedBy(g, k)'
            BY <4>1, <5>1, <6>1, <6>2 DEF UpdatedBy
          <6>4. QED
            BY <2>3, <6>1, <6>3 DEF GroupState
        <5>4. QED
          BY <5>2, <5>3
      <4>5. CASE Untouched(g)
        <5>1. \A i \in 1..L : requests[i].entry.group_id # g
          BY <2>3, <4>5 DEF Untouched
        <5>2. g # gh
          BY <2>2, <5>1
        <5>3. \A i \in 1..Applied' : requests'[i].entry.group_id # g
          BY <2>2, <2>3, <5>1
        <5>4. Untouched(g)'
          BY <4>1, <4>2, <4>5, <5>2, <5>3 DEF Untouched
        <5>5. QED
          BY <5>4 DEF GroupState
      <4>6. QED
        BY <2>3, <4>3, <4>4, <4>5 DEF GroupState
    <3>3. QED
      BY <3>1, <3>2
  <2>6. QED
    BY <2>4, <2>5 DEF StoreInv
<1>5. ASSUME NEW k, NEW f, ExternalSetField(k, f) PROVE StoreInv'
  <2>1. UNCHANGED <<kfvUpdates, requests>> /\ edits' = edits + 1
    BY <1>5 DEF ExternalSetField
  <2>2. edits' # 0 /\ Applied' = Applied
    BY <2>1, <1>0 DEF TypeOK, Applied
  <2>3. QED
    BY <2>1, <2>2 DEF StoreInv, QueuedMatches
<1>6. ASSUME NEW k, ExternalDeleteKey(k) PROVE StoreInv'
  <2>1. UNCHANGED <<kfvUpdates, requests>> /\ edits' = edits + 1
    BY <1>6 DEF ExternalDeleteKey
  <2>2. edits' # 0 /\ Applied' = Applied
    BY <2>1, <1>0 DEF TypeOK, Applied
  <2>3. QED
    BY <2>1, <2>2 DEF StoreInv, QueuedMatches
<1>7. CASE UNCHANGED vars
  <2>1. Applied' = Applied
    BY <1>7 DEF vars, Applied
  <2>2. \A g \in GroupIds : StoreView(g)' = StoreView(g) /\ CacheView(g)' = CacheView(g)
    BY <1>7 DEF vars, StoreView, CacheView
  <2>3. QED
    BY <1>7, <2>1, <2>2 DEF vars, StoreInv, QueuedMatches, StoreKeys, GroupState, UpdatedBy, Untouched
<1>8. QED
  BY <1>1, <1>2, <1>3, <1>4, <1>5, <1>6, <1>7 DEF Next

(* Between requests nothing is applied and unrecorded, so every group is  *)
(* untouched: the table is the cache written by the serializer.            *)
LEMMA StoreInvImpliesMatch == TypeOK /\ StoreInv => StoreMatchesCache
<1> SUFFICES ASSUME TypeOK, StoreInv, Quiescent, edits = 0
             PROVE  /\ \A g \in GroupIds : StoreView(g) = CacheView(g)
                    /\ DOMAIN appDb \subseteq OtherTableKeys \cup {Key(g) : g \in GroupIds}
  BY DEF StoreMatchesCache
<1>1. Applied = 0
  BY EmptySeq DEF Quiescent, Applied, TypeOK
<1>2. ASSUME NEW g \in GroupIds PROVE StoreView(g) = CacheView(g)
  <2>1. GroupState(g)
    BY DEF StoreInv
  <2>2. QED
    BY <1>1, <2>1 DEF GroupState, Untouched
<1>3. QED
  BY <1>2 DEF StoreInv, StoreKeys

(* StoreInv, the invariant roundtrip checks, holds in every state for      *)
(* every value of the constants: the queued tuples are the serialized form *)
(* of the remaining updates, and without other writers each group is as    *)
(* its last applied update left it or, untouched, as the cache holds it.   *)
THEOREM StoreInvariant == Spec => []StoreInv
BY StoreInvInit, StoreInvInductive, TypeCorrect, PTL DEF Spec

(* Round trip of a request through the App DB and the cache: for every    *)
(* value of the constants, whenever every update of a request is applied  *)
(* and recorded and no one else has written, the App DB holds each group   *)
(* of the cache under its key with the fields CreateEntryForInsert writes, *)
(* and nothing for a group the cache lacks.                                *)
THEOREM StoreCorrect == Spec => []StoreMatchesCache
BY StoreInvariant, TypeCorrect, StoreInvImpliesMatch, PTL

(* Only the cache's step drops the oldest update of a request: a new      *)
(* update lengthens the request and every other step keeps it.            *)
LEMMA RecordStepOnly ==
  ASSUME TypeOK, [Next]_vars, requests # <<>>, requests' = Tail(requests)
  PROVE  CacheRecord
<1>1. requests \in Seq(Request)
  BY DEF TypeOK
<1>2. requests' # requests
  <2>1. Len(Tail(requests)) < Len(requests)
    BY <1>1, EmptySeq, HeadTailProperties
  <2>2. Tail(requests) # requests
    BY <2>1
  <2>. QED
    BY <2>2, Zenon
<1>3. ASSUME NEW t \in SupportedUpdateTypes, NEW e \in Entries, CreateUpdate(t, e)
      PROVE  FALSE
  <2>1. requests' = Append(requests, [type |-> t, entry |-> e])
    BY <1>3 DEF CreateUpdate
  <2>2. Len(requests') = Len(requests) + 1
    BY <2>1, AppendProperties DEF TypeOK
  <2>3. Len(requests') = Len(requests) - 1
    BY <1>1, EmptySeq, HeadTailProperties
  <2>. QED
    BY <1>1, <2>2, <2>3
<1>4. QED
  BY <1>2, <1>3 DEF Next, vars, RejectUpdate, AppDbApply, ExternalSetField,
                    ExternalDeleteKey

(* RecordedGroupMatchesStore, the action property roundtrip checks, for    *)
(* every value of the constants: when CacheRecord records the oldest       *)
(* update of a request and no later update of it touches that group, the   *)
(* App DB already holds the group as that update left it (GroupState with  *)
(* the whole batch applied), and the cache records the same update.        *)
THEOREM RecordedGroupMatchesStoreCorrect == Spec => RecordedGroupMatchesStore
<1>1. TypeOK /\ StoreInv /\ [Next]_vars =>
        \A g \in GroupIds :
          /\ requests # <<>> /\ requests' = Tail(requests) /\ edits = 0
          /\ Head(requests).entry.group_id = g
          /\ \A j \in 2..Len(requests) : requests[j].entry.group_id # g
          => CacheView(g)' = StoreView(g)'
  <2> SUFFICES ASSUME TypeOK, StoreInv, [Next]_vars, NEW g \in GroupIds,
                      requests # <<>>, requests' = Tail(requests), edits = 0,
                      Head(requests).entry.group_id = g,
                      \A j \in 2..Len(requests) : requests[j].entry.group_id # g
               PROVE  CacheView(g)' = StoreView(g)'
    OBVIOUS
  <2> DEFINE h == Head(requests)
  <2>1. /\ kfvUpdates = <<>>
        /\ cache' = CacheUpdate(cache, h)
        /\ UNCHANGED appDb
    BY RecordStepOnly DEF CacheRecord
  <2>2. /\ Len(requests) \in Nat \ {0} /\ h \in Request /\ h = requests[1]
        /\ Applied = Len(requests)
    BY <2>1, EmptySeq, HeadTailProperties DEF TypeOK, Applied
  <2>3. CacheView(g)' = RequestView(h)
    BY <2>1, <2>2, CacheRecorded DEF CacheView
  <2>4. StoreView(g)' = StoreView(g)
    BY <2>1 DEF StoreView
  <2>5. GroupState(g)
    BY DEF StoreInv
  <2>6. CASE \E i \in 1..Applied : UpdatedBy(g, i)
    <3>1. PICK i \in 1..Applied : UpdatedBy(g, i)
      BY <2>6
    <3>2. i = 1
      BY <2>2, <3>1 DEF UpdatedBy
    <3>. QED
      BY <2>2, <2>3, <2>4, <3>1, <3>2 DEF UpdatedBy
  <2>7. CASE Untouched(g)
    BY <2>2, <2>7 DEF Untouched
  <2>. QED
    BY <2>5, <2>6, <2>7 DEF GroupState
<1>2. QED
  BY <1>1, StoreInvariant, TypeCorrect, PTL DEF Spec, RecordedGroupMatchesStore
=============================================================================
