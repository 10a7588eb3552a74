----------------------- MODULE PacketReplicationProofs -----------------------
(***************************************************************************)
(* Proofs about PacketReplication for every value of the constants.        *)
(***************************************************************************)
EXTENDS PacketReplication, SequenceTheorems, TLAPS

(* The serializer only produces tuples of the App DB's key and field sets. *)
LEMMA UpdateType ==
  ASSUME NEW t \in SupportedUpdateTypes, NEW e \in Entries
  PROVE  CreatePacketReplicationTableUpdateForAppDb(t, e) \in KeyOpFieldsValues
<1>1. Key(e.group_id) \in Keys
  BY DEF Entries, Keys
<1>2. ReplicaFields(e.replicas) \subseteq Fields
  BY DEF Entries, Fields, ReplicaFields
<1>3. QED
  BY <1>1, <1>2 DEF CreatePacketReplicationTableUpdateForAppDb, CreateEntryForInsert,
     CreateEntryForDelete, KeyOpFieldsValues, Key

(* TypeOK is inductive. *)
LEMMA TypeOKInductive == TypeOK /\ [Next]_vars => TypeOK'
<1> SUFFICES ASSUME TypeOK, [Next]_vars PROVE TypeOK'
  OBVIOUS
<1>1. ASSUME NEW t \in SupportedUpdateTypes, NEW e \in Entries, CreateUpdate(t, e)
      PROVE  TypeOK'
  <2> DEFINE kfv == CreatePacketReplicationTableUpdateForAppDb(t, e)
             req == [type |-> t, entry |-> e]
  <2>1. kfv \in KeyOpFieldsValues /\ req \in Request
    BY UpdateType DEF Request
  <2>2. kfvUpdates' = Append(kfvUpdates, kfv) /\ requests' = Append(requests, req)
    BY <1>1 DEF CreateUpdate
  <2>3. /\ kfvUpdates' \in Seq(KeyOpFieldsValues) /\ requests' \in Seq(Request)
        /\ Len(kfvUpdates') = Len(kfvUpdates) + 1 /\ Len(requests') = Len(requests) + 1
    BY <2>1, <2>2, AppendProperties DEF TypeOK
  <2>4. Len(requests) < MaxBatch /\ Len(kfvUpdates) = Len(requests)
    BY <1>1 DEF CreateUpdate
  <2>5. ret' \in Status
    BY <1>1, <2>1 DEF CreateUpdate, KeyOpFieldsValues, Status
  <2>6. UNCHANGED <<appDb, cache, edits>>
    BY <1>1 DEF CreateUpdate
  <2>7. QED
    BY <2>3, <2>4, <2>5, <2>6, ConstantsAssumption DEF TypeOK
<1>2. ASSUME NEW t \in UpdateTypes, RejectUpdate(t) PROVE TypeOK'
  BY <1>2 DEF RejectUpdate, TypeOK, Status
<1>3. CASE AppDbApply
  <2>1. kfvUpdates # <<>> /\ kfvUpdates \in Seq(KeyOpFieldsValues)
    BY <1>3 DEF AppDbApply, TypeOK
  <2>2. /\ Head(kfvUpdates) \in KeyOpFieldsValues
        /\ Tail(kfvUpdates) \in Seq(KeyOpFieldsValues)
        /\ Len(Tail(kfvUpdates)) = Len(kfvUpdates) - 1
    BY <2>1, HeadTailProperties
  <2>3. /\ DOMAIN ApplyKfv(appDb, Head(kfvUpdates)) \subseteq Keys
        /\ \A k \in DOMAIN ApplyKfv(appDb, Head(kfvUpdates)) :
              ApplyKfv(appDb, Head(kfvUpdates))[k] \in SUBSET Fields
    <3>1. DOMAIN appDb \subseteq Keys /\ \A k \in DOMAIN appDb : appDb[k] \in SUBSET Fields
      BY DEF TypeOK
    <3>2. Head(kfvUpdates).key \in Keys /\ Head(kfvUpdates).fields \in SUBSET Fields
      BY <2>2 DEF KeyOpFieldsValues
    <3>3. CASE Head(kfvUpdates).op = "SET"
      <4> DEFINE kfv == Head(kfvUpdates)
      <4>1. ApplyKfv(appDb, kfv) = Bind(appDb, kfv.key, kfv.fields)
        BY <3>3 DEF ApplyKfv
      <4>2. QED
        BY <3>1, <3>2, <4>1 DEF Bind
    <3>4. CASE Head(kfvUpdates).op # "SET"
      <4> DEFINE kfv == Head(kfvUpdates)
      <4>1. ApplyKfv(appDb, kfv) = Restrict(appDb, DOMAIN appDb \ {kfv.key})
        BY <3>4 DEF ApplyKfv
      <4>2. QED
        BY <3>1, <4>1 DEF Restrict
    <3>5. QED
      BY <3>3, <3>4
  <2>4. QED
    BY <1>3, <2>2, <2>3 DEF AppDbApply, TypeOK
<1>4. CASE CacheRecord
  <2>1. requests # <<>> /\ requests \in Seq(Request)
    BY <1>4 DEF CacheRecord, TypeOK
  <2>2. /\ Head(requests) \in Request
        /\ Tail(requests) \in Seq(Request)
        /\ Len(Tail(requests)) = Len(requests) - 1
    BY <2>1, HeadTailProperties
  <2>3. /\ Head(requests).entry.group_id \in GroupIds
        /\ Head(requests).entry.replicas \in SUBSET Replicas
    BY <2>2 DEF Request, Entries
  <2>4. /\ DOMAIN CacheUpdate(cache, Head(requests)) \subseteq GroupIds
        /\ \A g \in DOMAIN CacheUpdate(cache, Head(requests)) :
              CacheUpdate(cache, Head(requests))[g] \in SUBSET Replicas
    <3>1. \A g \in DOMAIN cache : cache[g] \in SUBSET Replicas
      BY DEF TypeOK
    <3>2. CASE Head(requests).type = "DELETE"
      <4>1. CacheUpdate(cache, Head(requests))
              = Restrict(cache, DOMAIN cache \ {Head(requests).entry.group_id})
        BY <3>2 DEF CacheUpdate
      <4>2. QED
        BY <3>1, <4>1 DEF Restrict, TypeOK
    <3>3. CASE Head(requests).type # "DELETE"
      <4>1. CacheUpdate(cache, Head(requests))
              = Bind(cache, Head(requests).entry.group_id, Head(requests).entry.replicas)
        BY <3>3 DEF CacheUpdate
      <4>2. QED
        BY <2>3, <3>1, <4>1 DEF Bind, TypeOK
    <3>4. QED
      BY <3>2, <3>3
  <2>5. kfvUpdates = <<>>
    BY <1>4 DEF CacheRecord
  <2>6. /\ kfvUpdates' = <<>> /\ requests' = Tail(requests)
        /\ UNCHANGED <<appDb, ret, edits>>
        /\ cache' = CacheUpdate(cache, Head(requests))
    BY <1>4, <2>5 DEF CacheRecord
  <2>7. Len(kfvUpdates') <= Len(requests') /\ Len(requests') <= MaxBatch
    <3>1. Len(requests) <= MaxBatch /\ Len(requests) \in Nat \ {0}
      BY <2>1, EmptySeq DEF TypeOK
    <3>2. Len(requests') = Len(requests) - 1 /\ Len(kfvUpdates') = 0
      BY <2>2, <2>6
    <3>3. QED
      BY <3>1, <3>2, <2>2, ConstantsAssumption
  <2>8. kfvUpdates' \in Seq(KeyOpFieldsValues) /\ requests' \in Seq(Request)
    BY <2>2, <2>6
  <2>9. QED
    BY <2>4, <2>6, <2>7, <2>8 DEF TypeOK
<1>5. ASSUME NEW k \in {Key(g) : g \in GroupIds} \cup ForeignKeys, NEW f \in Fields,
             ExternalSetField(k, f)
      PROVE  TypeOK'
  <2>1. k \in Keys
    BY DEF Keys
  <2>2. (IF k \in DOMAIN appDb THEN appDb[k] ELSE {}) \cup {f} \in SUBSET Fields
    BY DEF TypeOK
  <2>3. \A x \in DOMAIN appDb : appDb[x] \in SUBSET Fields
    BY DEF TypeOK
  <2>4. /\ DOMAIN appDb' \subseteq Keys
        /\ \A x \in DOMAIN appDb' : appDb'[x] \in SUBSET Fields
    <3>1. appDb' = Bind(appDb, k, (IF k \in DOMAIN appDb THEN appDb[k] ELSE {}) \cup {f})
      BY <1>5 DEF ExternalSetField
    <3>2. QED
      BY <2>1, <2>2, <2>3, <3>1 DEF Bind, TypeOK
  <2>5. edits' \in 0..MaxEdits
    BY <1>5, ConstantsAssumption DEF ExternalSetField, TypeOK
  <2>6. QED
    BY <1>5, <2>4, <2>5 DEF ExternalSetField, TypeOK
<1>6. ASSUME NEW k \in Keys, ExternalDeleteKey(k) PROVE TypeOK'
  <2>1. \A x \in DOMAIN appDb : appDb[x] \in SUBSET Fields
    BY DEF TypeOK
  <2>2. /\ DOMAIN appDb' \subseteq Keys
        /\ \A x \in DOMAIN appDb' : appDb'[x] \in SUBSET Fields
    <3>1. appDb' = Restrict(appDb, DOMAIN appDb \ {k})
      BY <1>6 DEF ExternalDeleteKey
    <3>2. QED
      BY <2>1, <3>1 DEF Restrict, TypeOK
  <2>3. edits' \in 0..MaxEdits
    BY <1>6, ConstantsAssumption DEF ExternalDeleteKey, TypeOK
  <2>4. QED
    BY <1>6, <2>2, <2>3 DEF ExternalDeleteKey, TypeOK
<1>7. CASE UNCHANGED vars
  BY <1>7 DEF vars, TypeOK
<1>8. QED
  BY <1>1, <1>2, <1>3, <1>4, <1>5, <1>6, <1>7 DEF Next

(* Type correctness of every state the specification allows. *)
THEOREM TypeCorrect == Spec => []TypeOK
<1>1. Init => TypeOK
  BY ConstantsAssumption DEF Init, TypeOK, Keys, Status, Fields
<1>2. QED
  BY <1>1, TypeOKInductive, PTL DEF Spec
=============================================================================
