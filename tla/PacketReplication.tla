-------------------------- MODULE PacketReplication --------------------------
(***************************************************************************)
(* The packet replication table between the P4RT application and the App *)
(* DB.  The application turns each update of a write request into an App  *)
(* DB tuple (CreatePacketReplicationTableUpdateForAppDb), the App DB       *)
(* applies the batch in order, and the application then records the      *)
(* updates in its cache.  Other writers may change the App DB on their    *)
(* own.  The verification path reads the table back                       *)
(* (GetAllAppDbPacketReplicationTableEntries) and compares it with the    *)
(* cache (ComparePacketReplicationTableEntries); its result is a function *)
(* of the state, stated below as operators the properties use.            *)
(***************************************************************************)
EXTENDS PacketReplicationTranslation, FiniteSets

CONSTANTS
  GroupIds,        \* multicast group ids the requests use
  Ports,           \* port names (strings)
  Instances,       \* replica instances
  OtherTableKeys,  \* App DB keys of other tables, present from the start
  ForeignKeys,     \* keys other writers may create
  ForeignFields,   \* field names other writers may write
  MaxReplicas,     \* most replicas in one requested entry
  MaxBatch,        \* most updates in one write request
  MaxEdits         \* most changes other writers make

ASSUME ConstantsAssumption ==
  /\ GroupIds \subseteq Uint /\ Instances \subseteq Uint
  /\ Ports \subseteq Seq(Char)
  /\ OtherTableKeys \cup ForeignKeys \subseteq Seq(Char)
  /\ ForeignFields \subseteq Seq(Char)
  /\ \A k \in OtherTableKeys : ~IsPrefix(TablePrefix, k)
  /\ MaxReplicas \in Nat /\ MaxBatch \in Nat /\ MaxEdits \in Nat

Replicas == {Replica(p, i) : p \in Ports, i \in Instances}
Entries == [group_id : GroupIds,
            replicas : {R \in SUBSET Replicas : Cardinality(R) <= MaxReplicas}]
UpdateTypes == SupportedUpdateTypes \cup {"UNSPECIFIED"}

Key(g) == GetRedisPacketReplicationTableKey(g)
Keys == {Key(g) : g \in GroupIds} \cup OtherTableKeys \cup ForeignKeys
(* absl::Hex writes distinct numbers differently, so distinct groups have *)
(* distinct keys, and a group's key starts with the table prefix, which   *)
(* no key of another table does.                                           *)
ASSUME KeyAssumption ==
  /\ \A g, h \in GroupIds : Key(g) = Key(h) => g = h
  /\ \A g \in GroupIds : Key(g) \notin OtherTableKeys

Fields == ReplicaFields(Replicas) \cup ForeignFields
KeyOpFieldsValues == [key : Keys, op : {"SET", "DEL"}, fields : SUBSET Fields]
Request == [type : SupportedUpdateTypes, entry : Entries]
Status == [status : {"NONE", "OK", "INVALID_ARGUMENT"}, key : Keys \cup {<<>>}]

VARIABLES
  appDb,       \* the App DB: key -> set of field names
  cache,       \* the application's cache: group id -> set of replicas
  kfvUpdates,  \* tuples of the current request not yet applied by the App DB
  requests,    \* updates of the current request not yet recorded in the cache
  ret,         \* what the last call of the serializer returned
  edits        \* how many changes other writers have made

vars == <<appDb, cache, kfvUpdates, requests, ret, edits>>

TypeOK ==
  /\ DOMAIN appDb \subseteq Keys /\ \A k \in DOMAIN appDb : appDb[k] \subseteq Fields
  /\ DOMAIN cache \subseteq GroupIds
  /\ \A g \in DOMAIN cache : cache[g] \subseteq Replicas
  /\ kfvUpdates \in Seq(KeyOpFieldsValues) /\ requests \in Seq(Request)
  /\ Len(kfvUpdates) <= Len(requests) /\ Len(requests) <= MaxBatch
  /\ ret \in Status
  /\ edits \in 0..MaxEdits

(* The map f with key k bound to v. *)
Bind(f, k, v) == [x \in DOMAIN f \cup {k} |-> IF x = k THEN v ELSE f[x]]

(* The App DB's SET replaces the key's fields; DEL removes the key. *)
ApplyKfv(db, kfv) ==
  IF kfv.op = "SET" THEN Bind(db, kfv.key, kfv.fields)
                    ELSE Restrict(db, DOMAIN db \ {kfv.key})

(* The cache after an update succeeded. *)
CacheUpdate(c, req) ==
  IF req.type = "DELETE" THEN Restrict(c, DOMAIN c \ {req.entry.group_id})
                         ELSE Bind(c, req.entry.group_id, req.entry.replicas)

Init ==
  /\ appDb = [k \in OtherTableKeys |-> ForeignFields]
  /\ cache = [g \in {} |-> {}]
  /\ kfvUpdates = <<>>
  /\ requests = <<>>
  /\ ret = [status |-> "NONE", key |-> <<>>]
  /\ edits = 0

(* An update of the request serialized; the caller keeps the update for   *)
(* its cache.  Updates are taken until the App DB starts on the batch.     *)
CreateUpdate(t, e) ==
  LET kfv == CreatePacketReplicationTableUpdateForAppDb(t, e) IN
  /\ Len(requests) < MaxBatch
  /\ Len(kfvUpdates) = Len(requests)
  /\ t \in SupportedUpdateTypes
  /\ kfvUpdates' = Append(kfvUpdates, kfv)
  /\ requests' = Append(requests, [type |-> t, entry |-> e])
  /\ ret' = [status |-> "OK", key |-> kfv.key]
  /\ UNCHANGED <<appDb, cache, edits>>

(* The default branch: an unsupported update type appends nothing. *)
RejectUpdate(t) ==
  /\ Len(kfvUpdates) = Len(requests)
  /\ t \notin SupportedUpdateTypes
  /\ ret' = [status |-> "INVALID_ARGUMENT", key |-> <<>>]
  /\ UNCHANGED <<appDb, cache, kfvUpdates, requests, edits>>

(* The App DB applies the oldest tuple of the batch. *)
AppDbApply ==
  /\ kfvUpdates # <<>>
  /\ appDb' = ApplyKfv(appDb, Head(kfvUpdates))
  /\ kfvUpdates' = Tail(kfvUpdates)
  /\ UNCHANGED <<cache, requests, ret, edits>>

(* Once the whole batch is in the App DB, the caller records each update *)
(* in its cache, in order.                                               *)
CacheRecord ==
  /\ kfvUpdates = <<>>
  /\ requests # <<>>
  /\ cache' = CacheUpdate(cache, Head(requests))
  /\ requests' = Tail(requests)
  /\ UNCHANGED <<appDb, kfvUpdates, ret, edits>>

(* Another writer sets one field of a key (HSET) ... *)
ExternalSetField(k, f) ==
  /\ edits < MaxEdits
  /\ appDb' = Bind(appDb, k, (IF k \in DOMAIN appDb THEN appDb[k] ELSE {}) \cup {f})
  /\ edits' = edits + 1
  /\ UNCHANGED <<cache, kfvUpdates, requests, ret>>

(* ... or deletes a key (DEL). *)
ExternalDeleteKey(k) ==
  /\ edits < MaxEdits
  /\ k \in DOMAIN appDb
  /\ appDb' = Restrict(appDb, DOMAIN appDb \ {k})
  /\ edits' = edits + 1
  /\ UNCHANGED <<cache, kfvUpdates, requests, ret>>

Next ==
  \/ \E t \in SupportedUpdateTypes, e \in Entries : CreateUpdate(t, e)
  \/ \E t \in UpdateTypes : RejectUpdate(t)
  \/ AppDbApply
  \/ CacheRecord
  \/ \E k \in {Key(g) : g \in GroupIds} \cup ForeignKeys, f \in Fields :
        ExternalSetField(k, f)
  \/ \E k \in Keys : ExternalDeleteKey(k)

Spec == Init /\ [][Next]_vars

-----------------------------------------------------------------------------
(* The verification path, as a function of the state. *)

TableKeys == {k \in DOMAIN appDb : IsPrefix(TablePrefix, k)}

(* The orders app_db->keys() may enumerate the App DB in.  Only the order *)
(* of the table's own keys matters to the reader.                         *)
KeyOrders ==
  {SetToSeq(DOMAIN appDb \ TableKeys) \o o : o \in SetToSeqs(TableKeys)}

ReadAppDb(order) == GetAllAppDbPacketReplicationTableEntries(appDb, order)

CacheEntries ==
  SetToSeq({[group_id |-> g, replicas |-> cache[g]] : g \in DOMAIN cache})

Verify(order) ==
  ComparePacketReplicationTableEntries(ReadAppDb(order).entries, CacheEntries)

Quiescent == requests = <<>>

(* The table as the serializer would write it for the cache. *)
InSync ==
  /\ TableKeys = {Key(g) : g \in DOMAIN cache}
  /\ \A g \in DOMAIN cache : appDb[Key(g)] = ReplicaFields(cache[g])

(* A group as the table holds it, as the cache holds it written by the   *)
(* serializer, and as an update leaves it.                                 *)
StoreView(g) ==
  IF Key(g) \in DOMAIN appDb THEN [present |-> TRUE, fields |-> appDb[Key(g)]]
                             ELSE [present |-> FALSE, fields |-> {}]
CacheView(g) ==
  IF g \in DOMAIN cache THEN [present |-> TRUE, fields |-> ReplicaFields(cache[g])]
                        ELSE [present |-> FALSE, fields |-> {}]
RequestView(req) ==
  IF req.type = "DELETE" THEN [present |-> FALSE, fields |-> {}]
  ELSE [present |-> TRUE, fields |-> ReplicaFields(req.entry.replicas)]

(* Updates of the request the App DB has applied and the cache not yet    *)
(* recorded: requests[1..Applied].                                         *)
Applied == Len(requests) - Len(kfvUpdates)

-----------------------------------------------------------------------------
(* Properties *)

(* Round trip through the App DB: once every update of a request is in    *)
(* the App DB and in the cache, and no one else has written the table,    *)
(* reading the table back (GetAllAppDbPacketReplicationTableEntries, in   *)
(* any key order) succeeds and ComparePacketReplicationTableEntries finds  *)
(* no difference with the cache.                                           *)
ReadBackMatchesCache ==
  Quiescent /\ edits = 0 =>
    \A o \in KeyOrders : ReadAppDb(o).ok /\ Verify(o) = <<>>

(* The store matches the cache (spec 4.3, 8): once every update of a     *)
(* request is in the App DB and in the cache and no one else has written  *)
(* the table, the App DB holds, under each group's key, exactly the fields *)
(* CreateEntryForInsert writes for the cache's replicas, no key for a      *)
(* group the cache lacks, and no key outside the groups' and other tables'.*)
StoreMatchesCache ==
  Quiescent /\ edits = 0 =>
    /\ \A g \in GroupIds : StoreView(g) = CacheView(g)
    /\ DOMAIN appDb \subseteq OtherTableKeys \cup {Key(g) : g \in GroupIds}

(* The cache agrees with the store at each record, in the middle of a    *)
(* request too: when the caller records the oldest update of the request   *)
(* in its cache (after the App DB applied the whole batch), no later       *)
(* update of the request touches the same group, and no one else has       *)
(* written the table, the cache's copy of that group then reads exactly as *)
(* the App DB holds it.                                                    *)
RecordedGroupMatchesStore ==
  [][\A g \in GroupIds :
        /\ requests # <<>> /\ requests' = Tail(requests) /\ edits = 0
        /\ Head(requests).entry.group_id = g
        /\ \A j \in 2..Len(requests) : requests[j].entry.group_id # g
        => CacheView(g)' = StoreView(g)']_vars

(* The inductive form of StoreMatchesCache.  The tuples still queued are *)
(* the serialized remaining updates (QueuedMatches); without other         *)
(* writers, each group of the table is as the last applied update of it    *)
(* left it (UpdatedBy), or as the cache has it when no applied update      *)
(* touched it (Untouched).                                                 *)
Serialized(req) == CreatePacketReplicationTableUpdateForAppDb(req.type, req.entry)
QueuedMatches ==
  \A i \in 1..Len(kfvUpdates) : kfvUpdates[i] = Serialized(requests[Applied + i])
UpdatedBy(g, i) ==
  /\ requests[i].entry.group_id = g
  /\ \A j \in i+1..Applied : requests[j].entry.group_id # g
  /\ StoreView(g) = RequestView(requests[i])
Untouched(g) ==
  /\ \A i \in 1..Applied : requests[i].entry.group_id # g
  /\ StoreView(g) = CacheView(g)
GroupState(g) == (\E i \in 1..Applied : UpdatedBy(g, i)) \/ Untouched(g)
StoreKeys == DOMAIN appDb \subseteq OtherTableKeys \cup {Key(g) : g \in GroupIds}
StoreInv ==
  /\ QueuedMatches
  /\ edits = 0 => StoreKeys /\ \A g \in GroupIds : GroupState(g)

(* The table's groups and replicas, read through the serializer's own     *)
(* encoding rather than through the reader.                                *)
StoreGroups == {g \in GroupIds : Key(g) \in DOMAIN appDb}
StoreReplicas(g) == {r \in Replicas : PortInstanceField(r.port, r.instance) \in appDb[Key(g)]}

(* Every key of the table is a group's key, holding replica fields only. *)
WellFormedTable ==
  \A k \in TableKeys : /\ \E g \in GroupIds : k = Key(g)
                       /\ appDb[k] \subseteq ReplicaFields(Replicas)

(* Every difference between the table and the cache, as the failure that *)
(* should report it.                                                      *)
Drift ==
  LET both == StoreGroups \cap DOMAIN cache IN
  {Failure("CacheMissingGroup", g, <<>>) : g \in StoreGroups \ DOMAIN cache}
  \cup {Failure("AppDbMissingGroup", g, <<>>) : g \in DOMAIN cache \ StoreGroups}
  \cup UNION {{Failure("CacheMissingReplica", g, PortInstanceString(r.port, r.instance)) :
                 r \in StoreReplicas(g) \ cache[g]} : g \in both}
  \cup UNION {{Failure("AppDbMissingReplica", g, PortInstanceString(r.port, r.instance)) :
                 r \in cache[g] \ StoreReplicas(g)} : g \in both}

(* Exact drift report: whatever other writers have done to the App DB,    *)
(* when every key of the table is a group's key and every field a replica *)
(* field, both spelled as the serializer spells them, then in any key     *)
(* order GetAllAppDbPacketReplicationTableEntries succeeds and             *)
(* ComparePacketReplicationTableEntries reports every difference between  *)
(* table and cache once, and nothing else.  Other spellings that           *)
(* SimpleHexAtoi also accepts (T:FF, T:0ff, E:0X1) are outside the claim:  *)
(* alias_key shows what they do.                                           *)
ReportsExactDrift ==
  \A o \in KeyOrders :
     WellFormedTable =>
       /\ ReadAppDb(o).ok
       /\ ToSet(Verify(o)) = Drift
       /\ Len(Verify(o)) = Cardinality(Drift)

(* No silent drift (spec 4.5, 7): when the table reads back without error *)
(* and ComparePacketReplicationTableEntries reports nothing, the table    *)
(* holds exactly the cache's groups, each as the serializer writes it.    *)
SilentOnlyWhenInSync ==
  \A o \in KeyOrders : ReadAppDb(o).ok /\ Verify(o) = <<>> => InSync

(* Report order (spec 4.5): the failures of                               *)
(* ComparePacketReplicationTableEntries come in ascending group id order. *)
ReportsInGroupOrder ==
  \A o \in KeyOrders :
     ReadAppDb(o).ok =>
       \A i, j \in DOMAIN Verify(o) :
          i < j => Verify(o)[i].group_id <= Verify(o)[j].group_id
=============================================================================
