-------------------- MODULE PacketReplicationTranslation --------------------
(***************************************************************************)
(* The translation functions of packet_replication_entry_translation.cc   *)
(* as operators: the serializer that turns an IR multicast group entry    *)
(* into an App DB key-op-fields tuple, the reader that rebuilds entries   *)
(* from the App DB, and the comparison of App DB entries with the cache.  *)
(*                                                                         *)
(* An IR entry is [group_id, replicas] with replicas a set of             *)
(* [port, instance] records: every consumer of the repeated replicas      *)
(* field (the App DB hash, the btree_sets of the comparison) forgets      *)
(* order and duplicates.  The App DB is a function from key to the set    *)
(* of its field names; every value is the placeholder "replica", which    *)
(* nothing reads, and is left out.                                        *)
(***************************************************************************)
EXTENDS PacketReplicationCodec

Replica(port, instance) == [port |-> port, instance |-> instance]

(* The fields CreateEntryForInsert writes for a set of replicas. *)
ReplicaFields(replicas) == {PortInstanceField(r.port, r.instance) : r \in replicas}

CreateEntryForInsert(entry) ==
  [key    |-> GetRedisPacketReplicationTableKey(entry.group_id),
   op     |-> "SET",
   fields |-> ReplicaFields(entry.replicas)]

CreateEntryForDelete(entry) ==
  [key    |-> GetRedisPacketReplicationTableKey(entry.group_id),
   op     |-> "DEL",
   fields |-> {}]

(* The update kinds the switch in CreatePacketReplicationTableUpdateForAppDb *)
(* handles; any other p4::v1::Update::Type is an InvalidArgument error.     *)
SupportedUpdateTypes == {"INSERT", "MODIFY", "DELETE"}

(* Mutant: MODIFY serialized as a DEL. *)
CreateUpdateForAppDbModifyAsDelete(update_type, entry) ==
  IF update_type \in {"DELETE", "MODIFY"} THEN CreateEntryForDelete(entry)
                                          ELSE CreateEntryForInsert(entry)

(* The tuple appended to kfv_updates: MODIFY looks exactly like INSERT. *)
CreatePacketReplicationTableUpdateForAppDb(update_type, entry) ==
  IF update_type = "DELETE" THEN CreateEntryForDelete(entry)
                            ELSE CreateEntryForInsert(entry)

-----------------------------------------------------------------------------
(* Reading: `keys` is the order in which app_db->keys() enumerates db. *)

GetAllPacketReplicationTableEntryKeys(keys) ==
  SelectSeq(keys, LAMBDA k : IsPrefix(TablePrefix, k))

(* One key of the table read back: ok is FALSE on any InvalidArgument. *)
EntryRead(prefixed, group_id, decoded) ==
  [ok    |-> prefixed /\ group_id.ok /\ \A d \in decoded : d.ok,
   entry |-> [group_id |-> group_id.value,
              replicas |-> {Replica(d.port, d.instance) : d \in decoded}]]

ReadEntry(db, key) ==
  EntryRead(StripTableName(key).ok, SimpleHexAtoi(StripTableName(key).rest),
            {DecodeReplica(f) : f \in db[key]})

(* All entries in key order, or a failure of the whole read. *)
EntriesRead(reads) ==
  [ok      |-> \A i \in DOMAIN reads : reads[i].ok,
   entries |-> [i \in DOMAIN reads |-> reads[i].entry]]

ReadKeys(db, pre_keys) == [i \in DOMAIN pre_keys |-> ReadEntry(db, pre_keys[i])]

GetAllAppDbPacketReplicationTableEntries(db, keys) ==
  EntriesRead(ReadKeys(db, GetAllPacketReplicationTableEntryKeys(keys)))

-----------------------------------------------------------------------------
(* Comparing.  A failure message is abstracted to its template (kind), the *)
(* group id and the "port_instance" string it names.                       *)

Failure(kind, group_id, pi) == [kind |-> kind, group_id |-> group_id, pi |-> pi]

(* btree_map built by assignment in order: the last entry of an id wins. *)
GroupMap(entries) ==
  [g \in {entries[i].group_id : i \in DOMAIN entries} |->
     entries[SelectLastInSeq(entries, LAMBDA e : e.group_id = g)].replicas]

(* The "port_instance" strings of a set of replicas (a btree_set). *)
PortInstances(replicas) == {PortInstanceString(r.port, r.instance) : r \in replicas}

(* One failure of a kind per string, in the order of pis. *)
FailureSeq(kind, group_id, pis) == [i \in DOMAIN pis |-> Failure(kind, group_id, pis[i])]

(* The two set_differences, each sorted as the btree_sets are. *)
MissingReplicaFailures(group_id, port_instance_app_db, port_instance_cache) ==
  FailureSeq("CacheMissingReplica", group_id,
             SetToSortSeq(port_instance_app_db \ port_instance_cache, StrLess))
  \o
  FailureSeq("AppDbMissingReplica", group_id,
             SetToSortSeq(port_instance_cache \ port_instance_app_db, StrLess))

ComparePacketReplicationEntities(group_id, replicas_app_db, replicas_cache) ==
  MissingReplicaFailures(group_id, PortInstances(replicas_app_db), PortInstances(replicas_cache))

(* Op applied to each id of ids, in order. *)
ForEachId(ids, Op(_)) == [i \in DOMAIN ids |-> Op(ids[i])]

(* The two passes over the btree_maps, each in ascending id. *)
CompareGroupMaps(map_app_db, map_cache) ==
  LET AppDbPass(g) ==
        IF g \notin DOMAIN map_cache
        THEN <<Failure("CacheMissingGroup", g, <<>>)>>
        ELSE ComparePacketReplicationEntities(g, map_app_db[g], map_cache[g])
      CachePass(g) ==
        IF g \notin DOMAIN map_app_db
        THEN <<Failure("AppDbMissingGroup", g, <<>>)>>
        ELSE <<>>
  IN  FlattenSeq(ForEachId(SetToSortSeq(DOMAIN map_app_db, <), AppDbPass))
      \o
      FlattenSeq(ForEachId(SetToSortSeq(DOMAIN map_cache, <), CachePass))

ComparePacketReplicationTableEntries(entries_app_db, entries_cache) ==
  CompareGroupMaps(GroupMap(entries_app_db), GroupMap(entries_cache))
=============================================================================
