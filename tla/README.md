# Packet replication table: TLA+ models, runs and proofs

This directory holds the verification development for the packet replication (multicast group)
table translation of the P4RT application. The code is
`p4rt_app/sonic/packet_replication_entry_translation.cc`, which is lines 389-670 of
`src/unnamed/part_000`. The specification is `spec.md`.

It also models the PDPI helpers `InstallPdTableEntries` and `InstallPdTableEntry`
(`src/p4_pdpi/p4_runtime_session_extras.cc`), which install PD table entries on a switch over
a P4Runtime session (section "Installing PD entries" below).

## The system

The code has five parts. The spec lists them in section 2.

| part | code (part_000) | what it does |
|---|---|---|
| key codec | `TablePrefix`, `GetRedisPacketReplicationTableKey`, `StripTableName`, the `SimpleHexAtoi` at 589 | a key is `<table>:<hex group id>` |
| field codec | the `StrCat` at 467, the `rfind` and `SimpleHexAtoi` at 599-613, the `port_instance` strings at 501/507 | a field is `<port>:0x<hex instance>` |
| serializer | `CreatePacketReplicationTableUpdateForAppDb`, `CreateEntryForInsert/Delete` | appends one SET or DEL tuple per update to the caller's batch |
| reader | `GetAllPacketReplicationTableEntryKeys`, `GetAllAppDbPacketReplicationTableEntries` | rebuilds the entries from the App DB and fails on any bad key or field |
| diff engine | `ComparePacketReplicationTableEntries`, `ComparePacketReplicationEntities` | reports the differences between the App DB and the cache |

The parts meet in two places:

- The P4RT application serializes the updates of a write request into a batch. The App DB
  applies the batch in order, and the application then records the updates in its entity cache.
- The verification path reads the table back with the reader and compares the result with the
  cache using the diff engine.

Other writers may change the App DB at any time.

The App DB, the batch application and the cache are not under `src/`. They are modelled from
the spec (sections 5 and 6) and are marked `spec_modelled` in `PROJECT.json`.

## Modules

### `PacketReplicationCodec`

This module holds the codec.

- A string is a sequence of one-character strings. Formatting and parsing are therefore
  modelled by what they do:
  - `absl::Hex` is lowercase with no padding.
  - The decimal `StrCat` is `AbslDecimal`.
  - `rfind` is `SelectLastInSeq`.
  - `absl::SimpleHexAtoi` skips surrounding whitespace, accepts `+`, and accepts an optional
    `0x`/`0X`. It needs at least one hex digit of either case, and the value must fit in the
    type.
- `StrLess` is `std::string`'s `operator<`. Characters are ranked in ASCII order, which is the
  order the `btree_set`s sort in.
- `uint32_t` is `0..UintMax`. The runs set `UintMax` to 255, an 8-bit width, because TLC's
  integers cannot hold 2^32-1. Only the width matters to the properties: an id one past the
  largest must be refused.

### `PacketReplicationTranslation`

This module holds the translation functions as operators. An IR entry is a record
`[group_id, replicas]`, where `replicas` is a set of `[port, instance]` records.

- Every consumer of the repeated field forgets order and duplicates: the App DB hash, and the
  `btree_set`s of the diff engine.
- A failure message is abstracted to its template, its group id and its `port_instance` string.
- `GroupMap` is the `btree_map` filled by assignment, so the last entry of an id wins.
- The two passes of the diff engine are `FlattenSeq`s over the sorted ids.

### `PacketReplication`

This module holds the state machine.

Variables:

| variable | meaning |
|---|---|
| `appDb` | each key maps to its set of field names. Values are the unused placeholder `"replica"` and are left out. |
| `cache` | each group id maps to its set of replicas |
| `kfvUpdates` | tuples of the current request not yet applied by the App DB |
| `requests` | updates not yet recorded in the cache |
| `ret` | the serializer's last result |
| `edits` | how many changes other writers have made, bounded by `MaxEdits` |

Actions:

| action | what it models |
|---|---|
| `CreateUpdate(t, e)` | the whole of `CreatePacketReplicationTableUpdateForAppDb` for INSERT, MODIFY or DELETE. It appends the tuple and returns the key. |
| `RejectUpdate(t)` | its `default:` branch |
| `AppDbApply` | the App DB applies the oldest tuple. SET replaces the key's fields and DEL removes the key. |
| `CacheRecord` | once the batch is in the App DB, the caller records the oldest update in its cache |
| `ExternalSetField`, `ExternalDeleteKey` | other writers' HSET and DEL |

The verification path (`ReadAppDb(order)`, `Verify(order)`) is a function of the state. It is
quantified over `KeyOrders`, which is every order in which `app_db->keys()` may enumerate the
table's keys.

### `MCPacketReplication` and the `.cfg` files

These hold the small instances the runs use:

- table `T`;
- one key of another table, `U:a`;
- group ids and instances at both ends of the 8-bit width;
- a port whose name contains `:`.

### `PdInstall`, `PdInstallAbstract` and `MCPdInstall`

These model the two install helpers. See "Installing PD entries" below.

### `PacketReplicationProofs`, `PacketReplicationStoreProofs` and `PdInstallProofs`

These modules hold the TLAPS proofs. The Proofs section below describes them.

## Runs

| run | cfg | expect | what it shows |
|---|---|---|---|
| roundtrip | MCRoundTrip | pass | `StoreMatchesCache` and its inductive form `StoreInv` hold. `ReadBackMatchesCache`: with no other writer, after every request (up to 2 updates of groups 0 and 255 with up to 2 replicas each, ports `E0` and `E:1`, instances 1 and 255), the table reads back in every key order and the diff is empty. The action property `RecordedGroupMatchesStore`: each time the caller records the oldest update of a request and no later update of that request touches the group, the cache's copy of the group reads exactly as the App DB holds it, in the middle of a request too. About 3.8M states. |
| drift | MCDrift | pass | `ReportsExactDrift`: other writers make up to two changes, spelled as the serializer spells keys and fields. In every key order, the read then succeeds and reports each difference between the App DB and the cache once, and nothing else. The claim is made only for tables in the serializer's spelling (`WellFormedTable`): `SimpleHexAtoi` also accepts spellings such as `T:FF`, `T:0ff` or `E:0X1`, and the `alias_key` run shows what they do. The ports `E`/`E1` and instances 11/1 would collide in `port_instance` without the `_`. The property reads one snapshot of the table, so a write between `keys()` (line 566) and `get()` (line 598) is not modelled. |
| alias_key | MCAliasKey | violation | `SilentOnlyWhenInSync` fails. Another writer adds a field under `T:FF`, which `SimpleHexAtoi` also reads as group 255. In the orders where `T:ff` is read last, the drift is not reported. |
| report_order | MCReportOrder | violation | `ReportsInGroupOrder` fails. A cache-only group 0 is reported after the App DB's group 255, because the second pass (line 657) runs after the first. |
| install | MCPdInstall | pass | `TypeOK`, `InstallInv`, `RefinesAbstract` (`PdInstallAbstract`'s `Spec`, fairness included) and `OkOnlyForTranslatableBatch`: an OK status belongs to a batch that the call's own IrP4Info translates in full. About 13k states. |
| stale_pipeline | MCStalePipeline | violation | `WritesMatchRunningPipeline` fails: a 9-state trace in which the call reads pipeline c1, another controller takes over, pushes c2 and steps down, and the call writes `<<c1, p1>>` to a switch running c2. |

The bounds are enough for these reasons:

- Two updates per batch are enough for two updates of the same group inside one batch (a
  MODIFY after an INSERT, or a DELETE after one).
- Two external edits are enough to both remove and add keys and fields.

For the packet replication runs no fairness is assumed, and no liveness property is stated.
Every operation of that code is a single synchronous call that returns. Deadlock is checked. It cannot occur: a half-done batch can
always be applied or recorded, and between batches an unsupported update type can always be
rejected.

## Installing PD entries

`InstallPdTableEntries(p4rt, pd_table_entries)` and `InstallPdTableEntry(p4rt, pd_table_entry)`
run four steps, each behind `ASSIGN_OR_RETURN`, so the first error is returned at once:

| line | step | action of `PdInstall` |
|---|---|---|
| 15-16 / 27-28 | `GetForwardingPipelineConfig`: an RPC, may fail | `GetForwardingPipelineConfig` |
| 17 / 29 | `CreateIrP4Info` of the config's P4Info: fails on a bad P4Info | `CreateIrP4Info` |
| 18-19 / 30-31 | `PdTableEntriesToPi` / `PdTableEntryToPi`: fails on the first entry that does not convert | `PdTableEntriesToPi` |
| 21-22 / 33-34 | `InstallPiTableEntries` / `InstallPiTableEntry`: the writes | `InstallPiTableEntries` |

The call's locals (`config`, `info`, `pi`) are variables, `pc` says which step is next, and
`kind` says which of the two functions runs. A call is started by `InstallPdTableEntries(b)`
or `InstallPdTableEntry(e)`.

The switch is not under `src/`. Its state is the table, the pipeline it runs and whether this
session is primary. Another controller is the environment:

- it may become primary (`OtherTakesOver`);
- while primary, it may push a pipeline, which clears the table (`OtherSetsPipeline`);
- while primary, it may write entries (`OtherWrites`);
- it may step down (`OtherReleases`).

The data are abstracted:

- A PI entry is the pair `<<c, e>>`: the PD entry `e` translated under the P4Info of config `c`.
- `Convertible[c]` is the set of PD entries the conversion accepts under `c`.
- `ValidConfigs` are the configs whose P4Info `CreateIrP4Info` accepts.
- The server refuses writes from a session that is not primary and an INSERT of an entry already
  present. Whether it refuses an entry built for another P4Info is left open.
- The batch write may write any part of the entries. The single write writes its entry or
  nothing.

`PdInstallAbstract` says what a call promises, seen from the table. The call is one step at its
return. That step either writes nothing and returns an error, or writes the translation of some
of the batch's entries under one valid P4Info, and returns OK exactly when that is the whole
batch. `PdInstall` defines `A == INSTANCE PdInstallAbstract WITH call <- callBar`, where
`callBar` is `"busy"` while a step is pending. The run `install` checks `A!Spec` as the
property `RefinesAbstract`.

Fairness is weak fairness on the caller's steps (`CallerStep`). Each step is a call in the
caller's thread that returns, with a result or an error. Starting a call and the other controller
get no fairness: neither has to act. The fairness only serves the `WF(Return)` of the abstract
specification, which `RefinesAbstract` checks: no step waits or retries, so a started call
returns even if the session loses primaryship for good.

The instance (`MCPdInstall`) has:

- three PD entries;
- a pipeline `c1` that translates `p1` and `p2`;
- a pipeline `c2` that translates only `p1`;
- a pipeline `c3` whose P4Info is refused;
- an entry `p3` that no pipeline translates.

This covers a batch that only partly converts under one pipeline, a batch that no pipeline
translates in full, a refused P4Info, a duplicate write, a partial batch write and a stale
pipeline.

## Proofs

Three modules hold the proofs. Every theorem holds for every value of the constants.

**`PacketReplicationProofs`** proves `TypeCorrect`, which is `Spec => []TypeOK`. No run checks
this `TypeOK`; the proof covers it for every value of the constants.

- `TypeOK` is itself inductive (`TypeOKInductive`). The proof has one step per action:
  - `Bind` and `Restrict` keep the domains and ranges.
  - `UpdateType` shows that the serializer's tuple is a `KeyOpFieldsValues`.
  - `Len(Tail(s)) = Len(s) - 1` keeps the batch bound.

**`PacketReplicationStoreProofs`** proves `StoreCorrect`, which is
`Spec => []StoreMatchesCache`. Between requests, with no other writer, the App DB holds each
group of the cache under `Key(g)` with exactly `ReplicaFields(cache[g])`. It holds no key of a
group the cache lacks.

`StoreMatchesCache` is not inductive as it stands. In the middle of a request, the App DB is
ahead of the cache. The strengthening `StoreInv` says two things:

- `QueuedMatches`: the queued tuples are the serialized form of the remaining updates,
  `requests[Applied + i]`.
- Without other writers, every group is in one of two states:
  - `UpdatedBy(g, i)`: the group is as the last applied update of it, `requests[i]` with
    `i <= Applied`, left it.
  - `Untouched(g)`: no applied update touched the group, and it is as the cache has it.

The proof of the step (`StoreInvInductive`) has one step per action:

- `CreateUpdate`: it is only enabled when nothing is applied and unrecorded, so it only extends
  the queue.
- `AppDbApply`: it makes `requests[Applied + 1]` the last applied update of its group. The lemma
  `ApplySerialized` shows that the other groups' keys do not change.
- `CacheRecord`: it moves the oldest update into the cache. For its group, that update is either
  the last applied one, and the group becomes `Untouched`, or it is overridden by a later one,
  which keeps its index minus one. `CacheRecorded` is the cache's analogue of
  `ApplySerialized`.
- Other writers end the claim, because `edits` becomes positive.

The theorem `StoreInvariant` states `Spec => []StoreInv` on its own; `StoreCorrect` follows from
it with `StoreInvImpliesMatch`. `StoreInv` is also checked by TLC in `roundtrip`.

`RecordedGroupMatchesStoreCorrect` proves the action property `RecordedGroupMatchesStore`
from `StoreInv`. Lemma `RecordStepOnly` shows that only `CacheRecord` drops the oldest update
of a request. That step needs the whole batch applied, so `Applied = Len(requests)`. The
group `g` of the oldest update is then in `UpdatedBy(g, 1)`: it is not `Untouched`, because
`requests[1]` touched it, and no later index can be its last update, because no later update
touches it. So the App DB holds `g` as `requests[1]` left it, and `CacheRecorded` shows that
the cache now holds the same.

**`PdInstallProofs`** proves four theorems about the install helpers, from `PdInstallAssumption`.

- `InstallCorrect` is `Spec => []InstallInv`. `InstallInv` is `TypeOK` plus what the steps of a
  call have built up: the status stays `none` while the call runs, the IrP4Info is a valid one,
  and at the install step the PI entries are the translation of the whole batch under it. The
  invariant is inductive; the proof has one step per action.
- `Refinement` is `Spec => A!SafetySpec`. `InstallInv` is what makes it go through. At the
  install step, the written set `W` is a subset of `Translation(info, batch)`. The abstract
  return is witnessed by `info` and the entries `S` that `W` names (lemma `WrittenEntries`). An
  error before the install is the abstract return with nothing written (`EarlyReturn`). The
  other inner steps are stutters (`InnerStep`).
- `InstallTypeCorrect` is `Spec => []TypeOK`, a corollary of `InstallCorrect`.
- `OkOnlyForTranslatableBatchCorrect` is `Spec => []OkOnlyForTranslatableBatch`: an OK status
  belongs to a batch that the IrP4Info of the call itself translates in full. It is proved on the
  detailed model. The lemma `OkInductive` shows that the invariant is inductive relative to
  `InstallInv`. The start actions require status `none`. The earlier steps of a call set the
  status to `error` at most. Only `InstallPiTableEntries` can set it to OK, and there
  `InstallInv` gives a valid `info` under which every entry of the batch converts.

The proofs rest on the named assumptions `TableNameAssumption`, `UintMaxAssumption`,
`ConstantsAssumption` and `KeyAssumption`. `KeyAssumption` says two things:

- `Key` is injective on `GroupIds`.
- No group's key is a key of another table.

Both are facts about `absl::Hex` and the table prefix. TLC evaluates them on every run. They
cannot be proved, because `AbslHex` is a recursive function, and what it computes for every
input needs induction over data, which is out of the prover's reach.

What stays with TLC:

- The read-back and drift properties (`ReadBackMatchesCache`, `ReportsExactDrift`) are only
  model-checked. Both go through the reader and the diff engine. The reader depends on what
  `Numeral` (hex and decimal formatting) and `HexValue` compute, and on `SelectSeq`, which is a
  recursive function over the key order. The diff engine depends on `FlattenSeq` and
  `SortSeq`. Even the step "a diff of a map with itself is empty" needs induction over the
  sequences that `FlattenSeq` concatenates. Induction over data is out of the prover's reach,
  so these properties hold only for the instances the runs check.
- Liveness (the fairness part of `RefinesAbstract`: a started call returns) needs reasoning about
  `ENABLED` and fairness, which stays with TLC.
- The properties of the violation runs are false, and each run's trace shows why.

## Not modelled

- The gNMI helper header (`src/unnamed/part_000` lines 1-388) is declarations only.
- Inside the install helpers, the PD/PI protobuf conversions and the P4Runtime server are
  abstracted as described above. The batch is a set, so a request that repeats an entry is not
  modelled.
- Field values are left out of the App DB because nothing reads them.
