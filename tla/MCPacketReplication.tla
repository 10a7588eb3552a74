------------------------ MODULE MCPacketReplication ------------------------
(* Small instances of PacketReplication for TLC. *)
EXTENDS PacketReplication

MCTableName == <<"T">>
MCOtherTableKeys == {<<"U", ":", "a">>}

(* Ports, one with a ':' in its name; group ids and instances at both ends *)
(* of an 8-bit unsigned type.                                            *)
MCGroupIds == {0, 255}
MCPorts == {<<"E", "0">>, <<"E", ":", "1">>}
MCInstances == {1, 255}
MCForeignFields == {<<"x">>}

(* Ports and instances whose "port_instance" strings would collide without *)
(* the '_' (E + 11 and E1 + 1).                                            *)
MCDriftGroupIds == {255}
MCDriftPorts == {<<"E">>, <<"E", "1">>}
MCDriftInstances == {1, 11}

(* A key another writer spells with uppercase hex: an alias of group 255. *)
MCAliasKeys == {<<"T", ":", "F", "F">>}
=============================================================================
