----------------------- MODULE PacketReplicationCodec -----------------------
(***************************************************************************)
(* The App DB key and field codec of the packet replication (multicast    *)
(* group) table, p4rt_app/sonic/packet_replication_entry_translation.cc.  *)
(*                                                                         *)
(* A string is a sequence of one-character strings, so that the codec's   *)
(* formatting (absl::Hex, absl::StrCat of an integer) and its parsing      *)
(* (absl::StartsWith, rfind, absl::SimpleHexAtoi) are modelled by what     *)
(* they do.  Chars lists the characters the model uses in ASCII order,     *)
(* the order in which std::string (and so absl::btree_set) compares.       *)
(***************************************************************************)
EXTENDS Naturals, Sequences, SequencesExt

CONSTANTS
  TableName,   \* APP_P4RT_REPLICATION_IP_MULTICAST_TABLE_NAME
  UintMax      \* the largest uint32_t, 2^32 - 1; smaller for TLC

Chars == <<" ", "+", "-", "0", "1", "2", "3", "4", "5", "6", "7", "8", "9",
           ":", "A", "B", "C", "D", "E", "F", "T", "U", "X", "_",
           "a", "b", "c", "d", "e", "f", "x", "z">>
Char == Range(Chars)
Rank(c) == CHOOSE i \in DOMAIN Chars : Chars[i] = c

ASSUME TableNameAssumption ==
  TableName \in Seq(Char) \ {<<>>} /\ \A i \in DOMAIN TableName : TableName[i] # ":"

ASSUME UintMaxAssumption == UintMax \in Nat \ {0}

(* uint32_t: group ids and replica instances. *)
Uint == 0 .. UintMax

LowerHexDigits == <<"0", "1", "2", "3", "4", "5", "6", "7", "8", "9",
                    "a", "b", "c", "d", "e", "f">>
UpperHexDigits == <<"0", "1", "2", "3", "4", "5", "6", "7", "8", "9",
                    "A", "B", "C", "D", "E", "F">>

(* The digits of n in base b, most significant first, without padding. *)
Numeral(n, b, digits) ==
  LET num[m \in Nat] == IF m < b THEN <<digits[m + 1]>>
                        ELSE num[m \div b] \o <<digits[(m % b) + 1]>>
  IN  num[n]

(* absl::Hex(n) in a StrCat: lowercase, no padding, no "0x". *)
AbslHex(n) == Numeral(n, 16, LowerHexDigits)

(* absl::StrCat of an unsigned integer: decimal. *)
AbslDecimal(n) == Numeral(n, 10, SubSeq(LowerHexDigits, 1, 10))

(* std::string::rfind: the index of the last c in s, 0 when there is none. *)
RFind(s, c) == SelectLastInSeq(s, LAMBDA x : x = c)

IsHexDigit(c) == \E d \in 0..15 : c \in {LowerHexDigits[d + 1], UpperHexDigits[d + 1]}
HexDigitValue(c) == CHOOSE d \in 0..15 : c \in {LowerHexDigits[d + 1], UpperHexDigits[d + 1]}

HexValue(s) ==
  LET v[i \in 0..Len(s)] == IF i = 0 THEN 0 ELSE 16 * v[i - 1] + HexDigitValue(s[i])
  IN  v[Len(s)]

(* s without its leading and trailing whitespace. *)
StripWhitespace(s) ==
  LET first == SelectInSeq(s, LAMBDA c : c # " ")
      last  == SelectLastInSeq(s, LAMBDA c : c # " ")
  IN  IF first = 0 THEN <<>> ELSE SubSeq(s, first, last)

(* A value parsed into a uint32_t: it fails when it does not fit. *)
FitUint(n) == IF n \in Uint THEN [ok |-> TRUE, value |-> n] ELSE [ok |-> FALSE, value |-> 0]

(* One or more hex digits, either case. *)
HexAtoiDigits(d) ==
  IF d # <<>> /\ \A i \in DOMAIN d : IsHexDigit(d[i])
  THEN FitUint(HexValue(d)) ELSE [ok |-> FALSE, value |-> 0]

(* An optional "0x" or "0X" dropped. *)
DropHexPrefix(u) ==
  IF Len(u) >= 2 /\ u[1] = "0" /\ u[2] \in {"x", "X"} THEN SubSeq(u, 3, Len(u)) ELSE u

(* A '-' refused, a '+' dropped. *)
HexAtoiSigned(t) ==
  IF t # <<>> /\ t[1] = "-" THEN [ok |-> FALSE, value |-> 0]
  ELSE HexAtoiDigits(DropHexPrefix(IF t # <<>> /\ t[1] = "+" THEN Tail(t) ELSE t))

(* absl::SimpleHexAtoi into a uint32_t: surrounding whitespace skipped,   *)
(* then the sign, the "0x" and the digits.                                *)
SimpleHexAtoi(s) == HexAtoiSigned(StripWhitespace(s))

-----------------------------------------------------------------------------
(* Keys: <table name>:<multicast group id>. *)

TablePrefix == TableName \o <<":">>

(* IrMulticastGroupEntryToAppDbKey (app_db_to_pdpi_ir_translator, outside *)
(* src/): the group id in hex without "0x", as the spec's key grammar says.*)
IrMulticastGroupEntryToAppDbKey(group_id) == AbslHex(group_id)

GetRedisPacketReplicationTableKey(group_id) ==
  TablePrefix \o IrMulticastGroupEntryToAppDbKey(group_id)

StripTableName(app_db_key) ==
  [ok   |-> IsPrefix(TablePrefix, app_db_key),
   rest |-> SubSeq(app_db_key, Len(TablePrefix) + 1, Len(app_db_key))]

(* Fields: <port>:0x<instance in hex>, one per replica. *)
PortInstanceField(port, instance) == port \o <<":", "0", "x">> \o AbslHex(instance)

(* The field split at position split: the port before it and the parsed *)
(* instance after it; no ':' at all (split = 0) is an error.             *)
ReplicaOf(split, port, instance) ==
  [ok |-> split # 0 /\ instance.ok, port |-> port, instance |-> instance.value]

SplitReplica(field, split) ==
  ReplicaOf(split, SubSeq(field, 1, split - 1),
            SimpleHexAtoi(SubSeq(field, split + 1, Len(field))))

(* Mutant: the field split at its first ':' (find instead of rfind). *)
DecodeReplicaAtFirstColon(field) == SplitReplica(field, SelectInSeq(field, LAMBDA x : x = ":"))

(* A field name split at its last ':' into the port and the instance. *)
DecodeReplica(field) == SplitReplica(field, RFind(field, ":"))

(* Mutant: port and instance concatenated without the '_'. *)
PortInstanceStringNoSeparator(port, instance) == port \o AbslDecimal(instance)

(* The "port_instance" form the comparison uses, instance in decimal. *)
PortInstanceString(port, instance) == port \o <<"_">> \o AbslDecimal(instance)

(* std::string's operator<: lexicographic by character, a prefix first. *)
StrLess(s, t) ==
  \E i \in 0..Len(s) :
     /\ i <= Len(t)
     /\ SubSeq(s, 1, i) = SubSeq(t, 1, i)
     /\ \/ i = Len(s) /\ i < Len(t)
        \/ i < Len(s) /\ i < Len(t) /\ Rank(s[i + 1]) < Rank(t[i + 1])
=============================================================================
