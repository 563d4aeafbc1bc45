------------------------------ MODULE Protocol ------------------------------
(***************************************************************************)
(* The four messages of the SemanticService as the engine's generated code *)
(* keeps, encodes and decodes them (engine/pb/proto/strix.pb.cc, .pb.h).   *)
(*                                                                         *)
(* Every scalar of proto3 has a default, 0 or the empty string, and is not *)
(* sent when it has it.  The code keeps a "has" bit beside each field, and *)
(* Clear, the encoder, the size and the merge each look at the bit and at  *)
(* the value in an order of their own: they agree only as long as a field  *)
(* without its bit has its default.                                        *)
(*                                                                         *)
(* A byte string is its length, so the default of every field is 0.  On    *)
(* the wire a message is a sequence of items, each the number of a field,  *)
(* a wire type and a value; an integer is a varint of 64 bits, into which  *)
(* an int32 is sign-extended.                                              *)
(***************************************************************************)
EXTENDS Integers, Sequences, FiniteSets

CONSTANTS
  Objects,     \* message objects of the program
  Values,      \* bound: what callers set an int32 or an enum to
  Lengths,     \* bound: the lengths of the byte strings callers set
  Items,       \* bound: the items another encoder may send
  MaxItems,    \* bound: items in a message that another encoder sends
  MaxUnknown,  \* bound: unknown items an object keeps
  Word,        \* 2^32, the values of an int32
  Wide,        \* 2^64, the values of a varint
  Group        \* 2^7, what a byte of a varint carries

ASSUME WidthAssumption ==
  /\ Word \in Nat \ {0} /\ Wide \in Nat
  /\ Group \in Nat /\ \A k \in 1 .. 9 : Group^k \in Nat \ {0, 1}
  /\ 2 * Word <= Wide
  /\ \A u \in 0 .. Word - 1 : (Wide - Word + u) % Word = u

Int32 == {v \in Int : -Word <= 2 * v /\ 2 * v < Word}

ASSUME ValueAssumption ==
  /\ Values \subseteq Int32
  /\ Lengths \subseteq Nat

Item == [number : Nat, wire : {"varint", "bytes"}, value : Nat]

ASSUME ItemAssumption ==
  /\ Items \subseteq Item
  /\ MaxItems \in Nat /\ MaxUnknown \in Nat

VARIABLE msg   \* the message in each object

-----------------------------------------------------------------------------
(* The fields: what the parse table of each message says of the number of  *)
(* a field, numbers being counted from 1.                                  *)

Field(name, type) == [name |-> name, type |-> type]

CheckCacheRequest_table == <<Field("prompt", "bytes")>>

CheckCacheResponse_table ==
  <<Field("check_state", "enum"), Field("node_id", "int32"),
    Field("cached_payload", "bytes")>>

SetCacheRequest_table ==
  <<Field("node_id", "int32"), Field("uncached_payload", "bytes")>>

SetCacheResponse_table == <<Field("success", "bool")>>

Types == {"CheckCacheRequest", "CheckCacheResponse",
          "SetCacheRequest", "SetCacheResponse"}

Table(type) ==
  CASE type = "CheckCacheRequest"  -> CheckCacheRequest_table
    [] type = "CheckCacheResponse" -> CheckCacheResponse_table
    [] type = "SetCacheRequest"    -> SetCacheRequest_table
    [] type = "SetCacheResponse"   -> SetCacheResponse_table

Names(type) == {Table(type)[k].name : k \in DOMAIN Table(type)}

-----------------------------------------------------------------------------
(* Construction.                                                           *)

Blank(type, names) ==
  [type |-> type, has |-> {}, val |-> [f \in names |-> 0], unknown |-> << >>]

CheckCacheRequest_New == Blank("CheckCacheRequest", {"prompt"})

CheckCacheResponse_New ==
  Blank("CheckCacheResponse", {"check_state", "node_id", "cached_payload"})

SetCacheRequest_New == Blank("SetCacheRequest", {"node_id", "uncached_payload"})

SetCacheResponse_New == Blank("SetCacheResponse", {"success"})

New(type) ==
  CASE type = "CheckCacheRequest"  -> CheckCacheRequest_New
    [] type = "CheckCacheResponse" -> CheckCacheResponse_New
    [] type = "SetCacheRequest"    -> SetCacheRequest_New
    [] type = "SetCacheResponse"   -> SetCacheResponse_New

-----------------------------------------------------------------------------
(* Accessors: the messages that one call turns a message into.             *)

(* The value is changed and the bit is forgotten.                          *)
SetField_NoBit(m, f, v) == [m EXCEPT !.val[f] = v]

SetField(m, f, v) == [m EXCEPT !.has = @ \cup {f}, !.val[f] = v]

ClearField(m, f) == [m EXCEPT !.has = @ \ {f}, !.val[f] = 0]

(* mutable_ without a change, set_ of the same string, set_allocated_.     *)
BytesCalls(m, f) ==
  {SetField(m, f, n) : n \in Lengths \cup {m.val[f]}} \cup {ClearField(m, f)}

(* release_ leaves a field without its bit alone.                          *)
Release(m, f) == IF f \in m.has THEN ClearField(m, f) ELSE m

ScalarCalls(m, f, values) ==
  {SetField(m, f, v) : v \in values} \cup {ClearField(m, f)}

CheckCacheRequest_calls(m) == BytesCalls(m, "prompt") \cup {Release(m, "prompt")}

CheckCacheResponse_calls(m) ==
  ScalarCalls(m, "check_state", Values) \cup ScalarCalls(m, "node_id", Values)
    \cup BytesCalls(m, "cached_payload") \cup {Release(m, "cached_payload")}

SetCacheRequest_calls(m) ==
  ScalarCalls(m, "node_id", Values)
    \cup BytesCalls(m, "uncached_payload") \cup {Release(m, "uncached_payload")}

SetCacheResponse_calls(m) == ScalarCalls(m, "success", {0, 1})

Calls(m) ==
  CASE m.type = "CheckCacheRequest"  -> CheckCacheRequest_calls(m)
    [] m.type = "CheckCacheResponse" -> CheckCacheResponse_calls(m)
    [] m.type = "SetCacheRequest"    -> SetCacheRequest_calls(m)
    [] m.type = "SetCacheResponse"   -> SetCacheResponse_calls(m)

-----------------------------------------------------------------------------
(* Clear: a string only if its bit is set, the scalars of CheckCacheResponse *)
(* together if one of their bits is, the others always.                    *)

Emptied(m, fields) ==
  [m EXCEPT !.has = {}, !.unknown = << >>,
            !.val = [f \in DOMAIN m.val |-> IF f \in fields THEN 0 ELSE m.val[f]]]

CheckCacheRequest_Clear(m) == Emptied(m, m.has \cap {"prompt"})

(* The scalars are cleared together, by the bit of the first.              *)
CheckCacheResponse_Clear_FirstBit(m) ==
  Emptied(m, (m.has \cap {"cached_payload"})
               \cup IF "check_state" \in m.has THEN {"check_state", "node_id"} ELSE {})

CheckCacheResponse_Clear(m) ==
  LET scalars == {"check_state", "node_id"} IN
  Emptied(m, (m.has \cap {"cached_payload"})
               \cup IF m.has \cap scalars # {} THEN scalars ELSE {})

SetCacheRequest_Clear(m) ==
  Emptied(m, (m.has \cap {"uncached_payload"}) \cup {"node_id"})

SetCacheResponse_Clear(m) == Emptied(m, {"success"})

Clear(m) ==
  CASE m.type = "CheckCacheRequest"  -> CheckCacheRequest_Clear(m)
    [] m.type = "CheckCacheResponse" -> CheckCacheResponse_Clear(m)
    [] m.type = "SetCacheRequest"    -> SetCacheRequest_Clear(m)
    [] m.type = "SetCacheResponse"   -> SetCacheResponse_Clear(m)

-----------------------------------------------------------------------------
(* Copy construction, move and swap: field by field, with the bits.        *)

Taking(m, from, fields) ==
  [m EXCEPT !.has = from.has, !.unknown = from.unknown,
            !.val = [f \in DOMAIN m.val |->
                       IF f \in fields THEN from.val[f] ELSE m.val[f]]]

CheckCacheRequest_Copy(from) == Taking(CheckCacheRequest_New, from, {"prompt"})

CheckCacheResponse_Copy(from) ==
  Taking(CheckCacheResponse_New, from,
         {"cached_payload"} \cup {"check_state", "node_id"})

SetCacheRequest_Copy(from) ==
  Taking(SetCacheRequest_New, from, {"uncached_payload", "node_id"})

SetCacheResponse_Copy(from) == Taking(SetCacheResponse_New, from, {"success"})

Copy(from) ==
  CASE from.type = "CheckCacheRequest"  -> CheckCacheRequest_Copy(from)
    [] from.type = "CheckCacheResponse" -> CheckCacheResponse_Copy(from)
    [] from.type = "SetCacheRequest"    -> SetCacheRequest_Copy(from)
    [] from.type = "SetCacheResponse"   -> SetCacheResponse_Copy(from)

CheckCacheRequest_Swap(m, other) == Taking(m, other, {"prompt"})

CheckCacheResponse_Swap(m, other) ==
  Taking(m, other, {"cached_payload"} \cup {"check_state", "node_id"})

SetCacheRequest_Swap(m, other) ==
  Taking(m, other, {"uncached_payload", "node_id"})

SetCacheResponse_Swap(m, other) == Taking(m, other, {"success"})

(* What m is after it was swapped with other.                              *)
Swapped(m, other) ==
  CASE m.type = "CheckCacheRequest"  -> CheckCacheRequest_Swap(m, other)
    [] m.type = "CheckCacheResponse" -> CheckCacheResponse_Swap(m, other)
    [] m.type = "SetCacheRequest"    -> SetCacheRequest_Swap(m, other)
    [] m.type = "SetCacheResponse"   -> SetCacheResponse_Swap(m, other)

-----------------------------------------------------------------------------
(* Merge: a field of from that has its default leaves to as it is, though  *)
(* its bit is taken over.                                                  *)

(* The default of a field with its bit is taken over.                      *)
Merged_Zero(to, from, fields) ==
  [to EXCEPT !.has = @ \cup from.has, !.unknown = @ \o from.unknown,
             !.val = [f \in DOMAIN to.val |->
                        IF f \in fields \cap from.has THEN from.val[f] ELSE to.val[f]]]

Merged(to, from, fields) ==
  [to EXCEPT !.has = @ \cup from.has, !.unknown = @ \o from.unknown,
             !.val = [f \in DOMAIN to.val |->
                        IF f \in fields \cap from.has /\ from.val[f] # 0
                        THEN from.val[f] ELSE to.val[f]]]

CheckCacheRequest_Merge(to, from) == Merged(to, from, {"prompt"})

CheckCacheResponse_Merge(to, from) ==
  Merged(to, from, {"cached_payload", "check_state", "node_id"})

SetCacheRequest_Merge(to, from) ==
  Merged(to, from, {"uncached_payload", "node_id"})

SetCacheResponse_Merge(to, from) == Merged(to, from, {"success"})

Merge(to, from) ==
  CASE to.type = "CheckCacheRequest"  -> CheckCacheRequest_Merge(to, from)
    [] to.type = "CheckCacheResponse" -> CheckCacheResponse_Merge(to, from)
    [] to.type = "SetCacheRequest"    -> SetCacheRequest_Merge(to, from)
    [] to.type = "SetCacheResponse"   -> SetCacheResponse_Merge(to, from)

CopyFrom(to, from) == Merge(Clear(to), from)

-----------------------------------------------------------------------------
(* Encoding: in the order of the numbers, then what was not understood.    *)

Sent(m, f) == f \in m.has /\ m.val[f] # 0

(* An int32 is sign-extended to 64 bits.                                   *)
ToVarint(v) == IF v < 0 THEN v + Wide ELSE v

VarintItem(m, f, k) ==
  IF Sent(m, f)
  THEN <<[number |-> k, wire |-> "varint", value |-> ToVarint(m.val[f])]>>
  ELSE << >>

BytesItem(m, f, k) ==
  IF Sent(m, f)
  THEN <<[number |-> k, wire |-> "bytes", value |-> m.val[f]]>>
  ELSE << >>

CheckCacheRequest_Serialize(m) == BytesItem(m, "prompt", 1) \o m.unknown

CheckCacheResponse_Serialize(m) ==
  VarintItem(m, "check_state", 1) \o VarintItem(m, "node_id", 2)
    \o BytesItem(m, "cached_payload", 3) \o m.unknown

SetCacheRequest_Serialize(m) ==
  VarintItem(m, "node_id", 1) \o BytesItem(m, "uncached_payload", 2) \o m.unknown

SetCacheResponse_Serialize(m) == VarintItem(m, "success", 1) \o m.unknown

Serialize(m) ==
  CASE m.type = "CheckCacheRequest"  -> CheckCacheRequest_Serialize(m)
    [] m.type = "CheckCacheResponse" -> CheckCacheResponse_Serialize(m)
    [] m.type = "SetCacheRequest"    -> SetCacheRequest_Serialize(m)
    [] m.type = "SetCacheResponse"   -> SetCacheResponse_Serialize(m)

-----------------------------------------------------------------------------
(* Sizes, in bytes: the stream is given the room ByteSizeLong asks for     *)
(* before a byte is written.                                               *)

(* A varint takes at most 10 bytes.                                        *)
VarintSize(u) == 1 + Cardinality({k \in 1 .. 9 : u >= Group^k})

ItemSize(item) ==
  1 + VarintSize(item.value) + IF item.wire = "bytes" THEN item.value ELSE 0

WireSize(wire) ==
  LET size[k \in 0 .. Len(wire)] ==
        IF k = 0 THEN 0 ELSE size[k - 1] + ItemSize(wire[k])
  IN size[Len(wire)]

(* The size of 32 bits, and not of the 64 they are extended to.            *)
IntSize_Narrow(m, f) ==
  IF Sent(m, f) THEN 1 + VarintSize(m.val[f] % Word) ELSE 0

IntSize(m, f) == IF Sent(m, f) THEN 1 + VarintSize(ToVarint(m.val[f])) ELSE 0

BytesSize(m, f) ==
  IF Sent(m, f) THEN 1 + VarintSize(m.val[f]) + m.val[f] ELSE 0

CheckCacheRequest_ByteSize(m) == BytesSize(m, "prompt") + WireSize(m.unknown)

CheckCacheResponse_ByteSize(m) ==
  BytesSize(m, "cached_payload") + IntSize(m, "check_state")
    + IntSize(m, "node_id") + WireSize(m.unknown)

SetCacheRequest_ByteSize(m) ==
  BytesSize(m, "uncached_payload") + IntSize(m, "node_id") + WireSize(m.unknown)

SetCacheResponse_ByteSize(m) ==
  (IF Sent(m, "success") THEN 2 ELSE 0) + WireSize(m.unknown)

ByteSize(m) ==
  CASE m.type = "CheckCacheRequest"  -> CheckCacheRequest_ByteSize(m)
    [] m.type = "CheckCacheResponse" -> CheckCacheResponse_ByteSize(m)
    [] m.type = "SetCacheRequest"    -> SetCacheRequest_ByteSize(m)
    [] m.type = "SetCacheResponse"   -> SetCacheResponse_ByteSize(m)

-----------------------------------------------------------------------------
(* Decoding: the parser walks over the items with the table of the message, *)
(* setting a field and its bit for each, so that the last item of a field   *)
(* wins; an item with a number or a wire type that the table does not have  *)
(* is kept among the unknown ones.                                         *)

(* The sign is lost.                                                       *)
FromVarint_Unsigned(u) == u % Word

(* An int32 is the low half of its varint, and enums are open.             *)
FromVarint(u) == LET low == u % Word IN IF 2 * low >= Word THEN low - Word ELSE low

(* Every varint is taken as it is.                                         *)
Decoded_Raw(type, u) == IF type \in {"int32", "enum"} THEN FromVarint(u) ELSE u

Decoded(type, u) ==
  CASE type \in {"int32", "enum"} -> FromVarint(u)
    [] type = "bool"              -> IF u = 0 THEN 0 ELSE 1
    [] type = "bytes"             -> u

WireType(type) == IF type = "bytes" THEN "bytes" ELSE "varint"

Known(type, item) ==
  /\ item.number \in DOMAIN Table(type)
  /\ item.wire = WireType(Table(type)[item.number].type)

Read(m, item) ==
  IF Known(m.type, item)
  THEN LET field == Table(m.type)[item.number] IN
       SetField(m, field.name, Decoded(field.type, item.value))
  ELSE [m EXCEPT !.unknown = Append(@, item)]

MergeFromString(m, wire) ==
  LET read[k \in 0 .. Len(wire)] ==
        IF k = 0 THEN m ELSE Read(read[k - 1], wire[k])
  IN read[Len(wire)]

ParseFromString(m, wire) == MergeFromString(Clear(m), wire)

-----------------------------------------------------------------------------
Init == \E type \in Types : msg = [o \in Objects |-> New(type)]

(* A program that only sets, clears and reads fields.                      *)
Access(o) == \E m \in Calls(msg[o]) : msg' = [msg EXCEPT ![o] = m]

Reset(o) == msg' = [msg EXCEPT ![o] = Clear(msg[o])]

Assign(o, p) ==
  /\ o # p
  /\ msg' = [msg EXCEPT ![o] = CopyFrom(msg[o], msg[p])]

Construct(o, p) ==
  /\ o # p
  /\ msg' = [msg EXCEPT ![o] = Copy(msg[p])]

Combine(o, p) ==
  /\ o # p
  /\ Len(msg[o].unknown) + Len(msg[p].unknown) <= MaxUnknown
  /\ msg' = [msg EXCEPT ![o] = Merge(msg[o], msg[p])]

(* A move is a swap, too.                                                  *)
Swap(o, p) ==
  /\ o # p
  /\ msg' = [msg EXCEPT ![o] = Swapped(msg[o], msg[p]),
                        ![p] = Swapped(msg[p], msg[o])]

(* What another encoder may have written, and a parser stopped at.         *)
Wires == UNION {[1 .. n -> Items] : n \in 0 .. MaxItems}

Parse(o) ==
  \E wire \in Wires :
    LET m == ParseFromString(msg[o], wire) IN
    /\ Len(m.unknown) <= MaxUnknown
    /\ msg' = [msg EXCEPT ![o] = m]

Next ==
  \/ \E o \in Objects : Access(o) \/ Reset(o) \/ Parse(o)
  \/ \E o, p \in Objects :
       Assign(o, p) \/ Construct(o, p) \/ Combine(o, p) \/ Swap(o, p)

Spec == Init /\ [][Next]_msg

-----------------------------------------------------------------------------
FieldValues(type) ==
  CASE type \in {"int32", "enum"} -> Int32
    [] type = "bool"              -> {0, 1}
    [] type = "bytes"             -> Nat

TypeOK ==
  /\ DOMAIN msg = Objects
  /\ \A o \in Objects :
       LET m == msg[o] IN
       /\ m.type \in Types
       /\ m.has \subseteq Names(m.type)
       /\ DOMAIN m.val = Names(m.type)
       /\ \A k \in DOMAIN Table(m.type) :
            m.val[Table(m.type)[k].name] \in FieldValues(Table(m.type)[k].type)
       /\ m.unknown \in Seq(Item)

(* A field without its bit has its default: what CheckHasBitConsistency of *)
(* the generated code asks before a message is merged, encoded or          *)
(* destroyed, for a field of which it is not true is never sent.           *)
HasBitConsistency ==
  \A o \in Objects : \A f \in DOMAIN msg[o].val :
    f \notin msg[o].has => msg[o].val[f] = 0

(* An object that is cleared, to be used for another message, holds        *)
(* nothing of the last one.                                                *)
ClearLeavesNothing == \A o \in Objects : Clear(msg[o]) = New(msg[o].type)

(* The receiver of a message reads from each field what the sender set,    *)
(* -1, 0 and the empty string among it, and sends on what it does not know. *)
RoundTrip ==
  \A o \in Objects :
    LET m == ParseFromString(New(msg[o].type), Serialize(msg[o])) IN
    m.val = msg[o].val /\ m.unknown = msg[o].unknown

(* As many bytes are written as were asked for.                            *)
SizeAgrees == \A o \in Objects : WireSize(Serialize(msg[o])) = ByteSize(msg[o])

(* Merging two messages is parsing the one's bytes after the other's.      *)
MergeIsConcatenation ==
  \A o, p \in Objects :
    o # p => LET m == Merge(msg[o], msg[p])
                 n == ParseFromString(New(msg[o].type),
                                      Serialize(msg[o]) \o Serialize(msg[p]))
             IN m.val = n.val /\ m.unknown = n.unknown
=============================================================================
