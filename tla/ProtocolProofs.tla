--------------------------- MODULE ProtocolProofs ---------------------------
(***************************************************************************)
(* The messages, whatever values are set, whatever the other encoder sends *)
(* and however many items there are: the has bits, the types of the        *)
(* values, what the receiver reads, the size, and merging.                 *)
(*                                                                         *)
(* Parsing and sizing go over the items of a message one by one; what they *)
(* make of a message of any length is proved by induction (Induction).     *)
(***************************************************************************)
EXTENDS Protocol, Induction

-----------------------------------------------------------------------------
(* Shapes.                                                                 *)

LEMMA NamesOf ==
  /\ Names("CheckCacheRequest") = {"prompt"}
  /\ Names("CheckCacheResponse") = {"check_state", "node_id", "cached_payload"}
  /\ Names("SetCacheRequest") = {"node_id", "uncached_payload"}
  /\ Names("SetCacheResponse") = {"success"}
  <1>1. Names("CheckCacheRequest") = {"prompt"}
    BY DEF Names, Table, CheckCacheRequest_table, Field
  <1>2. Names("CheckCacheResponse") = {"check_state", "node_id", "cached_payload"}
    BY DEF Names, Table, CheckCacheResponse_table, Field
  <1>3. Names("SetCacheRequest") = {"node_id", "uncached_payload"}
    BY DEF Names, Table, SetCacheRequest_table, Field
  <1>4. Names("SetCacheResponse") = {"success"}
    BY DEF Names, Table, SetCacheResponse_table, Field
  <1> QED BY <1>1, <1>2, <1>3, <1>4

(* The one message with these parts.                                       *)
Only(type, has, val, unknown) ==
  [type : {type}, has : {has}, val : {val}, unknown : {unknown}]

(* A message whose fields have their defaults where they have no bit.      *)
Shape(m) ==
  /\ m \in Only(m.type, m.has, m.val, m.unknown)
  /\ m.type \in Types
  /\ m.has \subseteq Names(m.type)
  /\ m.val = [f \in Names(m.type) |-> m.val[f]]
  /\ \A f \in Names(m.type) : f \notin m.has => m.val[f] = 0

LEMMA OnlyOne ==
  ASSUME NEW type, NEW has, NEW val, NEW unknown,
         NEW m \in Only(type, has, val, unknown),
         NEW n \in Only(type, has, val, unknown)
  PROVE  m = n
  BY DEF Only

LEMMA OnlyShape ==
  ASSUME NEW type \in Types, NEW has \in SUBSET Names(type), NEW val, NEW unknown,
         val = [f \in Names(type) |-> val[f]],
         \A f \in Names(type) : f \notin has => val[f] = 0,
         NEW m \in Only(type, has, val, unknown)
  PROVE  Shape(m) /\ m.type = type
  BY DEF Shape, Only

Zeros(type) == [f \in Names(type) |-> 0]

LEMMA NewShape ==
  ASSUME NEW type \in Types
  PROVE  /\ New(type) \in Only(type, {}, Zeros(type), << >>)
         /\ Shape(New(type)) /\ New(type).type = type
  <1>1. New(type) \in Only(type, {}, Zeros(type), << >>)
    BY NamesOf DEF Types, New, CheckCacheRequest_New, CheckCacheResponse_New,
                   SetCacheRequest_New, SetCacheResponse_New, Blank, Only, Zeros
  <1>2. /\ Zeros(type) = [f \in Names(type) |-> Zeros(type)[f]]
        /\ \A f \in Names(type) : Zeros(type)[f] = 0
    BY DEF Zeros
  <1> QED BY <1>1, <1>2, OnlyShape

-----------------------------------------------------------------------------
(* Accessors.                                                              *)

LEMMA SetFieldShape ==
  ASSUME NEW m, Shape(m), NEW f \in Names(m.type), NEW v
  PROVE  Shape(SetField(m, f, v)) /\ SetField(m, f, v).type = m.type
  <1> DEFINE has == m.has \cup {f}
             val == [m.val EXCEPT ![f] = v]
  <1>1. SetField(m, f, v) \in Only(m.type, has, val, m.unknown)
    BY DEF Shape, Only, SetField
  <1>2. /\ has \in SUBSET Names(m.type)
        /\ val = [g \in Names(m.type) |-> val[g]]
        /\ \A g \in Names(m.type) : g \notin has => val[g] = 0
    BY DEF Shape
  <1>3. m.type \in Types
    BY DEF Shape
  <1> HIDE DEF has, val
  <1> QED BY <1>1, <1>2, <1>3, OnlyShape

LEMMA ClearFieldShape ==
  ASSUME NEW m, Shape(m), NEW f \in Names(m.type)
  PROVE  /\ Shape(ClearField(m, f)) /\ ClearField(m, f).type = m.type
         /\ Shape(Release(m, f)) /\ Release(m, f).type = m.type
  <1> DEFINE has == m.has \ {f}
             val == [m.val EXCEPT ![f] = 0]
  <1>1. ClearField(m, f) \in Only(m.type, has, val, m.unknown)
    BY DEF Shape, Only, ClearField
  <1>2. /\ has \in SUBSET Names(m.type)
        /\ val = [g \in Names(m.type) |-> val[g]]
        /\ \A g \in Names(m.type) : g \notin has => val[g] = 0
    BY DEF Shape
  <1>3. m.type \in Types
    BY DEF Shape
  <1>4. Shape(ClearField(m, f)) /\ ClearField(m, f).type = m.type
    <2> HIDE DEF has, val
    <2> QED BY <1>1, <1>2, <1>3, OnlyShape
  <1> QED BY <1>4 DEF Release

LEMMA CallsShape ==
  ASSUME NEW m, Shape(m), NEW n \in Calls(m)
  PROVE  Shape(n) /\ n.type = m.type
  <1>1. PICK f \in Names(m.type) :
          \/ \E v : n = SetField(m, f, v)
          \/ n = ClearField(m, f) \/ n = Release(m, f)
    BY NamesOf
    DEF Shape, Types, Calls, CheckCacheRequest_calls, CheckCacheResponse_calls,
        SetCacheRequest_calls, SetCacheResponse_calls, BytesCalls, ScalarCalls
  <1> QED BY <1>1, SetFieldShape, ClearFieldShape

-----------------------------------------------------------------------------
(* Clear.                                                                  *)

LEMMA EmptiedIsNew ==
  ASSUME NEW m, Shape(m), NEW fields, m.has \subseteq fields
  PROVE  Emptied(m, fields) = New(m.type)
  <1> DEFINE val == [f \in DOMAIN m.val |-> IF f \in fields THEN 0 ELSE m.val[f]]
  <1>1. Emptied(m, fields) \in Only(m.type, {}, val, << >>)
    BY DEF Shape, Only, Emptied
  <1>2. val = Zeros(m.type)
    BY DEF Shape, Zeros
  <1>3. New(m.type) \in Only(m.type, {}, Zeros(m.type), << >>)
    BY NewShape DEF Shape
  <1> HIDE DEF val
  <1> QED BY <1>1, <1>2, <1>3, OnlyOne

(* Whatever bits it looks at, Clear makes a new message of any message     *)
(* whose fields have their defaults where they have no bit.                *)
LEMMA ClearIsNew ==
  ASSUME NEW m, Shape(m)
  PROVE  Clear(m) = New(m.type)
  <1>1. m.has \subseteq Names(m.type)
    BY DEF Shape
  <1>2. CASE m.type = "CheckCacheRequest"
    <2>1. Clear(m) = Emptied(m, m.has \cap {"prompt"})
      BY <1>2 DEF Clear, CheckCacheRequest_Clear
    <2> QED BY <1>1, <1>2, <2>1, NamesOf, EmptiedIsNew
  <1>3. CASE m.type = "CheckCacheResponse"
    <2> DEFINE scalars == {"check_state", "node_id"}
               fields == (m.has \cap {"cached_payload"})
                           \cup IF m.has \cap scalars # {} THEN scalars ELSE {}
    <2>1. Clear(m) = Emptied(m, fields)
      BY <1>3 DEF Clear, CheckCacheResponse_Clear
    <2>2. m.has \subseteq fields
      BY <1>1, <1>3, NamesOf
    <2> QED BY <2>1, <2>2, EmptiedIsNew
  <1>4. CASE m.type = "SetCacheRequest"
    <2>1. Clear(m) = Emptied(m, (m.has \cap {"uncached_payload"}) \cup {"node_id"})
      BY <1>4 DEF Clear, SetCacheRequest_Clear
    <2> QED BY <1>1, <1>4, <2>1, NamesOf, EmptiedIsNew
  <1>5. CASE m.type = "SetCacheResponse"
    <2>1. Clear(m) = Emptied(m, {"success"})
      BY <1>5 DEF Clear, SetCacheResponse_Clear
    <2> QED BY <1>1, <1>5, <2>1, NamesOf, EmptiedIsNew
  <1> QED BY <1>2, <1>3, <1>4, <1>5 DEF Shape, Types

-----------------------------------------------------------------------------
(* Copy, move and swap.                                                    *)

LEMMA TakingAll ==
  ASSUME NEW m, NEW from, Shape(m), Shape(from), m.type = from.type,
         NEW fields, Names(m.type) \subseteq fields
  PROVE  Taking(m, from, fields) = from
  <1> DEFINE val == [f \in DOMAIN m.val |->
                       IF f \in fields THEN from.val[f] ELSE m.val[f]]
  <1>1. Taking(m, from, fields) \in Only(from.type, from.has, val, from.unknown)
    BY DEF Shape, Only, Taking
  <1>2. val = from.val
    BY DEF Shape
  <1>3. from \in Only(from.type, from.has, from.val, from.unknown)
    BY DEF Shape
  <1> HIDE DEF val
  <1> QED BY <1>1, <1>2, <1>3, OnlyOne

(* A copy is the message copied, and after a swap or a move each of the    *)
(* two is what the other was: no field and no bit is left behind.          *)
LEMMA CopyIsSame ==
  ASSUME NEW from, Shape(from)
  PROVE  Copy(from) = from
  <1>1. /\ from.type \in Types
        /\ Shape(New(from.type)) /\ New(from.type).type = from.type
    BY NewShape DEF Shape
  <1>2. CASE from.type = "CheckCacheRequest"
    <2>1. Copy(from) = Taking(New(from.type), from, {"prompt"})
      BY <1>2 DEF Copy, CheckCacheRequest_Copy, New
    <2> QED BY <1>1, <1>2, <2>1, NamesOf, TakingAll
  <1>3. CASE from.type = "CheckCacheResponse"
    <2> DEFINE fields == {"cached_payload"} \cup {"check_state", "node_id"}
    <2>1. Copy(from) = Taking(New(from.type), from, fields)
      BY <1>3 DEF Copy, CheckCacheResponse_Copy, New
    <2> QED BY <1>1, <1>3, <2>1, NamesOf, TakingAll
  <1>4. CASE from.type = "SetCacheRequest"
    <2>1. Copy(from) = Taking(New(from.type), from, {"uncached_payload", "node_id"})
      BY <1>4 DEF Copy, SetCacheRequest_Copy, New
    <2> QED BY <1>1, <1>4, <2>1, NamesOf, TakingAll
  <1>5. CASE from.type = "SetCacheResponse"
    <2>1. Copy(from) = Taking(New(from.type), from, {"success"})
      BY <1>5 DEF Copy, SetCacheResponse_Copy, New
    <2> QED BY <1>1, <1>5, <2>1, NamesOf, TakingAll
  <1> QED BY <1>1, <1>2, <1>3, <1>4, <1>5 DEF Types

LEMMA SwappedIsOther ==
  ASSUME NEW m, NEW other, Shape(m), Shape(other), m.type = other.type
  PROVE  Swapped(m, other) = other
  <1>1. CASE m.type = "CheckCacheRequest"
    <2>1. Swapped(m, other) = Taking(m, other, {"prompt"})
      BY <1>1 DEF Swapped, CheckCacheRequest_Swap
    <2> QED BY <1>1, <2>1, NamesOf, TakingAll
  <1>2. CASE m.type = "CheckCacheResponse"
    <2> DEFINE fields == {"cached_payload"} \cup {"check_state", "node_id"}
    <2>1. Swapped(m, other) = Taking(m, other, fields)
      BY <1>2 DEF Swapped, CheckCacheResponse_Swap
    <2> QED BY <1>2, <2>1, NamesOf, TakingAll
  <1>3. CASE m.type = "SetCacheRequest"
    <2>1. Swapped(m, other) = Taking(m, other, {"uncached_payload", "node_id"})
      BY <1>3 DEF Swapped, SetCacheRequest_Swap
    <2> QED BY <1>3, <2>1, NamesOf, TakingAll
  <1>4. CASE m.type = "SetCacheResponse"
    <2>1. Swapped(m, other) = Taking(m, other, {"success"})
      BY <1>4 DEF Swapped, SetCacheResponse_Swap
    <2> QED BY <1>4, <2>1, NamesOf, TakingAll
  <1> QED BY <1>1, <1>2, <1>3, <1>4 DEF Shape, Types

-----------------------------------------------------------------------------
(* Merge.                                                                  *)

LEMMA MergedShape ==
  ASSUME NEW to, NEW from, Shape(to), Shape(from), to.type = from.type,
         NEW fields
  PROVE  Shape(Merged(to, from, fields)) /\ Merged(to, from, fields).type = to.type
  <1> DEFINE has == to.has \cup from.has
             val == [f \in DOMAIN to.val |->
                       IF f \in fields \cap from.has /\ from.val[f] # 0
                       THEN from.val[f] ELSE to.val[f]]
             unknown == to.unknown \o from.unknown
  <1>1. Merged(to, from, fields) \in Only(to.type, has, val, unknown)
    BY DEF Shape, Only, Merged
  <1>2. /\ has \in SUBSET Names(to.type)
        /\ val = [f \in Names(to.type) |-> val[f]]
        /\ \A f \in Names(to.type) : f \notin has => val[f] = 0
    BY DEF Shape
  <1>3. to.type \in Types
    BY DEF Shape
  <1> HIDE DEF has, val, unknown
  <1> QED BY <1>1, <1>2, <1>3, OnlyShape

LEMMA MergeShape ==
  ASSUME NEW to, NEW from, Shape(to), Shape(from), to.type = from.type
  PROVE  Shape(Merge(to, from)) /\ Merge(to, from).type = to.type
  BY MergedShape
  DEF Shape, Types, Merge, CheckCacheRequest_Merge, CheckCacheResponse_Merge,
      SetCacheRequest_Merge, SetCacheResponse_Merge

(* The fields that from would send are its own, the others are left.       *)
LEMMA MergeIs ==
  ASSUME NEW to, NEW from, Shape(to), Shape(from), to.type = from.type
  PROVE  /\ Merge(to, from).type = to.type
         /\ Merge(to, from).unknown = to.unknown \o from.unknown
         /\ \A f \in Names(to.type) :
              Merge(to, from).val[f] = IF Sent(from, f) THEN from.val[f] ELSE to.val[f]
  <1>1. ASSUME NEW fields, Names(to.type) \subseteq fields, 
               Merge(to, from) = Merged(to, from, fields)
        PROVE  /\ Merge(to, from).unknown = to.unknown \o from.unknown
               /\ \A f \in Names(to.type) :
                    Merge(to, from).val[f] = IF Sent(from, f) THEN from.val[f] ELSE to.val[f]
    <2> DEFINE val == [f \in DOMAIN to.val |->
                         IF f \in fields \cap from.has /\ from.val[f] # 0
                         THEN from.val[f] ELSE to.val[f]]
    <2>1. Merged(to, from, fields)
            \in Only(to.type, to.has \cup from.has, val, to.unknown \o from.unknown)
      BY DEF Shape, Only, Merged
    <2>2. DOMAIN to.val = Names(to.type)
      BY DEF Shape
    <2>3. \A f \in Names(to.type) : val[f] = IF Sent(from, f) THEN from.val[f] ELSE to.val[f]
      BY <1>1, <2>2 DEF Sent
    <2> HIDE DEF val
    <2> QED BY <1>1, <2>1, <2>3 DEF Only
  <1>2. PICK fields : Names(to.type) \subseteq fields /\ Merge(to, from) = Merged(to, from, fields)
    BY NamesOf
    DEF Shape, Types, Merge, CheckCacheRequest_Merge, CheckCacheResponse_Merge,
        SetCacheRequest_Merge, SetCacheResponse_Merge
  <1> QED BY <1>1, <1>2, MergeShape

-----------------------------------------------------------------------------
(* Parsing, item by item.                                                  *)

(* f holds what is read of wire into m, item by item.                      *)
IsRead(f, m, wire) ==
  f = [k \in 0 .. Len(wire) |-> IF k = 0 THEN m ELSE Read(f[k - 1], wire[k])]

(* The recursive function that MergeFromString is made of exists.          *)
LEMMA ReadSteps ==
  ASSUME NEW m, NEW wire, Len(wire) \in Nat
  PROVE  \E f : IsRead(f, m, wire) /\ MergeFromString(m, wire) = f[Len(wire)]
  <1> DEFINE Upto(f, n) ==
               f = [k \in 0 .. n |-> IF k = 0 THEN m ELSE Read(f[k - 1], wire[k])]
             T == {n \in Nat : \E f : Upto(f, n)}
  <1>1. 0 \in T
    <2>1. Upto([k \in 0 .. 0 |-> m], 0)
      OBVIOUS
    <2> QED BY <2>1
  <1>2. ASSUME NEW n \in Nat, n \in T
        PROVE  n + 1 \in T
    <2>1. PICK f : Upto(f, n)
      BY <1>2
    <2> DEFINE g == [k \in 0 .. n + 1 |-> IF k <= n THEN f[k]
                                         ELSE Read(f[n], wire[n + 1])]
    <2>2. ASSUME NEW k \in 0 .. n + 1
          PROVE  g[k] = IF k = 0 THEN m ELSE Read(g[k - 1], wire[k])
      <3>1. CASE k = 0
        <4>1. f[0] = m
          BY <2>1
        <4> QED BY <3>1, <4>1
      <3>2. CASE k \in 1 .. n
        <4>1. f[k] = Read(f[k - 1], wire[k])
          BY <2>1, <3>2
        <4>2. g[k] = f[k] /\ g[k - 1] = f[k - 1]
          BY <3>2
        <4> QED BY <3>2, <4>1, <4>2
      <3>3. CASE k = n + 1
        <4>1. g[n + 1] = Read(f[n], wire[n + 1]) /\ g[n] = f[n]
          OBVIOUS
        <4> QED BY <3>3, <4>1
      <3> QED BY <3>1, <3>2, <3>3
    <2>3. Upto(g, n + 1)
      BY <2>2
    <2> HIDE DEF g
    <2> QED BY <2>3
  <1>3. Len(wire) \in T
    <2> HIDE DEF T
    <2> QED BY <1>1, <1>2, NatInd
  <1>4. PICK f : IsRead(f, m, wire)
    BY <1>3 DEF IsRead
  <1> DEFINE read == CHOOSE g : IsRead(g, m, wire)
  <1>5. IsRead(read, m, wire)
    BY <1>4
  <1>6. MergeFromString(m, wire) = read[Len(wire)]
    BY DEF MergeFromString, IsRead
  <1> QED BY <1>5, <1>6

LEMMA ReadNothing ==
  ASSUME NEW m
  PROVE  MergeFromString(m, << >>) = m
  <1>1. PICK f : IsRead(f, m, << >>) /\ MergeFromString(m, << >>) = f[0]
    BY ReadSteps
  <1> QED BY <1>1 DEF IsRead

LEMMA ReadOneMore ==
  ASSUME NEW m, NEW S, NEW wire \in Seq(S), NEW item \in S
  PROVE  MergeFromString(m, Append(wire, item)) = Read(MergeFromString(m, wire), item)
  <1> DEFINE n == Len(wire)
             long == Append(wire, item)
  <1>0. /\ n \in Nat /\ Len(long) = n + 1 /\ long[n + 1] = item
        /\ \A k \in 1 .. n : long[k] = wire[k]
    OBVIOUS
  <1> HIDE DEF n, long
  <1>1. PICK f : IsRead(f, m, wire) /\ MergeFromString(m, wire) = f[n]
    BY <1>0, ReadSteps DEF n
  <1>2. PICK g : IsRead(g, m, long) /\ MergeFromString(m, long) = g[n + 1]
    <2>1. Len(long) \in Nat
      BY <1>0
    <2> QED BY <1>0, <2>1, ReadSteps
  <1> DEFINE T == {k \in Nat : k <= n => f[k] = g[k]}
  <1>3. 0 \in T
    BY <1>0, <1>1, <1>2 DEF IsRead, n
  <1>4. ASSUME NEW k \in Nat, k \in T
        PROVE  k + 1 \in T
    <2> SUFFICES ASSUME k + 1 <= n
                 PROVE  f[k + 1] = g[k + 1]
      OBVIOUS
    <2>1. k + 1 \in 1 .. n /\ k + 1 - 1 = k /\ k + 1 # 0
      BY <1>0
    <2>2. f[k + 1] = Read(f[k], wire[k + 1])
      BY <1>0, <1>1, <2>1 DEF IsRead, n
    <2>3. g[k + 1] = Read(g[k], long[k + 1])
      BY <1>0, <1>2, <2>1 DEF IsRead
    <2> QED BY <1>0, <1>4, <2>1, <2>2, <2>3
  <1>5. n \in T
    <2> HIDE DEF T
    <2> QED BY <1>0, <1>3, <1>4, NatInd
  <1>6. g[n + 1] = Read(g[n], long[n + 1])
    BY <1>0, <1>2 DEF IsRead
  <1>7. f[n] = g[n]
    BY <1>0, <1>5
  <1> QED BY <1>0, <1>1, <1>2, <1>6, <1>7 DEF long

(* Parsing two strings joined is parsing the one after the other.          *)
LEMMA ReadBoth ==
  ASSUME NEW m, NEW S, NEW s \in Seq(S), NEW t \in Seq(S)
  PROVE  MergeFromString(m, s \o t) = MergeFromString(MergeFromString(m, s), t)
  <1> DEFINE T == {w \in Seq(S) : MergeFromString(m, s \o w)
                                    = MergeFromString(MergeFromString(m, s), w)}
  <1>1. << >> \in T
    BY ReadNothing, ConcatEmptySeq, EmptySeq
  <1>2. ASSUME NEW w \in Seq(S), NEW x \in S, w \in T
        PROVE  Append(w, x) \in T
    <2>1. s \o Append(w, x) = Append(s \o w, x)
      BY ConcatProperties
    <2>2. s \o w \in Seq(S) /\ Append(w, x) \in Seq(S)
      BY ConcatProperties
    <2>3. /\ MergeFromString(m, Append(s \o w, x)) = Read(MergeFromString(m, s \o w), x)
          /\ MergeFromString(MergeFromString(m, s), Append(w, x))
               = Read(MergeFromString(MergeFromString(m, s), w), x)
      <3> DEFINE first == MergeFromString(m, s)
                 both == s \o w
      <3> HIDE DEF first, both, T
      <3>1. MergeFromString(first, Append(w, x)) = Read(MergeFromString(first, w), x)
        BY ReadOneMore
      <3>2. MergeFromString(m, Append(both, x)) = Read(MergeFromString(m, both), x)
        BY <2>2, ReadOneMore DEF both
      <3> QED BY <3>1, <3>2 DEF first, both
    <2> QED BY <1>2, <2>1, <2>2, <2>3
  <1> HIDE DEF T
  <1>3. t \in T
    BY <1>1, <1>2, SeqInd
  <1> QED BY <1>3 DEF T

LEMMA ReadShape ==
  ASSUME NEW m, Shape(m), NEW item
  PROVE  Shape(Read(m, item)) /\ Read(m, item).type = m.type
  <1>1. CASE Known(m.type, item)
    <2> DEFINE field == Table(m.type)[item.number]
    <2>1. field.name \in Names(m.type)
      BY <1>1 DEF Known, Names
    <2>2. Read(m, item) = SetField(m, field.name, Decoded(field.type, item.value))
      BY <1>1 DEF Read
    <2> HIDE DEF field
    <2> QED BY <2>1, <2>2, SetFieldShape
  <1>2. CASE ~Known(m.type, item)
    <2> DEFINE more == Append(m.unknown, item)
    <2>1. Read(m, item) \in Only(m.type, m.has, m.val, more)
      BY <1>2 DEF Shape, Only, Read
    <2> HIDE DEF more
    <2> QED BY <2>1, OnlyShape DEF Shape
  <1> QED BY <1>1, <1>2

LEMMA ParseShape ==
  ASSUME NEW m, Shape(m), NEW S, NEW wire \in Seq(S)
  PROVE  /\ Shape(MergeFromString(m, wire))
         /\ MergeFromString(m, wire).type = m.type
  <1> DEFINE T == {w \in Seq(S) : /\ Shape(MergeFromString(m, w))
                                  /\ MergeFromString(m, w).type = m.type}
  <1>1. << >> \in T
    BY ReadNothing, EmptySeq
  <1>2. ASSUME NEW w \in Seq(S), NEW x \in S, w \in T
        PROVE  Append(w, x) \in T
    <2>1. MergeFromString(m, Append(w, x)) = Read(MergeFromString(m, w), x)
      BY ReadOneMore
    <2> QED BY <1>2, <2>1, ReadShape
  <1> HIDE DEF T
  <1>3. wire \in T
    BY <1>1, <1>2, SeqInd
  <1> QED BY <1>3 DEF T

-----------------------------------------------------------------------------
(* Sizes.                                                                  *)

(* f holds the sizes of the first items of wire.                           *)
IsSize(f, wire) ==
  f = [k \in 0 .. Len(wire) |-> IF k = 0 THEN 0 ELSE f[k - 1] + ItemSize(wire[k])]

LEMMA VarintSizes ==
  /\ \A u \in Nat : VarintSize(u) \in Nat
  /\ VarintSize(0) = 1 /\ VarintSize(1) = 1
  <1>1. ASSUME NEW u \in Nat
        PROVE  VarintSize(u) \in Nat
    <2> DEFINE C == {k \in 1 .. 9 : u >= Group^k}
    <2>1. IsFiniteSet(1 .. 9)
      <3>1. 1 \in Int /\ 9 \in Int
        OBVIOUS
      <3> QED BY <3>1, FS_Interval
    <2>3. C \subseteq 1 .. 9
      OBVIOUS
    <2> HIDE DEF C
    <2>2. Cardinality(C) \in Nat
      BY <2>1, <2>3, FS_Subset, FS_CardinalityType
    <2> QED BY <2>2 DEF VarintSize, C
  <1>2. ASSUME NEW u \in {0, 1}
        PROVE  VarintSize(u) = 1
    <2> DEFINE C == {k \in 1 .. 9 : u >= Group^k}
    <2>1. ASSUME NEW k \in 1 .. 9, u >= Group^k
          PROVE  FALSE
      <3> DEFINE power == Group^k
      <3>1. power \in Nat \ {0, 1} /\ u >= power
        BY <2>1, WidthAssumption
      <3> HIDE DEF power
      <3> QED BY <3>1
    <2> HIDE DEF C
    <2>2. Cardinality(C) = 0
      <3>1. C = {}
        BY <2>1 DEF C
      <3> QED BY <3>1, FS_EmptySet
    <2> QED BY <2>2 DEF VarintSize, C
  <1> QED BY <1>1, <1>2

LEMMA ItemSizeType ==
  ASSUME NEW item \in Item
  PROVE  ItemSize(item) \in Nat
  <1>1. item.value \in Nat
    BY DEF Item
  <1>2. VarintSize(item.value) \in Nat
    BY <1>1, VarintSizes
  <1> QED BY <1>1, <1>2 DEF ItemSize

(* The recursive function that WireSize is made of exists.                 *)
LEMMA SizeSteps ==
  ASSUME NEW wire, Len(wire) \in Nat
  PROVE  \E f : IsSize(f, wire) /\ WireSize(wire) = f[Len(wire)]
  <1> DEFINE Upto(f, n) ==
               f = [k \in 0 .. n |-> IF k = 0 THEN 0 ELSE f[k - 1] + ItemSize(wire[k])]
             T == {n \in Nat : \E f : Upto(f, n)}
  <1>1. 0 \in T
    <2>1. Upto([k \in 0 .. 0 |-> 0], 0)
      OBVIOUS
    <2> QED BY <2>1
  <1>2. ASSUME NEW n \in Nat, n \in T
        PROVE  n + 1 \in T
    <2>1. PICK f : Upto(f, n)
      BY <1>2
    <2> DEFINE g == [k \in 0 .. n + 1 |-> IF k <= n THEN f[k]
                                         ELSE f[n] + ItemSize(wire[n + 1])]
    <2>2. ASSUME NEW k \in 0 .. n + 1
          PROVE  g[k] = IF k = 0 THEN 0 ELSE g[k - 1] + ItemSize(wire[k])
      <3>1. CASE k = 0
        <4>1. f[0] = 0
          BY <2>1
        <4> QED BY <3>1, <4>1
      <3>2. CASE k \in 1 .. n
        <4>1. f[k] = f[k - 1] + ItemSize(wire[k])
          BY <2>1, <3>2
        <4>2. g[k] = f[k] /\ g[k - 1] = f[k - 1]
          BY <3>2
        <4> QED BY <3>2, <4>1, <4>2
      <3>3. CASE k = n + 1
        <4>1. g[n + 1] = f[n] + ItemSize(wire[n + 1]) /\ g[n] = f[n]
          OBVIOUS
        <4> QED BY <3>3, <4>1
      <3> QED BY <3>1, <3>2, <3>3
    <2>3. Upto(g, n + 1)
      BY <2>2
    <2> HIDE DEF g
    <2> QED BY <2>3
  <1>3. Len(wire) \in T
    <2> HIDE DEF T
    <2> QED BY <1>1, <1>2, NatInd
  <1>4. PICK f : IsSize(f, wire)
    BY <1>3 DEF IsSize
  <1> DEFINE size == CHOOSE g : IsSize(g, wire)
  <1>5. IsSize(size, wire)
    BY <1>4
  <1>6. WireSize(wire) = size[Len(wire)]
    BY DEF WireSize, IsSize
  <1> QED BY <1>5, <1>6

LEMMA SizeOfNothing == WireSize(<< >>) = 0
  <1>1. PICK f : IsSize(f, << >>) /\ WireSize(<< >>) = f[0]
    BY SizeSteps
  <1> QED BY <1>1 DEF IsSize

LEMMA SizeOneMore ==
  ASSUME NEW S, NEW wire \in Seq(S), NEW item \in S
  PROVE  WireSize(Append(wire, item)) = WireSize(wire) + ItemSize(item)
  <1> DEFINE n == Len(wire)
             long == Append(wire, item)
  <1>0. /\ n \in Nat /\ Len(long) = n + 1 /\ long[n + 1] = item
        /\ \A k \in 1 .. n : long[k] = wire[k]
    OBVIOUS
  <1> HIDE DEF n, long
  <1>1. PICK f : IsSize(f, wire) /\ WireSize(wire) = f[n]
    BY <1>0, SizeSteps DEF n
  <1>2. PICK g : IsSize(g, long) /\ WireSize(long) = g[n + 1]
    <2>1. Len(long) \in Nat
      BY <1>0
    <2> QED BY <1>0, <2>1, SizeSteps
  <1> DEFINE T == {k \in Nat : k <= n => f[k] = g[k]}
  <1>3. 0 \in T
    BY <1>0, <1>1, <1>2 DEF IsSize, n
  <1>4. ASSUME NEW k \in Nat, k \in T
        PROVE  k + 1 \in T
    <2> SUFFICES ASSUME k + 1 <= n
                 PROVE  f[k + 1] = g[k + 1]
      OBVIOUS
    <2>1. k + 1 \in 1 .. n /\ k + 1 - 1 = k /\ k + 1 # 0
      BY <1>0
    <2>2. f[k + 1] = f[k] + ItemSize(wire[k + 1])
      BY <1>0, <1>1, <2>1 DEF IsSize, n
    <2>3. g[k + 1] = g[k] + ItemSize(long[k + 1])
      BY <1>0, <1>2, <2>1 DEF IsSize
    <2> QED BY <1>0, <1>4, <2>1, <2>2, <2>3
  <1>5. n \in T
    <2> HIDE DEF T
    <2> QED BY <1>0, <1>3, <1>4, NatInd
  <1>6. g[n + 1] = g[n] + ItemSize(long[n + 1])
    BY <1>0, <1>2 DEF IsSize
  <1>7. f[n] = g[n]
    BY <1>0, <1>5
  <1> QED BY <1>0, <1>1, <1>2, <1>6, <1>7 DEF long

LEMMA SizeType ==
  ASSUME NEW wire \in Seq(Item)
  PROVE  WireSize(wire) \in Nat
  <1> DEFINE T == {w \in Seq(Item) : WireSize(w) \in Nat}
  <1>1. << >> \in T
    BY SizeOfNothing, EmptySeq
  <1>2. ASSUME NEW w \in Seq(Item), NEW x \in Item, w \in T
        PROVE  Append(w, x) \in T
    <2>1. WireSize(Append(w, x)) = WireSize(w) + ItemSize(x)
      BY SizeOneMore
    <2> QED BY <1>2, <2>1, ItemSizeType
  <1> HIDE DEF T
  <1>3. wire \in T
    BY <1>1, <1>2, SeqInd
  <1> QED BY <1>3 DEF T

(* Two strings joined have the size of both.                               *)
LEMMA SizeOfBoth ==
  ASSUME NEW s \in Seq(Item), NEW t \in Seq(Item)
  PROVE  WireSize(s \o t) = WireSize(s) + WireSize(t)
  <1> DEFINE T == {w \in Seq(Item) : WireSize(s \o w) = WireSize(s) + WireSize(w)}
  <1>1. << >> \in T
    BY SizeOfNothing, SizeType, ConcatEmptySeq, EmptySeq
  <1>2. ASSUME NEW w \in Seq(Item), NEW x \in Item, w \in T
        PROVE  Append(w, x) \in T
    <2> DEFINE both == s \o w
    <2>1. s \o Append(w, x) = Append(both, x)
      BY ConcatProperties
    <2>2. both \in Seq(Item)
      BY ConcatProperties
    <2>3. WireSize(both) = WireSize(s) + WireSize(w)
      BY <1>2
    <2> HIDE DEF both
    <2>4. WireSize(Append(both, x)) = WireSize(both) + ItemSize(x)
      BY <2>2, SizeOneMore
    <2>5. WireSize(Append(w, x)) = WireSize(w) + ItemSize(x)
      BY SizeOneMore
    <2>6. WireSize(s) \in Nat /\ WireSize(w) \in Nat /\ ItemSize(x) \in Nat
      BY SizeType, ItemSizeType
    <2>7. WireSize(s \o Append(w, x)) = WireSize(s) + WireSize(Append(w, x))
      BY <2>1, <2>3, <2>4, <2>5, <2>6
    <2> QED BY <2>7
  <1> HIDE DEF T
  <1>3. t \in T
    BY <1>1, <1>2, SeqInd
  <1> QED BY <1>3 DEF T

-----------------------------------------------------------------------------
(* Values.                                                                 *)

FieldTypes == {"int32", "enum", "bool", "bytes"}

LEMMA TableOf ==
  ASSUME NEW type \in Types
  PROVE  /\ DOMAIN Table(type) \subseteq Nat \ {0}
         /\ \A k \in DOMAIN Table(type) : /\ Table(type)[k].name \in Names(type)
                                          /\ Table(type)[k].type \in FieldTypes
         /\ \A f \in Names(type) : \E k \in DOMAIN Table(type) : Table(type)[k].name = f
         /\ \A j, k \in DOMAIN Table(type) :
              Table(type)[j].name = Table(type)[k].name => j = k
  BY DEF Types, Names, Table, CheckCacheRequest_table, CheckCacheResponse_table,
         SetCacheRequest_table, SetCacheResponse_table, Field, FieldTypes

LEMMA FromVarintType ==
  ASSUME NEW u \in Nat
  PROVE  FromVarint(u) \in Int32
  <1> DEFINE low == u % Word
  <1>1. low \in Nat /\ low < Word /\ Word \in Nat \ {0}
    BY WidthAssumption
  <1>2. FromVarint(u) = IF 2 * low >= Word THEN low - Word ELSE low
    BY DEF FromVarint
  <1> HIDE DEF low
  <1> QED BY <1>1, <1>2 DEF Int32

LEMMA ValueTypes ==
  /\ 0 \in Int32
  /\ \A type \in FieldTypes : 0 \in FieldValues(type)
  /\ \A type \in FieldTypes : \A u \in Nat : Decoded(type, u) \in FieldValues(type)
  <1>1. 0 \in Int32
    BY WidthAssumption DEF Int32
  <1>2. \A type \in FieldTypes : 0 \in FieldValues(type)
    BY <1>1 DEF FieldTypes, FieldValues
  <1>3. ASSUME NEW type \in FieldTypes, NEW u \in Nat
        PROVE  Decoded(type, u) \in FieldValues(type)
    BY FromVarintType DEF FieldTypes, FieldValues, Decoded
  <1> QED BY <1>1, <1>2, <1>3

(* The items that a message of this type does not know.                    *)
Foreign(type) == {item \in Item : ~Known(type, item)}

(* Every field has a value of its type, and what is kept as unknown is.    *)
Typed(m) ==
  /\ \A k \in DOMAIN Table(m.type) :
       m.val[Table(m.type)[k].name] \in FieldValues(Table(m.type)[k].type)
  /\ m.unknown \in Seq(Foreign(m.type))

LEMMA NewTyped ==
  ASSUME NEW type \in Types
  PROVE  Typed(New(type))
  <1>1. /\ New(type).type = type /\ New(type).val = Zeros(type)
        /\ New(type).unknown = << >>
    BY NewShape DEF Only
  <1>2. \A k \in DOMAIN Table(type) :
          Zeros(type)[Table(type)[k].name] \in FieldValues(Table(type)[k].type)
    BY TableOf, ValueTypes DEF Zeros
  <1>3. << >> \in Seq(Foreign(type))
    BY EmptySeq
  <1> QED BY <1>1, <1>2, <1>3 DEF Typed

LEMMA SetFieldTyped ==
  ASSUME NEW m, Shape(m), Typed(m), NEW k \in DOMAIN Table(m.type),
         NEW v \in FieldValues(Table(m.type)[k].type)
  PROVE  Typed(SetField(m, Table(m.type)[k].name, v))
  <1> DEFINE f == Table(m.type)[k].name
             n == SetField(m, f, v)
  <1>1. m.type \in Types /\ f \in Names(m.type)
    BY TableOf DEF Shape
  <1>2. n.type = m.type /\ n.unknown = m.unknown /\ n.val = [m.val EXCEPT ![f] = v]
    BY DEF Shape, Only, SetField
  <1>3. \A g \in Names(m.type) : n.val[g] = IF g = f THEN v ELSE m.val[g]
    BY <1>2 DEF Shape
  <1> HIDE DEF n
  <1>4. ASSUME NEW j \in DOMAIN Table(m.type)
        PROVE  n.val[Table(m.type)[j].name] \in FieldValues(Table(m.type)[j].type)
    <2>1. Table(m.type)[j].name \in Names(m.type)
      BY <1>1, TableOf
    <2>2. Table(m.type)[j].name = f => j = k
      BY <1>1, TableOf
    <2> QED BY <1>3, <2>1, <2>2 DEF Typed
  <1> QED BY <1>2, <1>4 DEF Typed, n

LEMMA ClearFieldTyped ==
  ASSUME NEW m, Shape(m), Typed(m), NEW f \in Names(m.type)
  PROVE  Typed(ClearField(m, f)) /\ Typed(Release(m, f))
  <1> DEFINE n == ClearField(m, f)
  <1>1. m.type \in Types
    BY DEF Shape
  <1>2. n.type = m.type /\ n.unknown = m.unknown /\ n.val = [m.val EXCEPT ![f] = 0]
    BY DEF Shape, Only, ClearField
  <1>3. \A g \in Names(m.type) : n.val[g] = IF g = f THEN 0 ELSE m.val[g]
    BY <1>2 DEF Shape
  <1> HIDE DEF n
  <1>4. ASSUME NEW j \in DOMAIN Table(m.type)
        PROVE  n.val[Table(m.type)[j].name] \in FieldValues(Table(m.type)[j].type)
    <2>1. Table(m.type)[j].name \in Names(m.type) /\ Table(m.type)[j].type \in FieldTypes
      BY <1>1, TableOf
    <2> QED BY <1>3, <2>1, ValueTypes DEF Typed
  <1>5. Typed(n)
    BY <1>2, <1>4 DEF Typed
  <1> QED BY <1>5 DEF Release, n

LEMMA CallsTyped ==
  ASSUME NEW m, Shape(m), Typed(m), NEW n \in Calls(m)
  PROVE  Typed(n)
  <1>1. ASSUME NEW k \in DOMAIN Table(m.type), NEW v \in FieldValues(Table(m.type)[k].type),
               n = SetField(m, Table(m.type)[k].name, v)
        PROVE  Typed(n)
    BY <1>1, SetFieldTyped
  <1>2. ASSUME NEW f \in Names(m.type), n = ClearField(m, f) \/ n = Release(m, f)
        PROVE  Typed(n)
    BY <1>2, ClearFieldTyped
  <1>3. /\ Values \subseteq FieldValues("int32") /\ Values \subseteq FieldValues("enum")
        /\ FieldValues("bool") = {0, 1}
        /\ Lengths \subseteq Nat /\ FieldValues("bytes") = Nat
    BY ValueAssumption DEF FieldValues
  <1>4. CASE m.type = "CheckCacheRequest"
    <2>1. /\ DOMAIN Table(m.type) = {1} /\ Table(m.type)[1] = Field("prompt", "bytes")
      BY <1>4 DEF Table, CheckCacheRequest_table
    <2>2. m.val["prompt"] \in Nat
      BY <1>3, <2>1 DEF Typed, Field
    <2>3. \/ \E v \in Nat : n = SetField(m, "prompt", v)
          \/ n = ClearField(m, "prompt") \/ n = Release(m, "prompt")
      BY <1>3, <1>4, <2>2 DEF Calls, CheckCacheRequest_calls, BytesCalls
    <2> QED BY <1>1, <1>2, <1>3, <1>4, <2>1, <2>3, NamesOf DEF Field
  <1>5. CASE m.type = "CheckCacheResponse"
    <2>1. /\ DOMAIN Table(m.type) = 1 .. 3
          /\ Table(m.type)[1] = Field("check_state", "enum")
          /\ Table(m.type)[2] = Field("node_id", "int32")
          /\ Table(m.type)[3] = Field("cached_payload", "bytes")
      BY <1>5 DEF Table, CheckCacheResponse_table
    <2>2. m.val["cached_payload"] \in Nat
      BY <1>3, <2>1 DEF Typed, Field
    <2>3. \/ \E v \in Values : n = SetField(m, "check_state", v)
          \/ \E v \in Values : n = SetField(m, "node_id", v)
          \/ \E v \in Nat : n = SetField(m, "cached_payload", v)
          \/ \E f \in Names(m.type) : n = ClearField(m, f) \/ n = Release(m, f)
      BY <1>3, <1>5, <2>2, NamesOf DEF Calls, CheckCacheResponse_calls, BytesCalls, ScalarCalls
    <2>4. ASSUME NEW v \in Values, n = SetField(m, "check_state", v)
          PROVE  Typed(n)
      BY <1>1, <1>3, <2>1, <2>4 DEF Field
    <2>5. ASSUME NEW v \in Values, n = SetField(m, "node_id", v)
          PROVE  Typed(n)
      BY <1>1, <1>3, <2>1, <2>5 DEF Field
    <2>6. ASSUME NEW v \in Nat, n = SetField(m, "cached_payload", v)
          PROVE  Typed(n)
      BY <1>1, <1>3, <2>1, <2>6 DEF Field
    <2> QED BY <1>2, <2>3, <2>4, <2>5, <2>6
  <1>6. CASE m.type = "SetCacheRequest"
    <2>1. /\ DOMAIN Table(m.type) = 1 .. 2
          /\ Table(m.type)[1] = Field("node_id", "int32")
          /\ Table(m.type)[2] = Field("uncached_payload", "bytes")
      BY <1>6 DEF Table, SetCacheRequest_table
    <2>2. m.val["uncached_payload"] \in Nat
      BY <1>3, <2>1 DEF Typed, Field
    <2>3. \/ \E v \in Values : n = SetField(m, "node_id", v)
          \/ \E v \in Nat : n = SetField(m, "uncached_payload", v)
          \/ \E f \in Names(m.type) : n = ClearField(m, f) \/ n = Release(m, f)
      BY <1>3, <1>6, <2>2, NamesOf DEF Calls, SetCacheRequest_calls, BytesCalls, ScalarCalls
    <2>4. ASSUME NEW v \in Values, n = SetField(m, "node_id", v)
          PROVE  Typed(n)
      BY <1>1, <1>3, <2>1, <2>4 DEF Field
    <2>5. ASSUME NEW v \in Nat, n = SetField(m, "uncached_payload", v)
          PROVE  Typed(n)
      BY <1>1, <1>3, <2>1, <2>5 DEF Field
    <2> QED BY <1>2, <2>3, <2>4, <2>5
  <1>7. CASE m.type = "SetCacheResponse"
    <2>1. /\ DOMAIN Table(m.type) = {1} /\ Table(m.type)[1] = Field("success", "bool")
      BY <1>7 DEF Table, SetCacheResponse_table
    <2>2. \/ \E v \in {0, 1} : n = SetField(m, "success", v)
          \/ n = ClearField(m, "success")
      BY <1>7 DEF Calls, SetCacheResponse_calls, ScalarCalls
    <2> QED BY <1>1, <1>2, <1>3, <1>7, <2>1, <2>2, NamesOf DEF Field
  <1> QED BY <1>4, <1>5, <1>6, <1>7 DEF Shape, Types

LEMMA MergeTyped ==
  ASSUME NEW to, NEW from, Shape(to), Shape(from), to.type = from.type,
         Typed(to), Typed(from)
  PROVE  Typed(Merge(to, from))
  <1> DEFINE n == Merge(to, from)
  <1>1. to.type \in Types
    BY DEF Shape
  <1>2. /\ n.type = to.type /\ n.unknown = to.unknown \o from.unknown
        /\ \A f \in Names(to.type) :
             n.val[f] = IF Sent(from, f) THEN from.val[f] ELSE to.val[f]
    BY MergeIs
  <1> HIDE DEF n
  <1>3. n.unknown \in Seq(Foreign(to.type))
    <2>1. to.unknown \in Seq(Foreign(to.type)) /\ from.unknown \in Seq(Foreign(to.type))
      BY DEF Typed
    <2>2. to.unknown \o from.unknown \in Seq(Foreign(to.type))
      BY <2>1, ConcatProperties
    <2> QED BY <1>2, <2>2
  <1>4. ASSUME NEW k \in DOMAIN Table(to.type)
        PROVE  n.val[Table(to.type)[k].name] \in FieldValues(Table(to.type)[k].type)
    <2>1. Table(to.type)[k].name \in Names(to.type)
      BY <1>1, TableOf
    <2> QED BY <1>2, <2>1 DEF Typed
  <1>5. Typed(n)
    BY <1>2, <1>3, <1>4 DEF Typed
  <1> QED BY <1>5 DEF n

LEMMA ReadTyped ==
  ASSUME NEW m, Shape(m), Typed(m), NEW item \in Item
  PROVE  Typed(Read(m, item))
  <1>1. CASE Known(m.type, item)
    <2> DEFINE k == item.number
               v == Decoded(Table(m.type)[k].type, item.value)
    <2>1. k \in DOMAIN Table(m.type) /\ m.type \in Types
      BY <1>1 DEF Known, Shape
    <2>2. v \in FieldValues(Table(m.type)[k].type)
      BY <2>1, TableOf, ValueTypes DEF Item
    <2>3. Read(m, item) = SetField(m, Table(m.type)[k].name, v)
      BY <1>1 DEF Read
    <2> HIDE DEF k, v
    <2> QED BY <2>1, <2>2, <2>3, SetFieldTyped
  <1>2. CASE ~Known(m.type, item)
    <2>1. /\ Read(m, item).type = m.type /\ Read(m, item).val = m.val
          /\ Read(m, item).unknown = Append(m.unknown, item)
      BY <1>2 DEF Shape, Only, Read
    <2>2. Append(m.unknown, item) \in Seq(Foreign(m.type))
      BY <1>2 DEF Typed, Foreign
    <2> QED BY <2>1, <2>2 DEF Typed
  <1> QED BY <1>1, <1>2

LEMMA ParseTyped ==
  ASSUME NEW m, Shape(m), Typed(m), NEW wire \in Seq(Item)
  PROVE  Typed(MergeFromString(m, wire))
  <1> DEFINE T == {w \in Seq(Item) : Typed(MergeFromString(m, w))}
  <1>1. << >> \in T
    BY ReadNothing, EmptySeq
  <1>2. ASSUME NEW w \in Seq(Item), NEW x \in Item, w \in T
        PROVE  Append(w, x) \in T
    <2>1. MergeFromString(m, Append(w, x)) = Read(MergeFromString(m, w), x)
      BY ReadOneMore
    <2>2. Shape(MergeFromString(m, w))
      BY ParseShape
    <2> QED BY <1>2, <2>1, <2>2, ReadTyped
  <1> HIDE DEF T
  <1>3. wire \in T
    BY <1>1, <1>2, SeqInd
  <1> QED BY <1>3 DEF T

-----------------------------------------------------------------------------
(* The inductive invariant: all objects have a message of one type, its    *)
(* shape, and values of the types of its fields.                           *)

Shaped ==
  /\ msg = [o \in Objects |-> msg[o]]
  /\ \A o \in Objects : Shape(msg[o])
  /\ \A o, p \in Objects : msg[o].type = msg[p].type

Inv == Shaped /\ \A o \in Objects : Typed(msg[o])

LEMMA InitShaped == Init => Shaped
  BY NewShape DEF Init, Shaped

(* One object gets another message of the same type.                       *)
LEMMA OneObject ==
  ASSUME Shaped, NEW o \in Objects, NEW m, Shape(m), m.type = msg[o].type,
         msg' = [msg EXCEPT ![o] = m]
  PROVE  Shaped'
  BY DEF Shaped

LEMMA NextShaped == Shaped /\ [Next]_msg => Shaped'
  <1> SUFFICES ASSUME Shaped, [Next]_msg
               PROVE  Shaped'
    OBVIOUS
  <1>1. ASSUME NEW o \in Objects, Access(o)
        PROVE  Shaped'
    BY <1>1, CallsShape, OneObject DEF Access, Shaped
  <1>2. ASSUME NEW o \in Objects
        PROVE  Shape(Clear(msg[o])) /\ Clear(msg[o]).type = msg[o].type
    <2>1. Shape(msg[o]) /\ msg[o].type \in Types
      BY DEF Shaped, Shape
    <2> QED BY <2>1, ClearIsNew, NewShape
  <1>3. ASSUME NEW o \in Objects, Reset(o)
        PROVE  Shaped'
    BY <1>2, <1>3, OneObject DEF Reset
  <1>4. ASSUME NEW o \in Objects, Parse(o)
        PROVE  Shaped'
    <2>1. PICK wire \in Wires : msg' = [msg EXCEPT ![o] = ParseFromString(msg[o], wire)]
      BY <1>4 DEF Parse
    <2>2. wire \in Seq(Items)
      BY DEF Wires
    <2> QED BY <1>2, <2>1, <2>2, ParseShape, OneObject DEF ParseFromString
  <1>5. ASSUME NEW o \in Objects, NEW p \in Objects,
               Assign(o, p) \/ Combine(o, p)
        PROVE  Shaped'
    <2>1. /\ Shape(msg[o]) /\ Shape(msg[p]) /\ msg[o].type = msg[p].type
      BY DEF Shaped
    <2>2. CASE Assign(o, p)
      <3> DEFINE m == Merge(Clear(msg[o]), msg[p])
      <3>1. Shape(m) /\ m.type = msg[o].type
        BY <1>2, <2>1, MergeShape
      <3>2. msg' = [msg EXCEPT ![o] = m]
        BY <2>2 DEF Assign, CopyFrom
      <3> HIDE DEF m
      <3> QED BY <3>1, <3>2, OneObject
    <2>3. CASE Combine(o, p)
      BY <2>1, <2>3, MergeShape, OneObject DEF Combine
    <2> QED BY <1>5, <2>2, <2>3
  <1>6. ASSUME NEW o \in Objects, NEW p \in Objects, Construct(o, p)
        PROVE  Shaped'
    <2>1. Shape(msg[p]) /\ msg[o].type = msg[p].type
      BY DEF Shaped
    <2> QED BY <1>6, <2>1, CopyIsSame, OneObject DEF Construct
  <1>7. ASSUME NEW o \in Objects, NEW p \in Objects, Swap(o, p)
        PROVE  Shaped'
    <2>1. /\ Shape(msg[o]) /\ Shape(msg[p]) /\ msg[o].type = msg[p].type
      BY DEF Shaped
    <2>2. msg' = [msg EXCEPT ![o] = msg[p], ![p] = msg[o]]
      BY <1>7, <2>1, SwappedIsOther DEF Swap
    <2>3. msg' = [q \in Objects |-> msg'[q]]
      BY <2>2 DEF Shaped
    <2>4. \A q \in Objects : msg'[q] \in {msg[o], msg[p], msg[q]}
      BY <2>2 DEF Shaped
    <2>5. \A q \in Objects : Shape(msg'[q]) /\ msg'[q].type = msg[o].type
      BY <2>1, <2>4 DEF Shaped
    <2> QED BY <2>3, <2>5 DEF Shaped
  <1>8. CASE UNCHANGED msg
    BY <1>8 DEF Shaped
  <1> QED BY <1>1, <1>3, <1>4, <1>5, <1>6, <1>7, <1>8 DEF Next

LEMMA InitInv == Init => Inv
  <1>1. ASSUME NEW type \in Types, msg = [o \in Objects |-> New(type)]
        PROVE  \A o \in Objects : Typed(msg[o])
    BY <1>1, NewTyped
  <1> QED BY <1>1, InitShaped DEF Init, Inv

LEMMA NextInv == Inv /\ [Next]_msg => Inv'
  <1> SUFFICES ASSUME Inv, [Next]_msg
               PROVE  Inv'
    OBVIOUS
  <1>0. Shaped /\ Shaped'
    BY NextShaped DEF Inv
  <1>1. ASSUME NEW o \in Objects
        PROVE  /\ Shape(msg[o]) /\ Typed(msg[o]) /\ msg[o].type \in Types
               /\ Clear(msg[o]) = New(msg[o].type)
               /\ Shape(Clear(msg[o])) /\ Typed(Clear(msg[o]))
               /\ Clear(msg[o]).type = msg[o].type
    <2>1. Shape(msg[o]) /\ Typed(msg[o]) /\ msg[o].type \in Types
      BY <1>0 DEF Shaped, Shape, Inv
    <2> QED BY <2>1, ClearIsNew, NewShape, NewTyped
  <1>2. ASSUME NEW o \in Objects, NEW m, Typed(m), msg' = [msg EXCEPT ![o] = m]
        PROVE  Inv'
    <2>1. \A q \in Objects : msg'[q] = IF q = o THEN m ELSE msg[q]
      BY <1>0, <1>2 DEF Shaped
    <2>2. \A q \in Objects : Typed(msg'[q])
      BY <1>1, <1>2, <2>1
    <2> QED BY <1>0, <2>2 DEF Inv
  <1>3. ASSUME NEW o \in Objects, Access(o)
        PROVE  Inv'
    <2>1. PICK m \in Calls(msg[o]) : msg' = [msg EXCEPT ![o] = m]
      BY <1>3 DEF Access
    <2>2. Typed(m)
      BY <1>1, CallsTyped
    <2> QED BY <1>2, <2>1, <2>2
  <1>4. ASSUME NEW o \in Objects, Reset(o)
        PROVE  Inv'
    BY <1>1, <1>2, <1>4 DEF Reset
  <1>5. ASSUME NEW o \in Objects, Parse(o)
        PROVE  Inv'
    <2>1. PICK wire \in Wires : msg' = [msg EXCEPT ![o] = ParseFromString(msg[o], wire)]
      BY <1>5 DEF Parse
    <2>2. wire \in Seq(Item)
      <3>1. wire \in Seq(Items)
        BY DEF Wires
      <3> QED BY <3>1, ItemAssumption, SeqMonotonic
    <2>3. Typed(ParseFromString(msg[o], wire))
      BY <1>1, <2>2, ParseTyped DEF ParseFromString
    <2> QED BY <1>2, <2>1, <2>3
  <1>6. ASSUME NEW o \in Objects, NEW p \in Objects,
               Assign(o, p) \/ Construct(o, p) \/ Combine(o, p)
        PROVE  Inv'
    <2>1. msg[o].type = msg[p].type
      BY <1>0 DEF Shaped
    <2>2. CASE Assign(o, p)
      <3>1. Typed(Merge(Clear(msg[o]), msg[p]))
        BY <1>1, <2>1, MergeTyped
      <3> QED BY <1>2, <2>2, <3>1 DEF Assign, CopyFrom
    <2>3. CASE Construct(o, p)
      BY <1>1, <1>2, <2>3, CopyIsSame DEF Construct
    <2>4. CASE Combine(o, p)
      <3>1. Typed(Merge(msg[o], msg[p]))
        BY <1>1, <2>1, MergeTyped
      <3> QED BY <1>2, <2>4, <3>1 DEF Combine
    <2> QED BY <1>6, <2>2, <2>3, <2>4
  <1>7. ASSUME NEW o \in Objects, NEW p \in Objects, Swap(o, p)
        PROVE  Inv'
    <2>1. msg[o].type = msg[p].type
      BY <1>0 DEF Shaped
    <2>2. msg' = [msg EXCEPT ![o] = msg[p], ![p] = msg[o]]
      BY <1>1, <1>7, <2>1, SwappedIsOther DEF Swap
    <2>3. \A q \in Objects : msg'[q] \in {msg[o], msg[p], msg[q]}
      BY <1>0, <2>2 DEF Shaped
    <2>4. \A q \in Objects : Typed(msg'[q])
      BY <1>1, <2>3
    <2> QED BY <1>0, <2>4 DEF Inv
  <1>8. CASE UNCHANGED msg
    BY <1>0, <1>8 DEF Inv
  <1> QED BY <1>3, <1>4, <1>5, <1>6, <1>7, <1>8 DEF Next

LEMMA Invariance == Spec => []Inv
  BY InitInv, NextInv, PTL DEF Spec

(* Whatever is set, merged and parsed, each field keeps a value that its   *)
(* type has: an int32 that is read from a wider varint is one, and so is a *)
(* bool from any varint.                                                   *)
THEOREM TypesHold == Spec => []TypeOK
  <1>1. Inv => TypeOK
    <2> SUFFICES ASSUME Inv
                 PROVE  TypeOK
      OBVIOUS
    <2>1. ASSUME NEW type \in Types
          PROVE  Seq(Foreign(type)) \subseteq Seq(Item)
      <3>1. Foreign(type) \subseteq Item
        BY DEF Foreign
      <3> QED BY <3>1, SeqMonotonic
    <2>2. DOMAIN msg = Objects
      BY DEF Inv, Shaped
    <2>3. ASSUME NEW o \in Objects
          PROVE  /\ msg[o].type \in Types /\ msg[o].has \subseteq Names(msg[o].type)
                 /\ DOMAIN msg[o].val = Names(msg[o].type)
                 /\ Typed(msg[o]) /\ msg[o].unknown \in Seq(Item)
      BY <2>1 DEF Inv, Shaped, Shape, Typed
    <2> QED BY <2>2, <2>3 DEF TypeOK, Typed
  <1> QED BY <1>1, Invariance, PTL

(* Whatever the program sets and whatever it parses, of any length and any *)
(* value, a field without its bit has its default, so that nothing that    *)
(* was set is left out of what is sent.                                    *)
THEOREM BitsConsistent == Spec => []HasBitConsistency
  <1>1. Shaped => HasBitConsistency
    BY DEF Shaped, Shape, HasBitConsistency
  <1>2. Inv => Shaped
    BY DEF Inv
  <1> QED BY <1>1, <1>2, Invariance, PTL

(* However an object was used, once it is cleared it is a new one.         *)
THEOREM ClearedIsNew == Spec => []ClearLeavesNothing
  <1>1. Shaped => ClearLeavesNothing
    BY ClearIsNew DEF Shaped, ClearLeavesNothing
  <1>2. Inv => Shaped
    BY DEF Inv
  <1> QED BY <1>1, <1>2, Invariance, PTL

-----------------------------------------------------------------------------
(* What a message sends of its fields.                                     *)

(* What m sends of field k of its table.                                   *)
FieldItem(m, k) ==
  LET field == Table(m.type)[k]
      v == m.val[field.name] IN
  IF Sent(m, field.name)
  THEN <<[number |-> k, wire |-> WireType(field.type),
          value |-> IF field.type = "bytes" THEN v ELSE ToVarint(v)]>>
  ELSE << >>

LEMMA ToVarintType ==
  ASSUME NEW v \in Int32
  PROVE  ToVarint(v) \in Nat
  BY WidthAssumption DEF Int32, ToVarint

(* Every int32, of whatever width and negative or not, is read back as it  *)
(* was sent, though what is sent is wider.                                 *)
THEOREM IntegersSurvive ==
  ASSUME NEW v \in Int32
  PROVE  FromVarint(ToVarint(v)) = v
  <1>1. v \in Int /\ -Word <= 2 * v /\ 2 * v < Word /\ Word \in Nat \ {0}
    BY WidthAssumption DEF Int32
  <1>2. CASE v >= 0
    <2>1. v % Word = v
      BY <1>1, <1>2
    <2> QED BY <1>1, <1>2, <2>1 DEF FromVarint, ToVarint
  <1>3. CASE v < 0
    <2>1. v + Word \in 0 .. Word - 1 /\ 2 * (v + Word) >= Word
      BY <1>1, <1>3
    <2>2. ToVarint(v) = Wide - Word + (v + Word)
      BY <1>1, <1>3, WidthAssumption DEF ToVarint
    <2>3. ToVarint(v) % Word = v + Word
      BY <2>1, <2>2, WidthAssumption
    <2> QED BY <1>1, <2>1, <2>3 DEF FromVarint
  <1> QED BY <1>1, <1>2, <1>3

(* The item of a field is known to the receiver, which decodes from it the *)
(* value that was encoded.                                                 *)
LEMMA ItemBack ==
  ASSUME NEW m, Shape(m), Typed(m), NEW k \in DOMAIN Table(m.type),
         Sent(m, Table(m.type)[k].name)
  PROVE  \E item \in Item :
           /\ FieldItem(m, k) = <<item>> /\ Known(m.type, item) /\ item.number = k
           /\ Decoded(Table(m.type)[k].type, item.value) = m.val[Table(m.type)[k].name]
           /\ ItemSize(item) = 1 + VarintSize(item.value)
                                 + IF Table(m.type)[k].type = "bytes" THEN item.value ELSE 0
           /\ item.value = IF Table(m.type)[k].type = "bytes"
                           THEN m.val[Table(m.type)[k].name]
                           ELSE ToVarint(m.val[Table(m.type)[k].name])
  <1> DEFINE type == Table(m.type)[k].type
             v == m.val[Table(m.type)[k].name]
             u == IF type = "bytes" THEN v ELSE ToVarint(v)
             item == [number |-> k, wire |-> WireType(type), value |-> u]
  <1>1. v \in FieldValues(type) /\ type \in FieldTypes /\ k \in Nat
    BY TableOf DEF Typed, Shape
  <1>2. FieldItem(m, k) = <<item>>
    BY DEF FieldItem
  <1>3. /\ item.number = k /\ item.wire = WireType(type) /\ item.value = u
        /\ WireType(type) \in {"varint", "bytes"} /\ (WireType(type) = "bytes" <=> type = "bytes")
    BY <1>1 DEF WireType, FieldTypes
  <1>4. u \in Nat /\ Decoded(type, u) = v
    <2> HIDE DEF type, v
    <2>1. CASE type \in {"int32", "enum"}
      BY <1>1, <2>1, ToVarintType, IntegersSurvive DEF FieldValues, Decoded
    <2>2. CASE type = "bool"
      <3>1. v \in {0, 1} /\ u = v
        BY <1>1, <2>2 DEF FieldValues, ToVarint
      <3> QED BY <2>2, <3>1 DEF Decoded
    <2>3. CASE type = "bytes"
      BY <1>1, <2>3 DEF FieldValues, Decoded
    <2> QED BY <1>1, <2>1, <2>2, <2>3 DEF FieldTypes
  <1>5. item \in Item
    <2> HIDE DEF u, type
    <2> QED BY <1>1, <1>3, <1>4 DEF Item
  <1>6. Known(m.type, item)
    BY <1>3 DEF Known
  <1>7. ItemSize(item) = 1 + VarintSize(u) + IF type = "bytes" THEN u ELSE 0
    BY <1>3 DEF ItemSize
  <1> WITNESS item \in Item
  <1> HIDE DEF item
  <1> QED BY <1>2, <1>3, <1>4, <1>6, <1>7

(* n is b with the fields of F that m sends.                               *)
Overlay(n, b, m, F) ==
  /\ Shape(n) /\ n.type = b.type /\ n.unknown = b.unknown
  /\ \A f \in Names(b.type) :
       n.val[f] = IF f \in F /\ Sent(m, f) THEN m.val[f] ELSE b.val[f]

LEMMA ReadField ==
  ASSUME NEW m, Shape(m), Typed(m), NEW b, b.type = m.type, NEW F, NEW n,
         Overlay(n, b, m, F), NEW k \in DOMAIN Table(m.type)
  PROVE  /\ FieldItem(m, k) \in Seq(Item)
         /\ Overlay(MergeFromString(n, FieldItem(m, k)), b, m,
                    F \cup {Table(m.type)[k].name})
  <1> DEFINE f == Table(m.type)[k].name
             v == m.val[f]
  <1>1. f \in Names(m.type) /\ m.type \in Types
    BY TableOf DEF Shape
  <1>2. CASE ~Sent(m, f)
    <2>1. FieldItem(m, k) = << >>
      BY <1>2 DEF FieldItem
    <2>2. MergeFromString(n, << >>) = n
      BY ReadNothing
    <2>3. Overlay(n, b, m, F \cup {f})
      BY <1>2 DEF Overlay
    <2> QED BY <2>1, <2>2, <2>3, EmptySeq
  <1>3. CASE Sent(m, f)
    <2>1. PICK item \in Item :
            /\ FieldItem(m, k) = <<item>> /\ Known(m.type, item) /\ item.number = k
            /\ Decoded(Table(m.type)[k].type, item.value) = v
      BY <1>3, ItemBack
    <2>2. <<item>> \in Seq(Item) /\ Append(<< >>, item) = <<item>>
      OBVIOUS
    <2>3. MergeFromString(n, <<item>>) = Read(n, item)
      <3>1. MergeFromString(n, Append(<< >>, item)) = Read(MergeFromString(n, << >>), item)
        <4>1. << >> \in Seq(Item)
          BY EmptySeq
        <4> QED BY <4>1, ReadOneMore
      <3> QED BY <2>2, <3>1, ReadNothing
    <2>4. n.type = m.type /\ Shape(n)
      BY DEF Overlay
    <2>5. Read(n, item) = SetField(n, f, v)
      BY <2>1, <2>4 DEF Read
    <2> HIDE DEF f, v
    <2>6. /\ SetField(n, f, v).val = [n.val EXCEPT ![f] = v]
          /\ SetField(n, f, v).unknown = n.unknown
      BY <2>4 DEF Shape, Only, SetField
    <2>7. Shape(SetField(n, f, v)) /\ SetField(n, f, v).type = n.type
      BY <1>1, <2>4, SetFieldShape
    <2>8. \A g \in Names(m.type) : SetField(n, f, v).val[g] = IF g = f THEN v ELSE n.val[g]
      BY <2>4, <2>6 DEF Shape
    <2>9. Overlay(SetField(n, f, v), b, m, F \cup {f})
      <3>1. v = m.val[f]
        BY DEF v
      <3> QED BY <1>3, <2>6, <2>7, <2>8, <3>1 DEF Overlay
    <2> QED BY <2>1, <2>2, <2>3, <2>5, <2>9 DEF f
  <1> QED BY <1>2, <1>3

LEMMA FieldSize ==
  ASSUME NEW m, Shape(m), Typed(m), NEW k \in DOMAIN Table(m.type)
  PROVE  LET f == Table(m.type)[k].name IN
         /\ WireSize(FieldItem(m, k)) \in Nat
         /\ Table(m.type)[k].type = "bytes" => WireSize(FieldItem(m, k)) = BytesSize(m, f)
         /\ Table(m.type)[k].type # "bytes" => WireSize(FieldItem(m, k)) = IntSize(m, f)
  <1> DEFINE f == Table(m.type)[k].name
             v == m.val[f]
             type == Table(m.type)[k].type
  <1>1. CASE ~Sent(m, f)
    <2>1. FieldItem(m, k) = << >>
      BY <1>1 DEF FieldItem
    <2> QED BY <1>1, <2>1, SizeOfNothing DEF BytesSize, IntSize
  <1>2. CASE Sent(m, f)
    <2>1. PICK item \in Item :
            /\ FieldItem(m, k) = <<item>>
            /\ ItemSize(item) = 1 + VarintSize(item.value)
                                  + IF type = "bytes" THEN item.value ELSE 0
            /\ item.value = IF type = "bytes" THEN v ELSE ToVarint(v)
      BY <1>2, ItemBack
    <2>2. Append(<< >>, item) = <<item>>
      OBVIOUS
    <2>3. WireSize(Append(<< >>, item)) = WireSize(<< >>) + ItemSize(item)
      BY EmptySeq, SizeOneMore
    <2>4. ItemSize(item) \in Nat
      BY ItemSizeType
    <2>5. item.value \in Nat /\ VarintSize(item.value) \in Nat
      BY VarintSizes DEF Item
    <2>6. WireSize(FieldItem(m, k)) = ItemSize(item)
      BY <2>1, <2>2, <2>3, <2>4, SizeOfNothing
    <2> HIDE DEF f, v, type
    <2>7. type = "bytes" => WireSize(FieldItem(m, k)) = BytesSize(m, f)
      BY <1>2, <2>1, <2>6 DEF BytesSize, v
    <2>8. type # "bytes" => WireSize(FieldItem(m, k)) = IntSize(m, f)
      BY <1>2, <2>1, <2>5, <2>6 DEF IntSize, v
    <2> QED BY <2>4, <2>6, <2>7, <2>8 DEF f, type
  <1> QED BY <1>1, <1>2

LEMMA NothingOver ==
  ASSUME NEW b, Shape(b), NEW m
  PROVE  Overlay(b, b, m, {})
  BY DEF Overlay

(* What m sends is the items of its fields, which any receiver takes over, *)
(* and then its unknown items; the size is that of both.                   *)
LEMMA BodyOf ==
  ASSUME NEW m, Shape(m), Typed(m)
  PROVE  \E body \in Seq(Item) :
           /\ Serialize(m) = body \o m.unknown
           /\ \A b : Shape(b) /\ b.type = m.type =>
                       Overlay(MergeFromString(b, body), b, m, Names(m.type))
           /\ ByteSize(m) = WireSize(body) + WireSize(m.unknown)
  <1> DEFINE F(k) == FieldItem(m, k)
             name(k) == Table(m.type)[k].name
  <1>0. ASSUME NEW k \in DOMAIN Table(m.type)
        PROVE  F(k) \in Seq(Item)
    <2>1. Overlay(m, m, m, {})
      BY NothingOver
    <2> QED BY <2>1, ReadField
  <1>1. ASSUME NEW b, Shape(b), b.type = m.type, NEW k \in DOMAIN Table(m.type)
        PROVE  Overlay(MergeFromString(b, F(k)), b, m, {name(k)})
    <2>1. Overlay(b, b, m, {})
      BY <1>1, NothingOver
    <2>2. {} \cup {name(k)} = {name(k)}
      OBVIOUS
    <2>3. Overlay(MergeFromString(b, F(k)), b, m, {} \cup {name(k)})
      BY <1>1, <2>1, ReadField
    <2> QED BY <2>2, <2>3
  <1>2. ASSUME NEW b, Shape(b), b.type = m.type, NEW k \in DOMAIN Table(m.type),
               NEW s \in Seq(Item), NEW G, Overlay(MergeFromString(b, s), b, m, G)
        PROVE  Overlay(MergeFromString(b, s \o F(k)), b, m, G \cup {name(k)})
    <2>1. MergeFromString(b, s \o F(k)) = MergeFromString(MergeFromString(b, s), F(k))
      BY <1>0, <1>2, ReadBoth
    <2>2. Overlay(MergeFromString(MergeFromString(b, s), F(k)), b, m, G \cup {name(k)})
      BY <1>2, ReadField
    <2> QED BY <2>1, <2>2
  <1>3. WireSize(m.unknown) \in Nat
    <2>1. Foreign(m.type) \subseteq Item
      BY DEF Foreign
    <2>2. m.unknown \in Seq(Item)
      BY <2>1, SeqMonotonic DEF Typed
    <2> QED BY <2>2, SizeType
  <1> HIDE DEF F
  <1>4. CASE m.type = "CheckCacheRequest"
    <2>1. /\ 1 \in DOMAIN Table(m.type) /\ name(1) = "prompt"
          /\ Table(m.type)[1].type = "bytes"
      BY <1>4 DEF Table, CheckCacheRequest_table, Field
    <2>2. F(1) = BytesItem(m, "prompt", 1)
      BY <2>1 DEF F, FieldItem, BytesItem, WireType
    <2>3. Serialize(m) = F(1) \o m.unknown
      BY <1>4, <2>2 DEF Serialize, CheckCacheRequest_Serialize
    <2>4. \A b : Shape(b) /\ b.type = m.type =>
                   Overlay(MergeFromString(b, F(1)), b, m, Names(m.type))
      BY <1>1, <1>4, <2>1, NamesOf
    <2>5. ByteSize(m) = WireSize(F(1)) + WireSize(m.unknown)
      BY <1>4, <2>1, FieldSize DEF F, ByteSize, CheckCacheRequest_ByteSize
    <2> QED BY <1>0, <2>1, <2>3, <2>4, <2>5
  <1>5. CASE m.type = "SetCacheResponse"
    <2>1. /\ 1 \in DOMAIN Table(m.type) /\ name(1) = "success"
          /\ Table(m.type)[1].type = "bool"
      BY <1>5 DEF Table, SetCacheResponse_table, Field
    <2>2. F(1) = VarintItem(m, "success", 1)
      BY <2>1 DEF F, FieldItem, VarintItem, WireType
    <2>3. Serialize(m) = F(1) \o m.unknown
      BY <1>5, <2>2 DEF Serialize, SetCacheResponse_Serialize
    <2>4. \A b : Shape(b) /\ b.type = m.type =>
                   Overlay(MergeFromString(b, F(1)), b, m, Names(m.type))
      BY <1>1, <1>5, <2>1, NamesOf
    <2>5. m.val["success"] \in {0, 1}
      BY <2>1 DEF Typed, FieldValues
    <2>6. IntSize(m, "success") = IF Sent(m, "success") THEN 2 ELSE 0
      BY <2>5, VarintSizes DEF IntSize, Sent, ToVarint
    <2>7. WireSize(F(1)) = IntSize(m, "success")
      BY <2>1, FieldSize DEF F
    <2>8. ByteSize(m) = WireSize(F(1)) + WireSize(m.unknown)
      BY <1>5, <2>6, <2>7 DEF ByteSize, SetCacheResponse_ByteSize
    <2> QED BY <1>0, <2>1, <2>3, <2>4, <2>8
  <1>6. CASE m.type = "SetCacheRequest"
    <2>1. /\ 1 \in DOMAIN Table(m.type) /\ 2 \in DOMAIN Table(m.type)
          /\ name(1) = "node_id" /\ Table(m.type)[1].type = "int32"
          /\ name(2) = "uncached_payload" /\ Table(m.type)[2].type = "bytes"
      BY <1>6 DEF Table, SetCacheRequest_table, Field
    <2> DEFINE body == F(1) \o F(2)
    <2>2. /\ F(1) = VarintItem(m, "node_id", 1)
          /\ F(2) = BytesItem(m, "uncached_payload", 2)
      BY <2>1 DEF F, FieldItem, VarintItem, BytesItem, WireType
    <2>3. Serialize(m) = body \o m.unknown
      BY <1>6, <2>2 DEF Serialize, SetCacheRequest_Serialize
    <2>4. F(1) \in Seq(Item) /\ F(2) \in Seq(Item) /\ body \in Seq(Item)
      BY <1>0, <2>1, ConcatProperties
    <2>5. ASSUME NEW b, Shape(b), b.type = m.type
          PROVE  Overlay(MergeFromString(b, body), b, m, Names(m.type))
      <3>1. Overlay(MergeFromString(b, F(1)), b, m, {"node_id"})
        BY <1>1, <2>1, <2>5
      <3>2. Overlay(MergeFromString(b, F(1) \o F(2)), b, m,
                    {"node_id"} \cup {"uncached_payload"})
        BY <1>2, <2>1, <2>4, <2>5, <3>1
      <3>3. {"node_id"} \cup {"uncached_payload"} = Names(m.type)
        BY <1>6, NamesOf
      <3> QED BY <3>2, <3>3
    <2>6. ByteSize(m) = WireSize(body) + WireSize(m.unknown)
      <3>1. WireSize(body) = WireSize(F(1)) + WireSize(F(2))
        BY <2>4, SizeOfBoth
      <3>2. /\ WireSize(F(1)) = IntSize(m, "node_id") /\ WireSize(F(1)) \in Nat
            /\ WireSize(F(2)) = BytesSize(m, "uncached_payload") /\ WireSize(F(2)) \in Nat
        BY <2>1, FieldSize DEF F
      <3>3. ByteSize(m) = BytesSize(m, "uncached_payload") + IntSize(m, "node_id")
                            + WireSize(m.unknown)
        BY <1>6 DEF ByteSize, SetCacheRequest_ByteSize
      <3> HIDE DEF body
      <3> QED BY <1>3, <3>1, <3>2, <3>3
    <2> HIDE DEF body
    <2> QED BY <2>3, <2>4, <2>5, <2>6
  <1>7. CASE m.type = "CheckCacheResponse"
    <2>1. /\ 1 \in DOMAIN Table(m.type) /\ 2 \in DOMAIN Table(m.type)
          /\ 3 \in DOMAIN Table(m.type)
          /\ name(1) = "check_state" /\ Table(m.type)[1].type = "enum"
          /\ name(2) = "node_id" /\ Table(m.type)[2].type = "int32"
          /\ name(3) = "cached_payload" /\ Table(m.type)[3].type = "bytes"
      BY <1>7 DEF Table, CheckCacheResponse_table, Field
    <2> DEFINE two == F(1) \o F(2)
               body == two \o F(3)
    <2>2. /\ F(1) = VarintItem(m, "check_state", 1)
          /\ F(2) = VarintItem(m, "node_id", 2)
          /\ F(3) = BytesItem(m, "cached_payload", 3)
      BY <2>1 DEF F, FieldItem, VarintItem, BytesItem, WireType
    <2>3. Serialize(m) = body \o m.unknown
      BY <1>7, <2>2 DEF Serialize, CheckCacheResponse_Serialize
    <2>4. /\ F(1) \in Seq(Item) /\ F(2) \in Seq(Item) /\ F(3) \in Seq(Item)
          /\ two \in Seq(Item) /\ body \in Seq(Item)
      BY <1>0, <2>1, ConcatProperties
    <2>5. ASSUME NEW b, Shape(b), b.type = m.type
          PROVE  Overlay(MergeFromString(b, body), b, m, Names(m.type))
      <3>1. Overlay(MergeFromString(b, F(1)), b, m, {"check_state"})
        BY <1>1, <2>1, <2>5
      <3>2. Overlay(MergeFromString(b, two), b, m, {"check_state"} \cup {"node_id"})
        BY <1>2, <2>1, <2>4, <2>5, <3>1
      <3> HIDE DEF two
      <3>3. Overlay(MergeFromString(b, two \o F(3)), b, m,
                    ({"check_state"} \cup {"node_id"}) \cup {"cached_payload"})
        BY <1>2, <2>1, <2>4, <2>5, <3>2
      <3>4. ({"check_state"} \cup {"node_id"}) \cup {"cached_payload"} = Names(m.type)
        BY <1>7, NamesOf
      <3> QED BY <3>3, <3>4
    <2>6. ByteSize(m) = WireSize(body) + WireSize(m.unknown)
      <3>1. WireSize(two) = WireSize(F(1)) + WireSize(F(2))
        BY <2>4, SizeOfBoth
      <3>2. WireSize(body) = WireSize(two) + WireSize(F(3))
        <4> HIDE DEF two
        <4> QED BY <2>4, SizeOfBoth
      <3>3. /\ WireSize(F(1)) = IntSize(m, "check_state") /\ WireSize(F(1)) \in Nat
            /\ WireSize(F(2)) = IntSize(m, "node_id") /\ WireSize(F(2)) \in Nat
            /\ WireSize(F(3)) = BytesSize(m, "cached_payload") /\ WireSize(F(3)) \in Nat
        BY <2>1, FieldSize DEF F
      <3>4. ByteSize(m) = BytesSize(m, "cached_payload") + IntSize(m, "check_state")
                            + IntSize(m, "node_id") + WireSize(m.unknown)
        BY <1>7 DEF ByteSize, CheckCacheResponse_ByteSize
      <3> HIDE DEF body, two
      <3> QED BY <1>3, <3>1, <3>2, <3>3, <3>4
    <2> HIDE DEF body
    <2> QED BY <2>3, <2>4, <2>5, <2>6
  <1> QED BY <1>4, <1>5, <1>6, <1>7 DEF Shape, Types

(* Items that the receiver does not know only join the unknown ones.       *)
LEMMA ReadForeign ==
  ASSUME NEW m, Shape(m), m.unknown \in Seq(Item), NEW wire \in Seq(Foreign(m.type))
  PROVE  /\ MergeFromString(m, wire).type = m.type
         /\ MergeFromString(m, wire).val = m.val
         /\ MergeFromString(m, wire).unknown = m.unknown \o wire
  <1> DEFINE N(w) == MergeFromString(m, w)
             T == {w \in Seq(Foreign(m.type)) :
                     /\ N(w).type = m.type /\ N(w).val = m.val
                     /\ N(w).unknown = m.unknown \o w}
  <1>0. Foreign(m.type) \subseteq Item
    BY DEF Foreign
  <1>1. << >> \in T
    <2>1. N(<< >>) = m /\ m.unknown \o << >> = m.unknown
      BY ReadNothing, ConcatEmptySeq
    <2> QED BY <2>1, EmptySeq
  <1>2. ASSUME NEW w \in Seq(Foreign(m.type)), NEW x \in Foreign(m.type), w \in T
        PROVE  Append(w, x) \in T
    <2> DEFINE n == N(w)
    <2>1. N(Append(w, x)) = Read(n, x)
      BY ReadOneMore
    <2>2. Shape(n) /\ n.type = m.type /\ n.val = m.val /\ n.unknown = m.unknown \o w
      BY <1>2, ParseShape
    <2> HIDE DEF n
    <2>3. ~Known(n.type, x)
      BY <2>2 DEF Foreign
    <2>4. /\ Read(n, x).type = n.type /\ Read(n, x).val = n.val
          /\ Read(n, x).unknown = Append(n.unknown, x)
      BY <2>2, <2>3 DEF Shape, Only, Read
    <2>5. w \in Seq(Item) /\ x \in Item
      BY <1>0, SeqMonotonic
    <2>6. Append(m.unknown \o w, x) = m.unknown \o Append(w, x)
      <3> DEFINE u == m.unknown
      <3>1. u \in Seq(Item)
        OBVIOUS
      <3> HIDE DEF u
      <3>2. Append(u \o w, x) = u \o Append(w, x)
        BY <2>5, <3>1, ConcatProperties
      <3> QED BY <3>2 DEF u
    <2>7. Append(w, x) \in Seq(Foreign(m.type))
      OBVIOUS
    <2> QED BY <2>1, <2>2, <2>4, <2>6, <2>7
  <1> HIDE DEF T
  <1>3. wire \in T
    BY <1>1, <1>2, SeqInd
  <1> QED BY <1>3 DEF T

(* What the receiver has of a message, whatever it had before.             *)
LEMMA ReadBack ==
  ASSUME NEW b, Shape(b), b.unknown \in Seq(Item),
         NEW m, Shape(m), Typed(m), m.type = b.type
  PROVE  /\ Serialize(m) \in Seq(Item)
         /\ Shape(MergeFromString(b, Serialize(m)))
         /\ MergeFromString(b, Serialize(m)).type = b.type
         /\ MergeFromString(b, Serialize(m)).val
              = [f \in Names(b.type) |-> IF Sent(m, f) THEN m.val[f] ELSE b.val[f]]
         /\ MergeFromString(b, Serialize(m)).unknown = b.unknown \o m.unknown
  <1>1. PICK body \in Seq(Item) :
          /\ Serialize(m) = body \o m.unknown
          /\ Overlay(MergeFromString(b, body), b, m, Names(m.type))
    BY BodyOf
  <1>2. m.unknown \in Seq(Foreign(b.type)) /\ m.unknown \in Seq(Item)
    <2>1. Foreign(m.type) \subseteq Item
      BY DEF Foreign
    <2> QED BY <2>1, SeqMonotonic DEF Typed
  <1>3. Serialize(m) \in Seq(Item)
    BY <1>1, <1>2, ConcatProperties
  <1> DEFINE n == MergeFromString(b, body)
             r == MergeFromString(n, m.unknown)
  <1>4. MergeFromString(b, Serialize(m)) = r
    BY <1>1, <1>2, ReadBoth
  <1>5. /\ Shape(n) /\ n.type = b.type /\ n.unknown = b.unknown
        /\ \A f \in Names(b.type) :
             n.val[f] = IF Sent(m, f) THEN m.val[f] ELSE b.val[f]
    BY <1>1 DEF Overlay
  <1>6. n.val = [f \in Names(b.type) |-> IF Sent(m, f) THEN m.val[f] ELSE b.val[f]]
    BY <1>5 DEF Shape
  <1> HIDE DEF n
  <1>7. r.type = n.type /\ r.val = n.val /\ r.unknown = n.unknown \o m.unknown
    BY <1>2, <1>5, ReadForeign
  <1>8. Shape(r)
    BY <1>2, <1>5, ParseShape
  <1> HIDE DEF r
  <1> QED BY <1>3, <1>4, <1>5, <1>6, <1>7, <1>8

(* A new message that reads what m sends is m, but for bits of defaults.   *)
LEMMA Received ==
  ASSUME NEW m, Shape(m), Typed(m)
  PROVE  LET n == ParseFromString(New(m.type), Serialize(m)) IN
         /\ Serialize(m) \in Seq(Item) /\ Shape(n) /\ n.type = m.type
         /\ n.val = m.val /\ n.unknown = m.unknown
  <1> DEFINE b == New(m.type)
             n == MergeFromString(b, Serialize(m))
  <1>1. m.type \in Types
    BY DEF Shape
  <1>2. /\ Shape(b) /\ b.type = m.type /\ b.val = Zeros(m.type) /\ b.unknown = << >>
    BY <1>1, NewShape DEF Only
  <1>3. Clear(b) = b
    BY <1>2, ClearIsNew
  <1> HIDE DEF b
  <1>4. b.unknown \in Seq(Item)
    BY <1>2, EmptySeq
  <1>5. /\ Serialize(m) \in Seq(Item) /\ Shape(n) /\ n.type = b.type
        /\ n.val = [f \in Names(b.type) |-> IF Sent(m, f) THEN m.val[f] ELSE b.val[f]]
        /\ n.unknown = b.unknown \o m.unknown
    BY <1>2, <1>4, ReadBack
  <1> HIDE DEF n
  <1>6. [f \in Names(b.type) |-> IF Sent(m, f) THEN m.val[f] ELSE b.val[f]]
          = [f \in Names(m.type) |-> m.val[f]]
    <2>1. \A f \in Names(m.type) : ~Sent(m, f) => m.val[f] = 0 /\ b.val[f] = 0
      BY <1>2 DEF Sent, Shape, Zeros
    <2> QED BY <1>2, <2>1
  <1>7. n.val = m.val
    BY <1>5, <1>6 DEF Shape
  <1>8. n.unknown = m.unknown
    <2>1. << >> \o m.unknown = m.unknown
      BY ConcatEmptySeq DEF Typed
    <2> QED BY <1>2, <1>5, <2>1
  <1>9. n.type = m.type
    BY <1>2, <1>5
  <1>10. ParseFromString(b, Serialize(m)) = n
    BY <1>3 DEF ParseFromString, n
  <1> QED BY <1>5, <1>7, <1>8, <1>9, <1>10 DEF b

-----------------------------------------------------------------------------
(* Sender and receiver.                                                    *)

(* Whatever a message went through, the receiver of what it sends reads    *)
(* its fields, -1 and defaults among them, and its unknown items.          *)
THEOREM ReceiverReads == Spec => []RoundTrip
  <1>1. Inv => RoundTrip
    BY Received DEF Inv, Shaped, RoundTrip
  <1> QED BY <1>1, Invariance, PTL

(* The bytes of a message, of any values and with any unknown items, are   *)
(* as many as its size says: the stream never runs out of room.            *)
THEOREM SizesAgree == Spec => []SizeAgrees
  <1>1. ASSUME NEW m, Shape(m), Typed(m)
        PROVE  WireSize(Serialize(m)) = ByteSize(m)
    <2>1. PICK body \in Seq(Item) :
            /\ Serialize(m) = body \o m.unknown
            /\ ByteSize(m) = WireSize(body) + WireSize(m.unknown)
      BY <1>1, BodyOf
    <2>2. m.unknown \in Seq(Item)
      <3>1. Foreign(m.type) \subseteq Item
        BY DEF Foreign
      <3> QED BY <1>1, <3>1, SeqMonotonic DEF Typed
    <2> QED BY <2>1, <2>2, SizeOfBoth
  <1>2. Inv => SizeAgrees
    BY <1>1 DEF Inv, Shaped, SizeAgrees
  <1> QED BY <1>2, Invariance, PTL

(* Whatever two messages hold, merging the one into the other gives the    *)
(* fields and the unknown items that parsing the bytes of both would.      *)
THEOREM MergingIsConcatenation == Spec => []MergeIsConcatenation
  <1>1. ASSUME NEW m, NEW from, Shape(m), Typed(m), Shape(from), Typed(from),
               from.type = m.type
        PROVE  LET n == ParseFromString(New(m.type), Serialize(m) \o Serialize(from))
               IN Merge(m, from).val = n.val /\ Merge(m, from).unknown = n.unknown
    <2> DEFINE b == New(m.type)
               s == Serialize(m)
               t == Serialize(from)
               one == MergeFromString(b, s)
               two == MergeFromString(one, t)
    <2>1. Clear(b) = b
      <3>1. Shape(b) /\ b.type = m.type
        BY <1>1, NewShape DEF Shape
      <3> QED BY <3>1, ClearIsNew
    <2>2. /\ s \in Seq(Item) /\ Shape(one) /\ one.type = m.type
          /\ one.val = m.val /\ one.unknown = m.unknown
      BY <1>1, <2>1, Received DEF ParseFromString
    <2>3. one.unknown \in Seq(Item)
      <3>1. Foreign(m.type) \subseteq Item
        BY DEF Foreign
      <3> QED BY <1>1, <2>2, <3>1, SeqMonotonic DEF Typed
    <2>4. /\ t \in Seq(Item)
          /\ two.val = [f \in Names(m.type) |-> IF Sent(from, f) THEN from.val[f]
                                                ELSE m.val[f]]
          /\ two.unknown = m.unknown \o from.unknown
      <3> HIDE DEF one
      <3>1. /\ t \in Seq(Item)
            /\ two.val = [f \in Names(one.type) |-> IF Sent(from, f) THEN from.val[f]
                                                    ELSE one.val[f]]
            /\ two.unknown = one.unknown \o from.unknown
        <4>1. /\ Shape(one) /\ one.unknown \in Seq(Item)
              /\ Shape(from) /\ Typed(from) /\ from.type = one.type
          BY <1>1, <2>2, <2>3
        <4> QED BY ONLY <4>1, ReadBack
      <3> HIDE DEF two
      <3> QED BY <2>2, <3>1
    <2>5. ParseFromString(b, s \o t) = two
      <3> HIDE DEF b, s, t
      <3> QED BY <2>1, <2>2, <2>4, ReadBoth DEF ParseFromString
    <2> DEFINE n == Merge(m, from)
    <2>6. /\ Shape(n) /\ n.type = m.type /\ n.unknown = m.unknown \o from.unknown
          /\ \A f \in Names(m.type) :
               n.val[f] = IF Sent(from, f) THEN from.val[f] ELSE m.val[f]
      BY <1>1, MergeIs, MergeShape
    <2> HIDE DEF b, s, t, one, two, n
    <2>7. n.val = two.val
      <3>1. n.val = [f \in Names(m.type) |-> n.val[f]]
        BY <2>6 DEF Shape
      <3>2. [f \in Names(m.type) |-> n.val[f]]
              = [f \in Names(m.type) |-> IF Sent(from, f) THEN from.val[f] ELSE m.val[f]]
        BY <2>6
      <3> QED BY <2>4, <3>1, <3>2
    <2> QED BY <2>4, <2>5, <2>6, <2>7 DEF b, s, t, n
  <1>2. Inv => MergeIsConcatenation
    BY <1>1 DEF Inv, Shaped, MergeIsConcatenation
  <1> QED BY <1>2, Invariance, PTL
=============================================================================
