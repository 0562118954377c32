------------------------------ MODULE PgOutput ------------------------------
(***************************************************************************)
(* The decoder of one pgoutput message (src/postgres/pgoutput.rs): a       *)
(* cursor over the payload with a length check on every read, one action   *)
(* per loop iteration or group of fields that is read at fixed distances.  *)
(*                                                                         *)
(* Bytes, field widths and tags are the real ones.  Identifiers, positions *)
(* and timestamps are only moved by the decoder and stay the bytes they    *)
(* are; counts and lengths are the numbers the bytes stand for.  Text is   *)
(* ASCII, and a byte from 128 on stands for invalid UTF-8.                 *)
(***************************************************************************)
EXTENDS Integers, SequencesExt

CONSTANTS
    Payloads,  \* what may arrive in a frame
    Messages   \* what the server may have written

Byte == 0..255

Ascii == [B |-> 66, C |-> 67, R |-> 82, I |-> 73, U |-> 85, D |-> 68, T |-> 84,
          N |-> 78, O |-> 79, K |-> 75, n |-> 110, u |-> 117, t |-> 116, b |-> 98]

\* The messages: what PgOutputMessage holds, each integer as its bytes.  A tag
\* of a row message says which tuples it has.
Bytes(n) == [1..n -> Byte]
Letters == 1..127
MaxInt16 == 32767
MaxInt32 == 2147483647

Plain == 0..127
Text == {s \in Seq(Plain) : Len(s) <= MaxInt32}
Cell == [tag : {Ascii.n, Ascii.u}, text : {<<>>}] \cup [tag : {Ascii.t}, text : Text]
Tuple == {vs \in Seq(Cell) : Len(vs) <= MaxInt16}
Column == [is_key : BOOLEAN, name : Seq(Letters), type_oid : Bytes(4), atttypmod : Bytes(4)]
Columns == {cs \in Seq(Column) : Len(cs) <= MaxInt16}

Begins == [kind : {Ascii.B}, final_lsn : Bytes(8), commit_timestamp : Bytes(8), xid : Bytes(4)]
Commits == [kind : {Ascii.C}, flags : Byte, commit_lsn : Bytes(8), end_lsn : Bytes(8),
            commit_timestamp : Bytes(8)]
Relations == [kind : {Ascii.R}, id : Bytes(4), namespace : Seq(Letters), name : Seq(Letters),
              replica_identity : Byte, columns : Columns]
Rows(kinds, tags, olds, news) ==
    [kind : kinds, relation_id : Bytes(4), tag : tags, old : olds, new : news]
Truncates == [kind : {Ascii.T},
              relation_ids : {ids \in Seq(Bytes(4)) : Len(ids) <= MaxInt32}]

Message ==
    Begins \cup Commits \cup Relations \cup Truncates
    \cup Rows({Ascii.I, Ascii.U}, {Ascii.N}, {<<>>}, Tuple)
    \cup Rows({Ascii.U}, {Ascii.O, Ascii.K}, Tuple, Tuple)
    \cup Rows({Ascii.D}, {Ascii.O, Ascii.K}, Tuple, {<<>>})

ASSUME PayloadsAssumption == Payloads \subseteq Seq(Byte)
ASSUME MessagesAssumption == Messages \subseteq Message

VARIABLES
    payload,   \* Reader.buf
    at,        \* Reader.pos
    todo,      \* what is left to read: pairs <<part, of what>>
    left,      \* iterations left of the loop at the head of todo
    msg,       \* the message so far
    result,    \* "reading", "ok", "decode" or "unsupported"
    \* history, for the properties
    reserved,  \* capacity asked for ahead of the elements
    ignored,   \* positions of bytes whose value the message does not keep
    reads      \* steps taken

vars == <<payload, at, todo, left, msg, result, reserved, ignored, reads>>

Supported == {Ascii.B, Ascii.C, Ascii.R, Ascii.I, Ascii.U, Ascii.D, Ascii.T}

-----------------------------------------------------------------------------
(* Reader.                                                                 *)

\* take: n bytes from the k-th byte behind the cursor on are there, and are.
Has(n) == at + n <= Len(payload)
Take(k, n) == SubSeq(payload, at + k + 1, at + k + n)
U8(k) == payload[at + k + 1]

Signed(high) == IF high >= 128 THEN high - 256 ELSE high
I16(k) == Signed(U8(k)) * 256 + U8(k + 1)
I32(k) == ((Signed(U8(k)) * 256 + U8(k + 1)) * 256 + U8(k + 2)) * 256 + U8(k + 3)

Utf8(s) == \A i \in DOMAIN s : s[i] < 128

\* cstr, k bytes behind the cursor: there is one if a terminator follows, and
\* it ends before the first one.
Terminators(k) == {i \in (at + k + 1)..Len(payload) : payload[i] = 0}
CstrLen(k) == Min(Terminators(k)) - (at + k + 1)
Cstr(k) == Take(k, CstrLen(k))
IsCstr(k) == Terminators(k) # {} /\ Utf8(Cstr(k))

\* Every error but an unknown kind is PgcdcError::Decode.
Refuse ==
    /\ result' = "decode"
    /\ UNCHANGED <<payload, at, todo, left, msg, reserved, ignored>>

\* n bytes are read and the message is m; more replaces the head of todo.
Read(n, m, more) ==
    /\ at' = at + n /\ msg' = m
    /\ todo' = more \o Tail(todo)
    /\ UNCHANGED <<payload, result>>

Keep == UNCHANGED <<left, reserved, ignored>>

Doing(part) == result = "reading" /\ todo # <<>> /\ todo[1][1] = part /\ reads' = reads + 1

-----------------------------------------------------------------------------
(* decode.                                                                 *)

Init ==
    /\ payload \in Payloads
    /\ at = 0 /\ todo = << <<"kind", "">> >> /\ left = 0 /\ msg = <<>>
    /\ result = "reading"
    /\ reserved = 0 /\ ignored = {} /\ reads = 0

\* The kind byte decides what follows.
Body(kind) ==
    CASE kind = Ascii.B -> "begin"    [] kind = Ascii.C -> "commit"
      [] kind = Ascii.R -> "relation" [] kind = Ascii.T -> "truncate"
      [] OTHER -> "row"

ReadKind ==
    /\ Doing("kind")
    /\ \/ ~Has(1) /\ Refuse
       \/ Has(1) /\ U8(0) \notin Supported
          /\ result' = "unsupported"
          /\ UNCHANGED <<payload, at, todo, left, msg, reserved, ignored>>
       \/ Has(1) /\ U8(0) \in Supported
          /\ Read(1, [kind |-> U8(0)], << <<Body(U8(0)), "">> >>) /\ Keep

ReadBegin ==
    /\ Doing("begin")
    /\ \/ ~Has(20) /\ Refuse
       \/ Has(20)
          /\ Read(20, [kind |-> msg.kind, final_lsn |-> Take(0, 8),
                       commit_timestamp |-> Take(8, 8), xid |-> Take(16, 4)], <<>>)
          /\ Keep

ReadCommit ==
    /\ Doing("commit")
    /\ \/ ~Has(25) /\ Refuse
       \/ Has(25)
          /\ Read(25, [kind |-> msg.kind, flags |-> U8(0), commit_lsn |-> Take(1, 8),
                       end_lsn |-> Take(9, 8), commit_timestamp |-> Take(17, 8)], <<>>)
          /\ Keep

\* 'R' up to its column count: two strings one behind the other.
HeaderLen == 4 + CstrLen(4) + 1 + CstrLen(4 + CstrLen(4) + 1) + 1
HeaderIsThere ==
    /\ Has(4) /\ IsCstr(4) /\ IsCstr(4 + CstrLen(4) + 1)
    /\ Has(HeaderLen + 3) /\ I16(HeaderLen + 1) >= 0

RelationRead ==
    [kind |-> msg.kind, id |-> Take(0, 4), namespace |-> Cstr(4),
     name |-> Cstr(4 + CstrLen(4) + 1), replica_identity |-> U8(HeaderLen), columns |-> <<>>]

ReadRelation ==
    /\ Doing("relation")
    /\ \/ ~HeaderIsThere /\ Refuse
       \/ /\ HeaderIsThere
          /\ left' = I16(HeaderLen + 1)
          /\ reserved' = reserved + left'
          /\ Read(HeaderLen + 3, RelationRead,
                  IF left' = 0 THEN <<>> ELSE << <<"column", "">> >>)
          /\ UNCHANGED ignored

ColumnLen == 1 + CstrLen(1) + 1 + 8
ColumnIsThere == Has(1) /\ IsCstr(1) /\ Has(ColumnLen)
ColumnRead ==
    [is_key |-> U8(0) = 1, name |-> Cstr(1), type_oid |-> Take(1 + CstrLen(1) + 1, 4),
     atttypmod |-> Take(1 + CstrLen(1) + 5, 4)]

ReadColumn ==
    /\ Doing("column")
    /\ \/ ~ColumnIsThere /\ Refuse
       \/ /\ ColumnIsThere
          /\ left' = left - 1
          /\ ignored' = ignored \cup {at + 1}
          /\ Read(ColumnLen, [msg EXCEPT !.columns = Append(@, ColumnRead)],
                  IF left' = 0 THEN <<>> ELSE << todo[1] >>)
          /\ UNCHANGED reserved

-----------------------------------------------------------------------------
(* Row messages.                                                           *)

\* The tags a kind of message admits behind the relation id.
Tags(kind) ==
    CASE kind = Ascii.I -> {Ascii.N}
      [] kind = Ascii.U -> {Ascii.N, Ascii.O, Ascii.K}
      [] kind = Ascii.D -> {Ascii.O, Ascii.K}

Old == << <<"count", "old">> >>
New == << <<"count", "new">> >>

Tuples(kind, tag) ==
    IF tag = Ascii.N THEN New
      ELSE IF kind = Ascii.D THEN Old
      ELSE Old \o << <<"tag", "">> >> \o New

ReadRow ==
    /\ Doing("row")
    /\ \/ ~(Has(5) /\ U8(4) \in Tags(msg.kind)) /\ Refuse
       \/ /\ Has(5) /\ U8(4) \in Tags(msg.kind)
          /\ Read(5, [kind |-> msg.kind, relation_id |-> Take(0, 4), tag |-> U8(4),
                      old |-> <<>>, new |-> <<>>], Tuples(msg.kind, U8(4)))
          /\ Keep

\* The new tuple of an UPDATE behind its old one has a tag of its own.
ReadTag ==
    /\ Doing("tag")
    /\ \/ ~(Has(1) /\ U8(0) = Ascii.N) /\ Refuse
       \/ Has(1) /\ U8(0) = Ascii.N /\ Read(1, msg, <<>>) /\ Keep

\* Variant: the sign of the count is not checked.
ReadCountUnchecked ==
    /\ Doing("count")
    /\ \/ ~Has(2) /\ Refuse
       \/ /\ Has(2)
          /\ left' = I16(0)
          /\ reserved' = reserved + left'
          /\ Read(2, msg, IF left' = 0 THEN <<>> ELSE << <<"value", todo[1][2]>> >>)
          /\ UNCHANGED ignored

\* read_tuple up to its loop.
ReadCount ==
    /\ Doing("count")
    /\ \/ ~(Has(2) /\ I16(0) >= 0) /\ Refuse
       \/ /\ Has(2) /\ I16(0) >= 0
          /\ left' = I16(0)
          /\ reserved' = reserved + left'
          /\ Read(2, msg, IF left' = 0 THEN <<>> ELSE << <<"value", todo[1][2]>> >>)
          /\ UNCHANGED ignored

\* Variant: a text of no bytes is refused.
ValueIsThereNotEmpty ==
    /\ Has(1) /\ U8(0) \in {Ascii.n, Ascii.u, Ascii.t}
    /\ U8(0) = Ascii.t => /\ Has(5) /\ I32(1) > 0
                          /\ I32(1) <= Len(payload) - at - 5
                          /\ Utf8(Take(5, I32(1)))

\* One column of a tuple: 'n' and 'u' have no length; 'b' is refused like an
\* unknown tag.
ValueLen == IF U8(0) = Ascii.t THEN 5 + I32(1) ELSE 1
ValueIsThere ==
    /\ Has(1) /\ U8(0) \in {Ascii.n, Ascii.u, Ascii.t}
    /\ U8(0) = Ascii.t => /\ Has(5) /\ I32(1) >= 0
                          /\ I32(1) <= Len(payload) - at - 5
                          /\ Utf8(Take(5, I32(1)))
ValueRead == [tag |-> U8(0), text |-> IF U8(0) = Ascii.t THEN Take(5, I32(1)) ELSE <<>>]

ReadValue ==
    /\ Doing("value")
    /\ \/ ~ValueIsThere /\ Refuse
       \/ /\ ValueIsThere
          /\ left' = left - 1
          /\ Read(ValueLen, [msg EXCEPT ![todo[1][2]] = Append(@, ValueRead)],
                  IF left' = 0 THEN <<>> ELSE << todo[1] >>)
          /\ UNCHANGED <<reserved, ignored>>

-----------------------------------------------------------------------------
(* TRUNCATE: its 32-bit count is not trusted with an allocation.           *)

\* Variant: with_capacity(nrelations), as for every other count.
ReadTruncateReserving ==
    /\ Doing("truncate")
    /\ \/ ~(Has(5) /\ I32(0) >= 0) /\ Refuse
       \/ /\ Has(5) /\ I32(0) >= 0
          /\ left' = I32(0) /\ reserved' = I32(0) /\ ignored' = {at + 5}
          /\ Read(5, [kind |-> msg.kind, relation_ids |-> <<>>],
                  IF left' = 0 THEN <<>> ELSE << <<"relation_id", "">> >>)

ReadTruncate ==
    /\ Doing("truncate")
    /\ \/ ~(Has(5) /\ I32(0) >= 0) /\ Refuse
       \/ /\ Has(5) /\ I32(0) >= 0
          /\ left' = I32(0)
          /\ ignored' = {at + 5}
          /\ Read(5, [kind |-> msg.kind, relation_ids |-> <<>>],
                  IF left' = 0 THEN <<>> ELSE << <<"relation_id", "">> >>)
          /\ UNCHANGED reserved

\* Variant: the loop runs to the count and collects what there is.
ReadRelationIdLenient ==
    /\ Doing("relation_id")
    /\ left' = left - 1
    /\ IF Has(4)
         THEN Read(4, [msg EXCEPT !.relation_ids = Append(@, Take(0, 4))],
                   IF left' = 0 THEN <<>> ELSE << todo[1] >>)
         ELSE Read(0, msg, IF left' = 0 THEN <<>> ELSE << todo[1] >>)
    /\ UNCHANGED <<reserved, ignored>>

ReadRelationId ==
    /\ Doing("relation_id")
    /\ \/ ~Has(4) /\ Refuse
       \/ /\ Has(4)
          /\ left' = left - 1
          /\ Read(4, [msg EXCEPT !.relation_ids = Append(@, Take(0, 4))],
                  IF left' = 0 THEN <<>> ELSE << todo[1] >>)
          /\ UNCHANGED <<reserved, ignored>>

\* Variant: bytes behind the message are left alone.
FinishAnywhere ==
    /\ result = "reading" /\ todo = <<>> /\ reads' = reads + 1
    /\ result' = "ok"
    /\ UNCHANGED <<payload, at, todo, left, msg, reserved, ignored>>

\* finish: nothing may follow the message.
Finish ==
    /\ result = "reading" /\ todo = <<>> /\ reads' = reads + 1
    /\ result' = IF at = Len(payload) THEN "ok" ELSE "decode"
    /\ UNCHANGED <<payload, at, todo, left, msg, reserved, ignored>>

Next ==
    \/ ReadKind \/ ReadBegin \/ ReadCommit \/ ReadRelation \/ ReadColumn
    \/ ReadRow \/ ReadTag \/ ReadCount \/ ReadValue
    \/ ReadTruncate \/ ReadRelationId \/ Finish

Spec == Init /\ [][Next]_vars

-----------------------------------------------------------------------------
(* What the server writes: the reference the decoder is held against.      *)

Bytes16(n) == <<n \div 256, n % 256>>
Bytes32(n) == Bytes16(n \div 65536) \o Bytes16(n % 65536)

EncodedValue(v) == <<v.tag>> \o (IF v.tag = Ascii.t THEN Bytes32(Len(v.text)) \o v.text ELSE <<>>)
EncodedColumn(c) == <<IF c.is_key THEN 1 ELSE 0>> \o c.name \o <<0>> \o c.type_oid \o c.atttypmod
EncodedColumns(cs) == FlattenSeq([i \in DOMAIN cs |-> EncodedColumn(cs[i])])

EncodedValues(vs) == FlattenSeq([i \in DOMAIN vs |-> EncodedValue(vs[i])])

\* A tuple that says it has n values.
EncodedTuple(n, vs) == Bytes16(n) \o EncodedValues(vs)

\* What is in front of the lists of a message.
RelationHead(m, n) ==
    <<m.kind>> \o m.id \o m.namespace \o <<0>> \o m.name \o <<0>> \o <<m.replica_identity>>
    \o Bytes16(n)
TruncateHead(m, n) == <<m.kind>> \o Bytes32(n) \o <<0>>
RowHead(m) == <<m.kind>> \o m.relation_id \o <<m.tag>>
OldPart(m) ==
    IF m.tag = Ascii.N THEN RowHead(m) ELSE RowHead(m) \o EncodedTuple(Len(m.old), m.old)
NewHead(m) ==
    IF m.kind = Ascii.U /\ m.tag # Ascii.N THEN OldPart(m) \o <<Ascii.N>> ELSE OldPart(m)

EncodedBegin(m) == <<m.kind>> \o m.final_lsn \o m.commit_timestamp \o m.xid
EncodedCommit(m) ==
    <<m.kind>> \o <<m.flags>> \o m.commit_lsn \o m.end_lsn \o m.commit_timestamp
EncodedRelation(m) == RelationHead(m, Len(m.columns)) \o EncodedColumns(m.columns)
EncodedTruncate(m) == TruncateHead(m, Len(m.relation_ids)) \o FlattenSeq(m.relation_ids)
EncodedNew(m) == NewHead(m) \o EncodedTuple(Len(m.new), m.new)

Encoded(m) ==
    CASE m.kind = Ascii.B -> EncodedBegin(m)
      [] m.kind = Ascii.C -> EncodedCommit(m)
      [] m.kind = Ascii.R -> EncodedRelation(m)
      [] m.kind = Ascii.T -> EncodedTruncate(m)
      [] m.kind = Ascii.D -> OldPart(m)
      [] OTHER -> EncodedNew(m)

-----------------------------------------------------------------------------
(* Properties.                                                             *)

\* The cursor never leaves the payload, loops never run backwards, and what is
\* accepted is a message.
TypeOK ==
    /\ payload \in Seq(Byte)
    /\ at \in 0..Len(payload)
    /\ left \in Nat /\ reserved \in Nat /\ reads \in Nat
    /\ ignored \subseteq 1..Len(payload)
    /\ result \in {"reading", "ok", "decode", "unsupported"}
    /\ result = "ok" => msg \in Message

\* What is accepted is what was written: the message accounts for every byte,
\* but for the flags the decoder reads and drops (decode, finish).
AcceptedMeansExact ==
    result = "ok" =>
        /\ Len(Encoded(msg)) = Len(payload)
        /\ \A i \in DOMAIN payload : payload[i] # Encoded(msg)[i] => i \in ignored

\* What the server writes is accepted, and read as what it was (decode).
AcceptsEveryMessage ==
    \A m \in Messages : payload = Encoded(m) =>
        result \in {"reading", "ok"} /\ (result = "ok" => msg = m)

\* A count no message can hold asks for memory only if it has 16 bits, and a
\* message has at most two of those (the comment in decode at 'T').
MemoryFollowsTheBytes == reserved <= 2 * MaxInt16

\* No count makes the decoder work longer than the payload is: every step but
\* the last consumes a byte or ends it.
WorkFollowsTheBytes == reads <= at + 1
=============================================================================
