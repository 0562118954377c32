----------------------------- MODULE MCPgOutput -----------------------------
(* Payloads for TLC: messages of every kind, and the same messages cut off,*)
(* continued, or with one byte replaced.                                   *)
EXTENDS PgOutput

Id == {<<0, 0, 0, 7>>}
Lsn1 == <<0, 0, 0, 0, 1, 2, 3, 4>>
Lsn2 == <<0, 0, 0, 0, 1, 2, 3, 9>>
Time == <<255, 0, 0, 0, 0, 0, 0, 5>>

SomeCells == {[tag |-> Ascii.n, text |-> <<>>], [tag |-> Ascii.u, text |-> <<>>],
          [tag |-> Ascii.t, text |-> <<>>], [tag |-> Ascii.t, text |-> <<97, 110>>]}
SomeTuples == {<<>>} \cup {<<c>> : c \in SomeCells} \cup {<<c, d>> : c \in SomeCells, d \in SomeCells}
FewTuples == {<<>>, << [tag |-> Ascii.t, text |-> <<78>>], [tag |-> Ascii.n, text |-> <<>>] >>}

SomeColumn(key) == [is_key |-> key, name |-> <<97>>, type_oid |-> <<0, 0, 0, 25>>,
                atttypmod |-> <<255, 255, 255, 255>>]

SomeMessages ==
    {[kind |-> Ascii.B, final_lsn |-> Lsn1, commit_timestamp |-> Time, xid |-> <<0, 0, 2, 1>>],
     [kind |-> Ascii.C, flags |-> 0, commit_lsn |-> Lsn1, end_lsn |-> Lsn2,
      commit_timestamp |-> Time]}
    \cup [kind : {Ascii.R}, id : Id, namespace : {<<>>, <<112>>}, name : {<<116>>},
          replica_identity : {100},
          columns : {<<>>, <<SomeColumn(TRUE)>>, <<SomeColumn(TRUE), SomeColumn(FALSE)>>}]
    \cup [kind : {Ascii.I}, relation_id : Id, tag : {Ascii.N}, old : {<<>>}, new : SomeTuples]
    \cup [kind : {Ascii.U}, relation_id : Id, tag : {Ascii.N}, old : {<<>>}, new : FewTuples]
    \cup [kind : {Ascii.U}, relation_id : Id, tag : {Ascii.K, Ascii.O}, old : FewTuples,
          new : FewTuples]
    \cup [kind : {Ascii.D}, relation_id : Id, tag : {Ascii.K, Ascii.O}, old : SomeTuples,
          new : {<<>>}]
    \cup [kind : {Ascii.T}, relation_ids : {<<>>, << <<0, 0, 0, 7>> >>,
                                          << <<0, 0, 0, 7>>, <<0, 0, 0, 8>> >>}]

Whole == {Encoded(m) : m \in SomeMessages}

\* Bytes that mean something somewhere: small counts, tags, signs, not UTF-8.
Telling == {0, 1, 2, 3, 127, 128, 255, Ascii.N, Ascii.O, Ascii.K, Ascii.n, Ascii.u,
            Ascii.t, Ascii.b, Ascii.T}

CutOff == UNION {Prefixes(p) \ {p} : p \in Whole}
Continued == {Append(p, b) : p \in Whole, b \in {0, Ascii.N}}
Flipped == UNION {{[p EXCEPT ![i] = b] : i \in DOMAIN p, b \in Telling} : p \in Whole}

\* A TRUNCATE that claims as many relations as its count can say.
Greedy == {<<Ascii.T, 127, 255, 255, 255, 0, 0, 0, 0, 7>>}

SomePayloads == Whole \cup CutOff \cup Continued \cup Flipped \cup Greedy
=============================================================================
