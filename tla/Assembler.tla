----------------------------- MODULE Assembler ------------------------------
(***************************************************************************)
(* From decoded pgoutput messages to events: the relation cache            *)
(* (src/schema.rs) and the transaction assembler (src/transaction.rs),     *)
(* between a walsender that sends each transaction again and again until   *)
(* the slot has passed it and a consumer that follows the published rules: *)
(* deduplicate by (lsn, event_index), identify rows by the old image where *)
(* there is one, keep the columns listed as unchanged, empty a truncated   *)
(* table.                                                                  *)
(*                                                                         *)
(* A table has a key column and one other column, which may be stored out  *)
(* of line and may be renamed.  The walsender decides what a transaction   *)
(* contains when it first gets there, which no receiver can tell from a    *)
(* transaction that committed long ago.                                    *)
(***************************************************************************)
EXTENDS Naturals, FiniteSets, SequencesExt

CONSTANTS
    Tables,       \* the published tables, identified by their oid
    Identity,     \* their replica identity: "default" or "full"
    Ids,          \* the values of the key
    Values,       \* the values of the other column
    MaxEvents,    \* --max-transaction-events
    MaxTx,        \* bound: transactions
    MaxChanges,   \* bound: row changes, in all of them together
    MaxFailures   \* bound: drops, restarts and malformed messages

Null == "null"            \* the tag 'n'
Unchanged == "unchanged"  \* the tag 'u'
Nothing == <<>>           \* Option::None; Some(x) is <<x>>

\* A value is told from a NULL and a marker by its tag.
ASSUME AssemblerAssumption ==
    /\ IsFiniteSet(Tables) /\ {Null, Unchanged} \cap (Ids \cup Values) = {}
    /\ Identity \in [Tables -> {"default", "full"}]
    /\ MaxEvents \in Nat \ {0}
    /\ MaxTx \in Nat \ {0} /\ MaxChanges \in Nat /\ MaxFailures \in Nat

VARIABLES
    \* the server
    history,   \* the transactions, in commit order
    db,        \* the tables: rows as a function from key to the other value
    column,    \* the present name of the other column of each table
    lsn,       \* the last WAL position used
    \* its walsender
    nth,       \* the transaction it streams, or streams next
    sent,      \* how many changes of it are sent
    midway,    \* BEGIN is sent and COMMIT is not
    announced, \* the column name in the last RELATION of each table, an option
    \* pgcdc
    cache,     \* RelationCache: the columns of the tables it knows, else Nothing
    open,      \* Assembler.open: the changes gathered so far, an option
    failure,   \* the error the process ended with, or "none"
    \* the consumer
    seen,      \* the events it has applied
    replica,   \* its copy of the tables
    emitted,   \* the last transaction that reached it
    \* the slot, and the bound
    confirmed, failures

serverVars == <<history, db, column, lsn>>
senderVars == <<nth, sent, midway, announced>>
consumerVars == <<seen, replica, emitted>>
vars == <<serverVars, senderVars, cache, open, failure, consumerVars, confirmed, failures>>

Empty == [t \in Tables |-> [i \in {} |-> Null]]
Cells == Values \cup {Null}

Init ==
    /\ history = <<>> /\ db = Empty /\ lsn = 0
    /\ column = [t \in Tables |-> "value"]
    /\ nth = 1 /\ sent = 0 /\ midway = FALSE
    /\ announced = [t \in Tables |-> Nothing]
    /\ cache = [t \in Tables |-> Nothing]
    /\ open = Nothing /\ failure = "none"
    /\ seen = {} /\ replica = Empty /\ emitted = 0
    /\ confirmed = 0 /\ failures = 0

-----------------------------------------------------------------------------
(* build_full_row and build_key_row: a row is a function from the column   *)
(* names that made it into the row to their values.                        *)

Row(columns, tuple, Wanted(_)) ==
    LET kept == {k \in DOMAIN columns : Wanted(tuple[k])}
    IN  [name \in {columns[k] : k \in kept} |->
            tuple[CHOOSE k \in kept : columns[k] = name]]

Arrived(cell) == cell # Unchanged
Text(cell) == cell \notin {Null, Unchanged}

FullRow(columns, tuple) == Row(columns, tuple, Arrived)
UnchangedColumns(columns, tuple) ==
    {columns[k] : k \in {j \in DOMAIN columns : tuple[j] = Unchanged}}

\* Variant: a NULL in a key tuple is taken for a value.
KeyRowWithNulls(columns, tuple) == Row(columns, tuple, Arrived)

KeyRow(columns, tuple) == Row(columns, tuple, Text)

\* The old image of a change, by the kind of its old tuple.
Before(columns, msg) ==
    CASE msg.old.kind = "full" -> FullRow(columns, msg.old.tuple)
      [] msg.old.kind = "key" -> KeyRow(columns, msg.old.tuple)
      [] msg.old.kind = "none" -> Nothing

-----------------------------------------------------------------------------
(* Assembler::handle.                                                      *)

\* What the open transaction has gathered.
Buffered == open[1]

RelationsOf(msg) == IF msg.kind = "truncate" THEN msg.tables ELSE <<msg.table>>

\* Variant: the limit is looked at once per message.
TooLargeByMessage(msg, k) == Len(Buffered) >= MaxEvents

\* Variant: one event too many.
TooLargeOffByOne(msg, k) == Len(Buffered) + k - 1 > MaxEvents

\* The limit, before the k-th event of a message is buffered.
TooLarge(msg, k) == Len(Buffered) + k - 1 >= MaxEvents

\* check_arity, the markers an INSERT and a full old tuple must not carry.
BadTuple(msg) ==
    LET columns == cache[msg.table]
    IN  CASE msg.kind = "insert" ->
               Len(msg.new) # Len(columns) \/ UnchangedColumns(columns, msg.new) # {}
          [] msg.kind \in {"update", "delete"} ->
               \/ /\ msg.old.kind # "none"
                  /\ \/ Len(msg.old.tuple) # Len(columns)
                     \/ /\ msg.old.kind = "full"
                        /\ UnchangedColumns(columns, msg.old.tuple) # {}
               \/ msg.kind = "update" /\ Len(msg.new) # Len(columns)
          [] OTHER -> FALSE

\* The error a row message ends in, in the order of the checks.
Refusal(msg) ==
    LET tables == RelationsOf(msg)
        troubled == {k \in DOMAIN tables : TooLarge(msg, k) \/ cache[tables[k]] = Nothing}
    IN  CASE open = Nothing -> "decode"
          [] open # Nothing /\ troubled # {} ->
               IF TooLarge(msg, Min(troubled)) THEN "transaction_too_large"
                                               ELSE "unknown_relation"
          [] open # Nothing /\ troubled = {} ->
               IF BadTuple(msg) THEN "decode" ELSE "none"

\* The row images of a change, under the columns of its table.
Images(columns, msg) ==
    [before |-> IF msg.kind \in {"update", "delete"} THEN Before(columns, msg) ELSE Nothing,
     beforeKind |-> IF msg.kind \in {"update", "delete"} THEN msg.old.kind ELSE "none",
     after |-> IF msg.kind \in {"insert", "update"} THEN FullRow(columns, msg.new)
                                                    ELSE Nothing,
     unchanged |-> IF msg.kind = "update" THEN UnchangedColumns(columns, msg.new) ELSE {}]

\* The PendingChanges a row message adds, one for every table it names.
Pending(msg, at) ==
    LET tables == RelationsOf(msg)
    IN  [k \in DOMAIN tables |->
            [table |-> tables[k], operation |-> msg.kind, lsn |-> at,
             images |-> Images(cache[tables[k]], msg)]]

\* Variant: every event is the first of its transaction.
WithoutEventIndex(changes) ==
    [k \in DOMAIN changes |-> [index |-> 0, change |-> changes[k], xid |-> nth]]

\* COMMIT numbers the events by their place in the buffer.
Numbered(changes) ==
    [k \in DOMAIN changes |-> [index |-> k - 1, change |-> changes[k], xid |-> nth]]

\* Variant: an entry that is there stays.
CachePutOnce(t, columns) == IF cache[t] = Nothing THEN [cache EXCEPT ![t] = columns]
                                                  ELSE cache

\* A repeated RELATION replaces the entry.
CachePut(t, columns) == [cache EXCEPT ![t] = columns]

\* Variant: a transaction without rows counts as none.
IsEmptyByLength == open = Nothing \/ Buffered = <<>>

IsEmpty == open = Nothing

-----------------------------------------------------------------------------
(* The consumer.                                                           *)

Key(e) == <<e.change.lsn, e.index>>

Without(rows, id) == [i \in DOMAIN rows \ {id} |-> rows[i]]
With(rows, id, value) == [i \in DOMAIN rows \cup {id} |-> IF i = id THEN value ELSE rows[i]]

\* The value of the column that is not the key in a row image.
OtherValue(row) == row[CHOOSE name \in DOMAIN row : name # "id"]

Applied(tables, e) ==
    LET t == e.change.table
        image == e.change.images
        rows == tables[t]
        id == IF image.beforeKind = "none" THEN image.after["id"] ELSE image.before["id"]
    IN  [tables EXCEPT ![t] =
           CASE e.change.operation = "insert" -> With(rows, id, OtherValue(image.after))
             [] e.change.operation = "update" ->
                  With(Without(rows, id), image.after["id"],
                       IF image.unchanged = {} THEN OtherValue(image.after) ELSE rows[id])
             [] e.change.operation = "delete" -> Without(rows, id)
             [] e.change.operation = "truncate" -> [i \in {} |-> Null]]

\* One event: skipped if its key has been seen.
Consume(state, e) ==
    IF \E old \in state.seen : Key(old) = Key(e)
      THEN state
      ELSE [seen |-> state.seen \cup {e}, replica |-> Applied(state.replica, e)]

\* Events one after the other.
Consumed(state, events) ==
    LET after[k \in 0..Len(events)] ==
          IF k = 0 THEN state ELSE Consume(after[k - 1], events[k])
    IN  after[Len(events)]

-----------------------------------------------------------------------------
(* The server writes.                                                      *)

Op(kind, t, id, newId, value, detoasted, tables) ==
    [kind |-> kind, table |-> t, id |-> id, newId |-> newId, value |-> value,
     sentWhole |-> detoasted, tables |-> tables]

\* The changes a table allows: an update that leaves the value alone sends it
\* or, when it is stored out of line, the marker.
Inserts(t) ==
    {Op("insert", t, i, i, v, TRUE, <<>>) : i \in Ids \ DOMAIN db[t], v \in Cells}
Updates(t) ==
    {Op("update", t, i, j, v, TRUE, <<>>) : i \in DOMAIN db[t], j \in Ids, v \in Cells}
    \cup {Op("update", t, i, j, db[t][i], FALSE, <<>>) :
            i \in {k \in DOMAIN db[t] : db[t][k] # Null}, j \in Ids}
Deletes(t) == {Op("delete", t, i, i, db[t][i], TRUE, <<>>) : i \in DOMAIN db[t]}
Truncates ==
    {Op("truncate", Nothing, Nothing, Nothing, Null, TRUE, SetToSeq(s)) :
        s \in (SUBSET Tables) \ {{}}}

Possible(op) == op.kind = "update" => op.newId = op.id \/ op.newId \notin DOMAIN db[op.table]

AfterOp(tables, op) ==
    LET rows == tables[op.table]
    IN  CASE op.kind = "insert" -> [tables EXCEPT ![op.table] = With(rows, op.id, op.value)]
          [] op.kind = "update" ->
               [tables EXCEPT ![op.table] = With(Without(rows, op.id), op.newId, op.value)]
          [] op.kind = "delete" -> [tables EXCEPT ![op.table] = Without(rows, op.id)]
          [] op.kind = "truncate" ->
               [t \in Tables |-> IF Contains(op.tables, t) THEN [i \in {} |-> Null]
                                                           ELSE tables[t]]

\* COPY packs several rows into one WAL record.
SharesRecord(op) ==
    /\ sent > 0 /\ op.kind = "insert"
    /\ LET last == history[nth].changes[sent]
       IN  last.op.kind = "insert" /\ last.op.table = op.table

Total == FoldLeft(LAMBDA n, tx : n + Len(tx.changes), 0, history)

AtFrontier == midway /\ ~history[nth].closed /\ sent = Len(history[nth].changes)

Write ==
    /\ failure = "none" /\ AtFrontier /\ Total < MaxChanges
    /\ \E op \in (UNION {Inserts(t) \cup Updates(t) \cup Deletes(t) : t \in Tables})
                 \cup Truncates :
       \E at \in {lsn + 1} \cup (IF SharesRecord(op) THEN {lsn} ELSE {}) :
        /\ Possible(op)
        /\ history' = [history EXCEPT ![nth].changes =
               Append(@, [op |-> op, lsn |-> at, column |-> column,
                          value |-> IF op.kind \in {"update", "delete"}
                                      THEN db[op.table][op.id] ELSE Null])]
        /\ db' = AfterOp(db, op) /\ lsn' = at
    /\ UNCHANGED <<column, senderVars, cache, open, failure, consumerVars, confirmed,
                   failures>>

\* ALTER TABLE ... RENAME COLUMN between two transactions.
Rename(t) ==
    /\ ~midway /\ nth = Len(history) + 1
    /\ column[t] = "value"
    /\ column' = [column EXCEPT ![t] = "renamed"]
    /\ UNCHANGED <<history, db, lsn, senderVars, cache, open, failure, consumerVars,
                   confirmed, failures>>

-----------------------------------------------------------------------------
(* The walsender sends the next message and pgcdc handles it.              *)

\* The process ends with an error.
Fail(error) ==
    /\ failure' = error
    /\ UNCHANGED <<serverVars, senderVars, cache, open, consumerVars, confirmed>>

Begin ==
    /\ failure = "none" /\ ~midway /\ nth <= MaxTx
    /\ history' = IF nth > Len(history)
                    THEN Append(history, [changes |-> <<>>, closed |-> FALSE, after |-> db])
                    ELSE history
    /\ midway' = TRUE /\ sent' = 0
    /\ open' = <<<<>>>>
    /\ UNCHANGED <<db, column, lsn, nth, announced, cache, failure, consumerVars,
                   confirmed, failures>>

\* The message of a change, and its tuples.
OldTuple(c) ==
    IF Identity[c.op.table] = "full"
      THEN [kind |-> "full", tuple |-> <<c.op.id, c.value>>]
      ELSE IF c.op.kind = "delete" \/ c.op.newId # c.op.id
             THEN [kind |-> "key", tuple |-> <<c.op.id, Null>>]
             ELSE [kind |-> "none", tuple |-> <<>>]

Message(c) ==
    CASE c.op.kind = "insert" ->
           [kind |-> "insert", table |-> c.op.table, new |-> <<c.op.newId, c.op.value>>]
      [] c.op.kind = "update" ->
           [kind |-> "update", table |-> c.op.table, old |-> OldTuple(c),
            new |-> <<c.op.newId, IF c.op.sentWhole THEN c.op.value ELSE Unchanged>>]
      [] c.op.kind = "delete" ->
           [kind |-> "delete", table |-> c.op.table, old |-> OldTuple(c)]
      [] c.op.kind = "truncate" -> [kind |-> "truncate", tables |-> c.op.tables]

NextChange == history[nth].changes[sent + 1]
Unannounced(c) ==
    {t \in ToSet(RelationsOf(Message(c))) : announced[t] # <<c.column[t]>>}

\* RELATION, before the first change of a table and after it was altered.
SendRelation ==
    /\ failure = "none" /\ midway /\ sent < Len(history[nth].changes)
    /\ \E t \in Unannounced(NextChange) :
        /\ announced' = [announced EXCEPT ![t] = <<NextChange.column[t]>>]
        /\ cache' = CachePut(t, <<"id", NextChange.column[t]>>)
    /\ UNCHANGED <<serverVars, nth, sent, midway, open, failure, consumerVars,
                   confirmed, failures>>

\* INSERT, UPDATE, DELETE or TRUNCATE.
SendChange ==
    /\ failure = "none" /\ midway /\ sent < Len(history[nth].changes)
    /\ Unannounced(NextChange) = {}
    /\ Refusal(Message(NextChange)) = "none"
    /\ open' = <<Buffered \o Pending(Message(NextChange), NextChange.lsn)>>
    /\ sent' = sent + 1
    /\ UNCHANGED <<serverVars, nth, midway, announced, cache, failure, consumerVars,
                   confirmed, failures>>

ChangeRefused ==
    /\ failure = "none" /\ midway /\ sent < Len(history[nth].changes)
    /\ Unannounced(NextChange) = {}
    /\ Refusal(Message(NextChange)) # "none"
    /\ Fail(Refusal(Message(NextChange)))
    /\ UNCHANGED failures

\* COMMIT: the whole transaction goes to the sink and from there to the
\* consumer.  The server skips transactions without a change.
Commit ==
    /\ failure = "none" /\ midway /\ sent = Len(history[nth].changes) /\ sent > 0
    /\ history' = IF history[nth].closed THEN history
                    ELSE [history EXCEPT ![nth].closed = TRUE, ![nth].after = db]
    /\ midway' = FALSE /\ nth' = nth + 1 /\ sent' = 0
    /\ open' = Nothing
    /\ LET state == Consumed([seen |-> seen, replica |-> replica], Numbered(Buffered))
       IN  seen' = state.seen /\ replica' = state.replica
    /\ emitted' = IF nth > emitted THEN nth ELSE emitted
    /\ UNCHANGED <<db, column, lsn, announced, cache, failure, confirmed, failures>>

\* A message no PostgreSQL 16 sends here: each of the checks refuses one.
Malformed(msg) ==
    /\ failure = "none" /\ failures < MaxFailures
    /\ Refusal(msg) \in {"decode", "unknown_relation"}
    /\ failures' = failures + 1
    /\ Fail(Refusal(msg))

Oddities(t) ==
    {[kind |-> "truncate", tables |-> <<t>>]} \cup UNION
    {{[kind |-> "insert", table |-> t, new |-> <<i>>],
      [kind |-> "insert", table |-> t, new |-> <<i, Unchanged>>],
      [kind |-> "delete", table |-> t, old |-> [kind |-> "full", tuple |-> <<i, Unchanged>>]]}
     : i \in Ids}

\* A drop (SessionState.reset_for_reconnect) or the end of the process and a
\* new one, which starts with an empty cache and assembler, too.  The stream
\* starts again behind the slot, which may have followed in the meantime.
Restart ==
    /\ failure # "none" \/ failures < MaxFailures
    /\ failures' = IF failure = "none" THEN failures + 1 ELSE failures
    /\ confirmed' \in confirmed..emitted
    /\ nth' = confirmed' + 1 /\ sent' = 0 /\ midway' = FALSE
    /\ announced' = [t \in Tables |-> Nothing]
    /\ cache' = [t \in Tables |-> Nothing]
    /\ open' = Nothing /\ failure' = "none"
    /\ UNCHANGED <<serverVars, consumerVars>>

Next ==
    \/ Write \/ \E t \in Tables : Rename(t)
    \/ Begin \/ SendRelation \/ SendChange \/ ChangeRefused \/ Commit
    \/ \E t \in Tables : \E msg \in Oddities(t) : Malformed(msg)
    \/ Restart

Spec == Init /\ [][Next]_vars

-----------------------------------------------------------------------------
(* Properties.                                                             *)

TypeOK ==
    /\ \A t \in Tables : cache[t] = Nothing \/ cache[t] \in {"id"} \X {"value", "renamed"}
    /\ open = Nothing \/ Len(Buffered) <= MaxEvents
    /\ failure \in {"none", "decode", "unknown_relation", "transaction_too_large"}
    /\ confirmed \in 0..emitted /\ emitted \in 0..Len(history)
    /\ nth \in 1..(Len(history) + 1)
    /\ \A t \in Tables : DOMAIN replica[t] \subseteq Ids

\* A consumer that follows the rules and deduplicates by (lsn, event_index)
\* has the tables of the server as of the last transaction it was given,
\* whatever was redelivered, shared a WAL record or came as a marker.
ReplicaFollows == emitted > 0 => replica = history[emitted].after

\* What the row (id, value) looks like under the column names of a change.
Image(c, t, id, value) ==
    [name \in {"id", c.column[t]} |-> IF name = "id" THEN id ELSE value]

IsPartOf(row, whole) ==
    DOMAIN row \subseteq DOMAIN whole /\ \A name \in DOMAIN row : row[name] = whole[name]

\* The event says what the change did and nothing else.
Tells(e, c) ==
    LET t == e.change.table
        image == e.change.images
        was == Image(c, t, c.op.id, c.value)
        is == Image(c, t, c.op.newId, c.op.value)
    IN  /\ e.change.lsn = c.lsn /\ e.change.operation = c.op.kind
        /\ Contains(RelationsOf(Message(c)), t)
        /\ image.beforeKind = "full" => image.before = was
        /\ image.beforeKind = "key" => image.before = [name \in {"id"} |-> c.op.id]
        /\ c.op.kind \in {"insert", "update"} =>
              /\ IsPartOf(image.after, is)
              /\ image.unchanged = DOMAIN is \ DOMAIN image.after
              /\ \A name \in image.unchanged : was[name] = is[name]

\* Every event names the columns the table had when it changed and carries no
\* NULL the row did not have, through renames, reconnects and markers.
EventsAreTrue == \A e \in seen : \E k \in DOMAIN history[e.xid].changes :
                    Tells(e, history[e.xid].changes[k])

\* What the keepalive advance relies on: the assembler is empty exactly
\* between two transactions of the session, also before the first row.
EmptyBetweenTransactions == failure = "none" => (IsEmpty <=> ~midway)

\* How many events the first changes of a transaction make.
EventsUpTo(changes) ==
    LET upTo[k \in 0..Len(changes)] ==
          IF k = 0 THEN 0 ELSE upTo[k - 1] + Len(RelationsOf(Message(changes[k])))
    IN  upTo

EventsIn(tx) == EventsUpTo(tx.changes)[Len(tx.changes)]

\* --max-transaction-events refuses a transaction with more events, counting
\* the tables of a TRUNCATE, and no other.
LimitIsExact ==
    /\ failure = "transaction_too_large" => EventsIn(history[nth]) > MaxEvents
    /\ \A n \in 1..emitted : EventsIn(history[n]) <= MaxEvents
=============================================================================
