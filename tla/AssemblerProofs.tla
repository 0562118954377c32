--------------------------- MODULE AssemblerProofs ---------------------------
(***************************************************************************)
(* Machine-checked proofs about Assembler, for every set of tables, with   *)
(* any replica identities, every key and value, limit, number and length   *)
(* of transactions, and number of redeliveries.                            *)
(***************************************************************************)
EXTENDS Assembler, Recursion

(* What the variables hold.                                                *)

Names == {"value", "renamed"}
Rows == UNION {[ids -> Cells] : ids \in SUBSET Ids}
Database == [Tables -> Rows]

Operation ==
    [kind : {"insert", "update", "delete"}, table : Tables, id : Ids, newId : Ids,
     value : Cells, sentWhole : BOOLEAN, tables : {<<>>}]
    \cup
    [kind : {"truncate"}, table : {Nothing}, id : {Nothing}, newId : {Nothing},
     value : {Null}, sentWhole : {TRUE}, tables : Seq(Tables) \ {<<>>}]

Change == [op : Operation, lsn : Nat, column : [Tables -> Names], value : Cells]
Transaction == [changes : Seq(Change), closed : BOOLEAN, after : Database]

SizeOf(c) == Len(RelationsOf(Message(c)))

\* The tables as of the last transaction that reached the consumer.
Base == IF emitted = 0 THEN Empty ELSE history[emitted].after

\* The tables after each of the changes, from given ones on.
StatesOf(tables, changes) ==
    LET after[k \in 0..Len(changes)] ==
          IF k = 0 THEN tables ELSE AfterOp(after[k - 1], changes[k].op)
    IN  after

\* A value that is not sent is the one the row had.
SelfConsistent(c) ==
    /\ c.op.kind = "insert" => c.op.newId = c.op.id
    /\ c.op.kind = "update" /\ ~c.op.sentWhole => c.op.value = c.value

KeepsValueOf(tables, c) ==
    c.op.kind = "update" /\ ~c.op.sentWhole => c.value = tables[c.op.table][c.op.id]

\* The j-th event of a change.
EntryOf(c, j) ==
    LET t == RelationsOf(Message(c))[j]
    IN  [table |-> t, operation |-> c.op.kind, lsn |-> c.lsn,
         images |-> Images(<<"id", c.column[t]>>, Message(c))]

-----------------------------------------------------------------------------
(* The invariant.                                                          *)

Types ==
    /\ history \in Seq(Transaction) /\ db \in Database
    /\ column \in [Tables -> Names] /\ lsn \in Nat
    /\ nth \in Nat /\ sent \in Nat /\ midway \in BOOLEAN
    /\ emitted \in Nat /\ confirmed \in Nat
    /\ failure \in {"none", "decode", "unknown_relation", "transaction_too_large"}

\* The transactions that reached the consumer are the closed ones, and at most
\* one more has begun.
HistoryShape ==
    /\ Len(history) \in {emitted, emitted + 1}
    /\ \A n \in 1..Len(history) : history[n].closed <=> n <= emitted
    /\ \A n \in 1..Len(history) : \A k \in 1..Len(history[n].changes) :
          SelfConsistent(history[n].changes[k])

\* A WAL position belongs to one transaction.
LsnShape ==
    /\ \A n \in 1..Len(history) : \A k \in 1..Len(history[n].changes) :
          history[n].changes[k].lsn <= lsn
    /\ \A n, m \in 1..Len(history) : n < m =>
          \A k \in 1..Len(history[n].changes) : \A i \in 1..Len(history[m].changes) :
             history[n].changes[k].lsn < history[m].changes[i].lsn

\* The tables are what the changes of the transaction under way made of them.
DbShape ==
    /\ Len(history) = emitted => db = Base
    /\ Len(history) = emitted + 1 =>
          LET changes == history[emitted + 1].changes
              states == StatesOf(Base, changes)
          IN  /\ db = states[Len(changes)]
              /\ \A k \in 1..Len(changes) : KeepsValueOf(states[k - 1], changes[k])

SenderShape ==
    /\ nth \in 1..(emitted + 1) /\ confirmed <= emitted
    /\ midway => nth <= Len(history) /\ sent <= Len(history[nth].changes)

\* The cache knows what was announced.
CacheShape ==
    /\ announced \in [Tables -> {Nothing} \cup {<<name>> : name \in Names}]
    /\ cache = [t \in Tables |-> IF announced[t] = Nothing THEN Nothing
                                 ELSE <<"id", announced[t][1]>>]

\* The buffer holds the events of the changes sent, each at its place.
OpenShape ==
    /\ IsEmpty <=> ~midway
    /\ midway =>
          LET changes == history[nth].changes
              upTo == EventsUpTo(changes)
          IN  /\ open = <<Buffered>> /\ Buffered \in Seq(ToSet(Buffered))
              /\ Len(Buffered) = upTo[sent] /\ Len(Buffered) <= MaxEvents
              /\ \A k \in 1..sent : \A j \in 1..SizeOf(changes[k]) :
                    Buffered[upTo[k - 1] + j] = EntryOf(changes[k], j)

\* The consumer has every event of the closed transactions, each under its key,
\* and no other.
ConsumerShape ==
    /\ replica = Base
    /\ \A e \in seen : e.xid \in 1..emitted
    /\ EventsAreTrue
    /\ \A n \in 1..emitted : \A k \in 1..Len(history[n].changes) :
          \A j \in 1..SizeOf(history[n].changes[k]) : \E e \in seen :
             Key(e) = <<history[n].changes[k].lsn,
                        EventsUpTo(history[n].changes)[k - 1] + j - 1>>

LimitShape ==
    /\ failure = "transaction_too_large" => midway
    /\ LimitIsExact

IInv ==
    /\ Types /\ HistoryShape /\ LsnShape /\ DbShape /\ SenderShape
    /\ CacheShape /\ OpenShape /\ ConsumerShape /\ LimitShape

-----------------------------------------------------------------------------
(* The operators.                                                          *)

\* The fields of a change.
LEMMA ChangeFields ==
  ASSUME NEW c \in Change
  PROVE  /\ c.op \in Operation /\ c.lsn \in Nat /\ c.column \in [Tables -> Names]
         /\ c.value \in Cells
         /\ c.op.kind \in {"insert", "update", "delete", "truncate"}
         /\ c.op.kind # "truncate" =>
               /\ c.op.table \in Tables /\ c.op.id \in Ids /\ c.op.newId \in Ids
               /\ c.op.value \in Cells /\ c.op.sentWhole \in BOOLEAN
         /\ c.op.kind = "truncate" => c.op.tables \in Seq(Tables) \ {<<>>}
BY DEF Change, Operation

\* A row message names one table, a TRUNCATE those it empties.
LEMMA Relations ==
  ASSUME NEW c \in Change
  PROVE  /\ RelationsOf(Message(c)) \in Seq(Tables) /\ SizeOf(c) \in Nat \ {0}
         /\ c.op.kind # "truncate" =>
               RelationsOf(Message(c)) = <<c.op.table>> /\ SizeOf(c) = 1
         /\ c.op.kind = "truncate" => RelationsOf(Message(c)) = c.op.tables
         /\ Message(c).kind = c.op.kind
<1>1. Message(c).kind = c.op.kind
  BY ChangeFields DEF Message
<1>2. CASE c.op.kind = "truncate"
  <2>1. RelationsOf(Message(c)) = c.op.tables
    BY <1>2 DEF RelationsOf, Message
  <2>2. QED
    BY <1>1, <1>2, <2>1, ChangeFields DEF SizeOf
<1>3. CASE c.op.kind # "truncate"
  <2>1. RelationsOf(Message(c)) = <<c.op.table>>
    BY <1>3, ChangeFields DEF RelationsOf, Message
  <2>2. QED
    BY <1>1, <1>3, <2>1, ChangeFields DEF SizeOf
<1>4. QED
  BY <1>2, <1>3

\* The events of the first k changes add up.
LEMMA EventCounts ==
  ASSUME NEW changes \in Seq(Change)
  PROVE  /\ EventsUpTo(changes) \in [0..Len(changes) -> Nat]
         /\ EventsUpTo(changes)[0] = 0
         /\ \A k \in 1..Len(changes) :
               EventsUpTo(changes)[k] = EventsUpTo(changes)[k - 1] + SizeOf(changes[k])
         /\ Len(changes) \in Nat
         /\ \A k \in 1..Len(changes) :
               /\ k \in 0..Len(changes) /\ k - 1 \in 0..Len(changes)
               /\ SizeOf(changes[k]) \in Nat \ {0} /\ EventsUpTo(changes)[k - 1] \in Nat
<1> DEFINE n == Len(changes)
           step == [k \in 1..n |-> [v \in Nat |-> v + SizeOf(changes[k])]]
           Counts(f) == f = [k \in 0..n |-> IF k = 0 THEN 0
                                ELSE f[k - 1] + Len(RelationsOf(Message(changes[k])))]
<1>1. n \in Nat /\ \A k \in 1..n : changes[k] \in Change
  OBVIOUS
<1>2. \A k \in 1..n : SizeOf(changes[k]) \in Nat \ {0}
  BY <1>1, Relations
<1>3. StepsUpTo(step, n, Nat)
  BY <1>2 DEF StepsUpTo
<1> HIDE DEF step
<1>4. PICK f : IsIteratedUpTo(f, n, Nat, 0, step)
  BY <1>1, <1>3, IntervalRecursion
<1>5. /\ f \in [0..n -> Nat] /\ f[0] = 0
      /\ \A k \in 1..n : f[k] = f[k - 1] + SizeOf(changes[k])
  <2>1. /\ f \in [0..n -> Nat] /\ f[0] = 0
        /\ \A k \in 1..n : f[k] = step[k][f[k - 1]]
    BY <1>4 DEF IsIteratedUpTo
  <2>2. ASSUME NEW k \in 1..n
        PROVE  f[k] = f[k - 1] + SizeOf(changes[k])
    <3>1. k - 1 \in 0..n
      BY <1>1
    <3>2. f[k - 1] \in Nat
      BY <2>1, <3>1
    <3>3. step[k] = [v \in Nat |-> v + SizeOf(changes[k])]
      BY DEF step
    <3>4. QED
      BY <2>1, <3>2, <3>3
  <2>3. QED
    BY <2>1, <2>2
<1>6. Counts(f)
  BY <1>1, <1>5 DEF SizeOf
<1>7. Counts(EventsUpTo(changes))
  <2>1. EventsUpTo(changes) = CHOOSE g : Counts(g)
    BY DEF EventsUpTo
  <2> HIDE DEF Counts
  <2>2. QED
    BY <1>6, <2>1
<1> DEFINE g == EventsUpTo(changes)
<1> HIDE DEF g
<1>8. Counts(g)
  BY <1>7 DEF g
<1>9. \A k \in 1..n : f[k - 1] = g[k - 1] => f[k] = g[k]
  BY <1>1, <1>5, <1>8 DEF SizeOf
<1>10. Alike(f, g, n)
  <2>1. f[0] = g[0]
    BY <1>1, <1>5, <1>8
  <2> HIDE DEF n, Counts
  <2>2. QED
    BY <1>9, <2>1 DEF Alike
<1> HIDE DEF n, Counts
<1>11. \A k \in 0..n : f[k] = g[k]
  BY <1>1, <1>10, SameIteration
<1>12. g = f
  <2>1. g = [k \in 0..n |-> g[k]]
    BY <1>8 DEF Counts
  <2>2. QED
    BY <1>5, <1>11, <2>1
<1>13. \A k \in 1..n : k \in 0..n /\ k - 1 \in 0..n
  BY <1>1
<1>14. \A k \in 1..n : f[k - 1] \in Nat
  BY <1>5, <1>13
<1>15. QED
  BY <1>1, <1>2, <1>5, <1>12, <1>13, <1>14 DEF g, n

\* More changes do not make the first ones count less, and later sums are no
\* smaller than earlier ones.
LEMMA CountsPrefix ==
  ASSUME NEW changes \in Seq(Change), NEW c \in Change
  PROVE  \A k \in 0..Len(changes) :
            EventsUpTo(Append(changes, c))[k] = EventsUpTo(changes)[k]
<1> DEFINE more == Append(changes, c)
           n == Len(changes)
           f == EventsUpTo(more)
           g == EventsUpTo(changes)
<1>1. /\ more \in Seq(Change) /\ Len(more) = n + 1 /\ n \in Nat
      /\ \A k \in 1..n : more[k] = changes[k]
  OBVIOUS
<1> HIDE DEF more
<1>2. f[0] = 0 /\ \A k \in 1..(n + 1) : f[k] = f[k - 1] + SizeOf(more[k])
  BY <1>1, EventCounts
<1>3. g[0] = 0 /\ \A k \in 1..n : g[k] = g[k - 1] + SizeOf(changes[k])
  BY EventCounts
<1> HIDE DEF f, g, n
<1>4. Alike(f, g, n)
  BY <1>1, <1>2, <1>3 DEF Alike
<1>5. \A k \in 0..n : f[k] = g[k]
  BY <1>1, <1>4, SameIteration
<1>6. QED
  BY <1>5 DEF f, g, n, more

\* A sum of more changes is no smaller.
LEMMA CountsGrow ==
  ASSUME NEW changes \in Seq(Change), NEW i \in 0..Len(changes)
  PROVE  \A k \in i..Len(changes) : EventsUpTo(changes)[i] <= EventsUpTo(changes)[k]
<1> DEFINE n == Len(changes)
           g == EventsUpTo(changes)
           T == {k \in i..n : ~(g[i] <= g[k])}
<1>1. /\ g \in [0..n -> Nat] /\ n \in Nat
      /\ \A k \in 1..n : g[k] = g[k - 1] + SizeOf(changes[k]) /\ SizeOf(changes[k]) \in Nat
  BY EventCounts, Relations
<1> HIDE DEF n, g
<1>2. SUFFICES ASSUME T # {} PROVE FALSE
  BY DEF n, g
<1>3. T \in SUBSET Nat
  BY DEF n
<1> HIDE DEF T
<1>4. PICK k \in T : \A m \in T : k <= m
  BY <1>2, <1>3, LeastNatural
<1> USE DEF T
<1>5. k \in i..n /\ ~(g[i] <= g[k]) /\ i \in 0..n
  BY DEF n
<1>6. k # i
  BY <1>1, <1>5
<1>7. k - 1 \in i..n /\ k \in 1..n /\ ~(k <= k - 1) /\ k - 1 \in 0..n
  BY <1>1, <1>5, <1>6
<1>8. g[i] <= g[k - 1]
  BY <1>4, <1>7
<1>9. g[k - 1] \in Nat /\ g[k] = g[k - 1] + SizeOf(changes[k]) /\ SizeOf(changes[k]) \in Nat
      /\ g[i] \in Nat
  BY <1>1, <1>5, <1>7
<1>10. QED
  BY <1>5, <1>8, <1>9

\* A row is emptied, changed or removed: the tables stay tables.
LEMMA AfterOpType ==
  ASSUME NEW tables \in Database, NEW op \in Operation
  PROVE  AfterOp(tables, op) \in Database
<1>1. \A t \in Tables : \E ids \in SUBSET Ids : tables[t] \in [ids -> Cells]
  BY DEF Database, Rows
<1>2. ASSUME NEW rows \in Rows, NEW id \in Ids, NEW value \in Cells
      PROVE  With(rows, id, value) \in Rows /\ Without(rows, id) \in Rows
  <2>1. PICK ids \in SUBSET Ids : rows \in [ids -> Cells]
    BY DEF Rows
  <2>2. With(rows, id, value) \in [ids \cup {id} -> Cells]
    BY <2>1 DEF With
  <2>3. Without(rows, id) \in [ids \ {id} -> Cells]
    BY <2>1 DEF Without
  <2>4. ids \cup {id} \in SUBSET Ids /\ ids \ {id} \in SUBSET Ids
    OBVIOUS
  <2>5. QED
    BY <2>2, <2>3, <2>4 DEF Rows
<1>3. [i \in {} |-> Null] \in Rows
  <2>1. [i \in {} |-> Null] \in [{} -> Cells] /\ {} \in SUBSET Ids
    OBVIOUS
  <2>2. QED
    BY <2>1 DEF Rows
<1>4. CASE op.kind = "truncate"
  BY <1>3, <1>4 DEF AfterOp, Database
<1>5. CASE op.kind # "truncate"
  <2>1. /\ op.kind \in {"insert", "update", "delete"} /\ op.table \in Tables
        /\ op.id \in Ids /\ op.newId \in Ids /\ op.value \in Cells
    BY <1>5 DEF Operation
  <2>2. tables[op.table] \in Rows
    BY <2>1 DEF Database
  <2>3. /\ With(tables[op.table], op.id, op.value) \in Rows
        /\ Without(tables[op.table], op.id) \in Rows
        /\ With(Without(tables[op.table], op.id), op.newId, op.value) \in Rows
    BY <1>2, <2>1, <2>2
  <2>4. QED
    BY <2>1, <2>3 DEF AfterOp, Database
<1>6. QED
  BY <1>4, <1>5

\* The tables after each change, from given ones on.
LEMMA StateSteps ==
  ASSUME NEW tables \in Database, NEW changes \in Seq(Change)
  PROVE  /\ StatesOf(tables, changes) \in [0..Len(changes) -> Database]
         /\ StatesOf(tables, changes)[0] = tables
         /\ \A k \in 1..Len(changes) : StatesOf(tables, changes)[k]
               = AfterOp(StatesOf(tables, changes)[k - 1], changes[k].op)
<1> DEFINE n == Len(changes)
           step == [k \in 1..n |-> [v \in Database |-> AfterOp(v, changes[k].op)]]
           Follows(f) == f = [k \in 0..n |-> IF k = 0 THEN tables
                                ELSE AfterOp(f[k - 1], changes[k].op)]
<1>1. n \in Nat /\ \A k \in 1..n : changes[k].op \in Operation
  BY ChangeFields
<1>2. \A k \in 1..n : \A v \in Database : AfterOp(v, changes[k].op) \in Database
  BY <1>1, AfterOpType
<1>3. StepsUpTo(step, n, Database)
  BY <1>2 DEF StepsUpTo
<1> HIDE DEF step
<1>4. PICK f : IsIteratedUpTo(f, n, Database, tables, step)
  BY <1>1, <1>3, IntervalRecursion
<1>5. /\ f \in [0..n -> Database] /\ f[0] = tables
      /\ \A k \in 1..n : f[k] = AfterOp(f[k - 1], changes[k].op)
  <2>1. /\ f \in [0..n -> Database] /\ f[0] = tables
        /\ \A k \in 1..n : f[k] = step[k][f[k - 1]]
    BY <1>4 DEF IsIteratedUpTo
  <2>2. ASSUME NEW k \in 1..n
        PROVE  f[k] = AfterOp(f[k - 1], changes[k].op)
    <3>1. k - 1 \in 0..n
      BY <1>1
    <3>2. f[k - 1] \in Database
      BY <2>1, <3>1
    <3>3. step[k][f[k - 1]] = AfterOp(f[k - 1], changes[k].op)
      BY <3>2 DEF step
    <3>4. QED
      BY <2>1, <3>3
  <2>3. QED
    BY <2>1, <2>2
<1>6. Follows(f)
  BY <1>1, <1>5
<1> DEFINE g == StatesOf(tables, changes)
<1>7. Follows(g)
  <2>1. g = CHOOSE h : Follows(h)
    BY DEF StatesOf
  <2> HIDE DEF Follows, g
  <2>2. QED
    BY <1>6, <2>1
<1> HIDE DEF g
<1>8. \A k \in 1..n : f[k - 1] = g[k - 1] => f[k] = g[k]
  BY <1>1, <1>5, <1>7
<1>9. Alike(f, g, n)
  BY <1>1, <1>5, <1>7, <1>8 DEF Alike
<1> HIDE DEF n, Follows
<1>10. \A k \in 0..n : f[k] = g[k]
  BY <1>1, <1>9, SameIteration
<1>11. g = f
  <2>1. g = [k \in 0..n |-> g[k]]
    BY <1>7 DEF Follows
  <2>2. QED
    BY <1>5, <1>10, <2>1
<1>12. QED
  BY <1>5, <1>11 DEF g, n

\* Another change leaves the tables between the earlier ones alone.
LEMMA StatesPrefix ==
  ASSUME NEW tables \in Database, NEW changes \in Seq(Change), NEW c \in Change
  PROVE  \A k \in 0..Len(changes) :
            StatesOf(tables, Append(changes, c))[k] = StatesOf(tables, changes)[k]
<1> DEFINE more == Append(changes, c)
           n == Len(changes)
           f == StatesOf(tables, more)
           g == StatesOf(tables, changes)
<1>1. /\ more \in Seq(Change) /\ Len(more) = n + 1 /\ n \in Nat
      /\ \A k \in 1..n : more[k] = changes[k]
  OBVIOUS
<1> HIDE DEF more
<1>2. f[0] = tables /\ \A k \in 1..(n + 1) : f[k] = AfterOp(f[k - 1], more[k].op)
  BY <1>1, StateSteps
<1>3. g[0] = tables /\ \A k \in 1..n : g[k] = AfterOp(g[k - 1], changes[k].op)
  BY StateSteps
<1> HIDE DEF f, g, n
<1>4. Alike(f, g, n)
  <2>1. ASSUME NEW k \in 1..n, f[k - 1] = g[k - 1]
        PROVE  f[k] = g[k]
    <3>1. k \in 1..(n + 1) /\ more[k] = changes[k]
      BY <1>1
    <3>2. QED
      BY <1>2, <1>3, <2>1, <3>1
  <2>2. QED
    BY <1>2, <1>3, <2>1 DEF Alike
<1>5. \A k \in 0..n : f[k] = g[k]
  BY <1>1, <1>4, SameIteration
<1>6. QED
  BY <1>5 DEF f, g, n, more

\* The place of an event in the buffer is the place of a change and the place
\* of the event in it.
LEMMA EventPlace ==
  ASSUME NEW changes \in Seq(Change), NEW m \in 0..Len(changes),
         NEW i \in 1..EventsUpTo(changes)[m]
  PROVE  \E k \in 1..m : \E j \in 1..SizeOf(changes[k]) :
            i = EventsUpTo(changes)[k - 1] + j
<1> DEFINE n == Len(changes)
           g == EventsUpTo(changes)
           T == {k \in 0..m : i <= g[k]}
<1>1. /\ g \in [0..n -> Nat] /\ n \in Nat /\ g[0] = 0
      /\ \A k \in 1..n : /\ g[k] = g[k - 1] + SizeOf(changes[k])
                         /\ k - 1 \in 0..n /\ SizeOf(changes[k]) \in Nat /\ g[k - 1] \in Nat
  BY EventCounts
<1>2. m \in 0..n /\ i \in 1..g[m]
  OBVIOUS
<1> HIDE DEF n, g
<1>3. T \in SUBSET Nat /\ T # {}
  <2>1. m \in Nat /\ m \in 0..m /\ g[m] \in Nat
    BY <1>1, <1>2
  <2>2. m \in T
    BY <1>2, <2>1
  <2>3. QED
    BY <2>1, <2>2
<1> HIDE DEF T
<1>4. PICK k \in T : \A y \in T : k <= y
  BY <1>3, LeastNatural
<1> USE DEF T
<1>5. k \in 0..m /\ i <= g[k] /\ k # 0
  BY <1>1, <1>2, <1>4
<1>6. k \in 1..m /\ k \in 1..n /\ k - 1 \in 0..m /\ k - 1 \in 0..n /\ ~(k <= k - 1)
  BY <1>1, <1>2, <1>5
<1>7. ~(i <= g[k - 1])
  BY <1>4, <1>6
<1>8. g[k - 1] \in Nat /\ g[k] = g[k - 1] + SizeOf(changes[k]) /\ SizeOf(changes[k]) \in Nat
      /\ i \in Nat
  BY <1>1, <1>2, <1>6
<1>9. i - g[k - 1] \in 1..SizeOf(changes[k]) /\ i = g[k - 1] + (i - g[k - 1])
  BY <1>5, <1>7, <1>8
<1>10. QED
  BY <1>6, <1>9 DEF g

\* Two places are not the same.
LEMMA PlaceIsUnique ==
  ASSUME NEW changes \in Seq(Change), NEW k \in 1..Len(changes), NEW l \in 1..Len(changes),
         NEW j \in 1..SizeOf(changes[k]), NEW h \in 1..SizeOf(changes[l]),
         EventsUpTo(changes)[k - 1] + j = EventsUpTo(changes)[l - 1] + h
  PROVE  k = l /\ j = h
<1> DEFINE n == Len(changes)
           g == EventsUpTo(changes)
<1>1. /\ n \in Nat
      /\ \A q \in 1..n : /\ g[q] = g[q - 1] + SizeOf(changes[q])
                         /\ SizeOf(changes[q]) \in Nat /\ g[q - 1] \in Nat
  BY EventCounts
<1>2. \A p \in 0..n : \A q \in p..n : g[p] <= g[q]
  BY CountsGrow
<1>3. k \in 1..n /\ l \in 1..n /\ g[k - 1] + j = g[l - 1] + h
  OBVIOUS
<1> HIDE DEF n, g
<1>4. ASSUME NEW p \in 1..n, NEW q \in 1..n, p < q PROVE g[p - 1] + SizeOf(changes[p]) <= g[q - 1]
  <2>1. p \in 0..n /\ q - 1 \in p..n
    BY <1>1, <1>4
  <2>2. QED
    BY <1>1, <1>2, <2>1
<1>5. /\ g[k - 1] \in Nat /\ g[l - 1] \in Nat
      /\ SizeOf(changes[k]) \in Nat /\ SizeOf(changes[l]) \in Nat
  BY <1>1, <1>3
<1>6. ~(k < l)
  <2>1. SUFFICES ASSUME k < l PROVE FALSE
    OBVIOUS
  <2>2. g[k - 1] + SizeOf(changes[k]) <= g[l - 1]
    BY <1>3, <1>4, <2>1
  <2> DEFINE size == SizeOf(changes[k])
             first == g[k - 1]
             second == g[l - 1]
  <2>3. /\ size \in Nat /\ first \in Nat /\ second \in Nat
        /\ j \in 1..size /\ h \in Nat /\ h >= 1
        /\ first + size <= second /\ first + j = second + h
    BY <1>3, <1>5, <2>2
  <2> HIDE DEF size, first, second
  <2>4. QED
    BY <2>3
<1>7. ~(l < k)
  <2>1. SUFFICES ASSUME l < k PROVE FALSE
    OBVIOUS
  <2>2. g[l - 1] + SizeOf(changes[l]) <= g[k - 1]
    BY <1>3, <1>4, <2>1
  <2> DEFINE size == SizeOf(changes[l])
             first == g[l - 1]
             second == g[k - 1]
  <2>3. /\ size \in Nat /\ first \in Nat /\ second \in Nat
        /\ h \in 1..size /\ j \in Nat /\ j >= 1
        /\ first + size <= second /\ first + h = second + j
    BY <1>3, <1>5, <2>2
  <2> HIDE DEF size, first, second
  <2>4. QED
    BY <2>3
<1>8. k = l
  BY <1>1, <1>3, <1>6, <1>7
<1>9. QED
  BY <1>3, <1>5, <1>8

-----------------------------------------------------------------------------
(* Row images.                                                             *)

\* A row of two columns, and one of the key alone.
WholeRow(name, id, value) == [n \in {"id", name} |-> IF n = "id" THEN id ELSE value]
KeyAlone(id) == [n \in {"id"} |-> id]

\* The new value of the change is not sent.
Marked(c) == c.op.kind = "update" /\ ~c.op.sentWhole

\* A whole tuple becomes a whole row, the marker leaves its column out and
\* names it, and a key tuple keeps the key.
TuplesSay(name, x, v) ==
    /\ FullRow(<<"id", name>>, <<x, v>>) = WholeRow(name, x, v)
    /\ FullRow(<<"id", name>>, <<x, Unchanged>>) = KeyAlone(x)
    /\ KeyRow(<<"id", name>>, <<x, Null>>) = KeyAlone(x)
    /\ UnchangedColumns(<<"id", name>>, <<x, v>>) = {}
    /\ UnchangedColumns(<<"id", name>>, <<x, Unchanged>>) = {name}

\* Whatever the names and the values.
LEMMA RowImages ==
  ASSUME NEW name \in Names, NEW x \in Ids, NEW v \in Cells
  PROVE  TuplesSay(name, x, v)
<1> DEFINE columns == <<"id", name>>
<1>1. /\ x # Unchanged /\ v # Unchanged /\ x # Null /\ Null # Unchanged
      /\ "id" # name
  BY AssemblerAssumption DEF Cells, Null, Unchanged, Names
<1>2. DOMAIN columns = {1, 2} /\ columns[1] = "id" /\ columns[2] = name
  OBVIOUS
<1> HIDE DEF columns
<1>3. ASSUME NEW a, NEW b
      PROVE  <<a, b>>[1] = a /\ <<a, b>>[2] = b
  OBVIOUS
<1>4. FullRow(columns, <<x, v>>) = [n \in {"id", name} |-> IF n = "id" THEN x ELSE v]
  <2> DEFINE tuple == <<x, v>>
             kept == {k \in DOMAIN columns : Arrived(tuple[k])}
  <2>1. tuple[1] = x /\ tuple[2] = v
    OBVIOUS
  <2>2. kept = {1, 2}
    BY <1>1, <1>2, <2>1 DEF Arrived
  <2>3. FullRow(columns, tuple) = [n \in {columns[k] : k \in kept} |->
                                      tuple[CHOOSE k \in kept : columns[k] = n]]
    BY DEF FullRow, Row
  <2> HIDE DEF tuple, kept
  <2>4. {columns[k] : k \in kept} = {"id", name}
    BY <1>2, <2>2
  <2>5. (CHOOSE k \in kept : columns[k] = "id") = 1
        /\ (CHOOSE k \in kept : columns[k] = name) = 2
    BY <1>1, <1>2, <2>2
  <2>6. QED
    BY <1>1, <2>1, <2>3, <2>4, <2>5 DEF tuple
<1>5. ASSUME NEW y, y \in {Null, Unchanged}
      PROVE  /\ y = Unchanged =>
                  FullRow(columns, <<x, y>>) = [n \in {"id"} |-> x]
             /\ y = Null => KeyRow(columns, <<x, y>>) = [n \in {"id"} |-> x]
  <2> DEFINE tuple == <<x, y>>
  <2>1. tuple[1] = x /\ tuple[2] = y
    OBVIOUS
  <2> HIDE DEF tuple
  <2>2. {columns[k] : k \in {1}} = {"id"} /\ (CHOOSE k \in {1} : columns[k] = "id") = 1
    BY <1>2
  <2>3. y = Unchanged => {k \in DOMAIN columns : Arrived(tuple[k])} = {1}
    BY <1>1, <1>2, <2>1 DEF Arrived
  <2>4. y = Null => {k \in DOMAIN columns : Text(tuple[k])} = {1}
    BY <1>1, <1>2, <2>1 DEF Text
  <2>5. /\ FullRow(columns, tuple)
             = LET kept == {k \in DOMAIN columns : Arrived(tuple[k])}
               IN  [n \in {columns[k] : k \in kept} |->
                      tuple[CHOOSE k \in kept : columns[k] = n]]
        /\ KeyRow(columns, tuple)
             = LET kept == {k \in DOMAIN columns : Text(tuple[k])}
               IN  [n \in {columns[k] : k \in kept} |->
                      tuple[CHOOSE k \in kept : columns[k] = n]]
    BY DEF FullRow, KeyRow, Row
  <2>6. [n \in {columns[k] : k \in {1}} |-> tuple[CHOOSE k \in {1} : columns[k] = n]]
          = [n \in {"id"} |-> x]
    BY <2>1, <2>2
  <2>7. QED
    BY <2>3, <2>4, <2>5, <2>6 DEF tuple
<1>6. UnchangedColumns(columns, <<x, v>>) = {}
  BY <1>1, <1>2, <1>3 DEF UnchangedColumns
<1>7. UnchangedColumns(columns, <<x, Unchanged>>) = {name}
  BY <1>1, <1>2, <1>3 DEF UnchangedColumns
<1>8. QED
  BY <1>4, <1>5, <1>6, <1>7 DEF columns, WholeRow, KeyAlone, TuplesSay

\* What the two kinds of row say.
RowsSay(name, x, v) ==
    /\ WholeRow(name, x, v)["id"] = x /\ WholeRow(name, x, v)[name] = v
    /\ DOMAIN WholeRow(name, x, v) = {"id", name}
    /\ OtherValue(WholeRow(name, x, v)) = v
    /\ KeyAlone(x)["id"] = x /\ DOMAIN KeyAlone(x) = {"id"} /\ name # "id"

\* The columns of a row.
LEMMA RowColumns ==
  ASSUME NEW name \in Names, NEW x, NEW v
  PROVE  RowsSay(name, x, v)
<1>1. "id" # name
  BY DEF Names
<1>2. (CHOOSE n \in {"id", name} : n # "id") = name
  BY <1>1
<1>3. QED
  BY <1>1, <1>2 DEF RowsSay, WholeRow, KeyAlone, OtherValue

\* What the old tuple of a change makes of the row before it.
LEMMA OldImage ==
  ASSUME NEW c \in Change, c.op.kind \in {"update", "delete"}, NEW name \in Names
  PROVE  /\ Message(c).old.kind \in {"full", "key", "none"}
         /\ Message(c).old.kind = "full" =>
               Before(<<"id", name>>, Message(c)) = WholeRow(name, c.op.id, c.value)
         /\ Message(c).old.kind = "key" =>
               Before(<<"id", name>>, Message(c)) = KeyAlone(c.op.id)
         /\ Message(c).old.kind = "none" => c.op.kind = "update" /\ c.op.newId = c.op.id
<1>1. c.op.id \in Ids /\ c.value \in Cells
  BY ChangeFields
<1>2. Message(c).old = OldTuple(c)
  BY DEF Message
<1>3. \/ OldTuple(c) = [kind |-> "full", tuple |-> <<c.op.id, c.value>>]
      \/ OldTuple(c) = [kind |-> "key", tuple |-> <<c.op.id, Null>>]
      \/ /\ OldTuple(c) = [kind |-> "none", tuple |-> <<>>]
         /\ c.op.kind # "delete" /\ c.op.newId = c.op.id
  BY DEF OldTuple
<1>4. /\ FullRow(<<"id", name>>, <<c.op.id, c.value>>) = WholeRow(name, c.op.id, c.value)
      /\ KeyRow(<<"id", name>>, <<c.op.id, Null>>) = KeyAlone(c.op.id)
  <2>1. TuplesSay(name, c.op.id, c.value)
    BY <1>1, RowImages
  <2>2. QED
    BY <2>1 DEF TuplesSay
<1>5. CASE OldTuple(c) = [kind |-> "full", tuple |-> <<c.op.id, c.value>>]
  <2>1. Before(<<"id", name>>, Message(c)) = FullRow(<<"id", name>>, <<c.op.id, c.value>>)
    BY <1>2, <1>5 DEF Before
  <2>2. QED
    BY <1>2, <1>4, <1>5, <2>1
<1>6. CASE OldTuple(c) = [kind |-> "key", tuple |-> <<c.op.id, Null>>]
  <2>1. Before(<<"id", name>>, Message(c)) = KeyRow(<<"id", name>>, <<c.op.id, Null>>)
    BY <1>2, <1>6 DEF Before
  <2>2. QED
    BY <1>2, <1>4, <1>6, <2>1
<1>7. CASE /\ OldTuple(c) = [kind |-> "none", tuple |-> <<>>]
           /\ c.op.kind # "delete" /\ c.op.newId = c.op.id
  BY <1>2, <1>7
<1>8. QED
  BY <1>3, <1>5, <1>6, <1>7

\* What the new tuple of a change makes of the row after it.
LEMMA NewImage ==
  ASSUME NEW c \in Change, c.op.kind \in {"insert", "update"}, NEW name \in Names
  PROVE  /\ FullRow(<<"id", name>>, Message(c).new)
              = IF Marked(c) THEN KeyAlone(c.op.newId)
                ELSE WholeRow(name, c.op.newId, c.op.value)
         /\ UnchangedColumns(<<"id", name>>, Message(c).new)
              = IF Marked(c) THEN {name} ELSE {}
<1>1. c.op.newId \in Ids /\ c.op.value \in Cells
  BY ChangeFields
<1>2. /\ FullRow(<<"id", name>>, <<c.op.newId, Unchanged>>) = KeyAlone(c.op.newId)
      /\ UnchangedColumns(<<"id", name>>, <<c.op.newId, Unchanged>>) = {name}
      /\ FullRow(<<"id", name>>, <<c.op.newId, c.op.value>>)
           = WholeRow(name, c.op.newId, c.op.value)
      /\ UnchangedColumns(<<"id", name>>, <<c.op.newId, c.op.value>>) = {}
  <2>1. TuplesSay(name, c.op.newId, c.op.value)
    BY <1>1, RowImages
  <2>2. QED
    BY <2>1 DEF TuplesSay
<1>3. CASE Marked(c)
  <2>1. Message(c).new = <<c.op.newId, Unchanged>>
    BY <1>3 DEF Message, Marked
  <2>2. QED
    BY <1>2, <1>3, <2>1
<1>4. CASE ~Marked(c)
  <2>1. Message(c).new = <<c.op.newId, c.op.value>>
    BY <1>4 DEF Message, Marked
  <2>2. QED
    BY <1>2, <1>4, <2>1
<1>5. QED
  BY <1>3, <1>4

\* The images of the event of a change, and the row they identify.
ImagesSay(image, name, c) ==
    /\ c.op.kind = "insert" => image.beforeKind = "none"
    /\ c.op.kind \in {"insert", "update"} =>
          /\ image.after = IF Marked(c) THEN KeyAlone(c.op.newId)
                           ELSE WholeRow(name, c.op.newId, c.op.value)
          /\ image.unchanged = IF Marked(c) THEN {name} ELSE {}
          /\ image.after["id"] = c.op.newId
          /\ ~Marked(c) => OtherValue(image.after) = c.op.value
    /\ image.beforeKind = "full" => image.before = WholeRow(name, c.op.id, c.value)
    /\ image.beforeKind = "key" => image.before = KeyAlone(c.op.id)
    /\ c.op.kind \in {"update", "delete"} =>
          /\ image.beforeKind # "none" => image.before["id"] = c.op.id
          /\ image.beforeKind = "none" => c.op.kind = "update" /\ c.op.newId = c.op.id

\* They do.
LEMMA EventImages ==
  ASSUME NEW c \in Change, c.op.kind # "truncate", NEW name \in Names, NEW image,
         image = Images(<<"id", name>>, Message(c))
  PROVE  ImagesSay(image, name, c)
<1>1. Message(c).kind = c.op.kind /\ c.op.kind \in {"insert", "update", "delete"}
  BY ChangeFields, Relations
<1>2. RowsSay(name, c.op.newId, c.op.value)
  BY RowColumns
<1>3. RowsSay(name, c.op.id, c.value)
  BY RowColumns
<1>4. ASSUME c.op.kind \in {"insert", "update"}
      PROVE  /\ image.after = IF Marked(c) THEN KeyAlone(c.op.newId)
                              ELSE WholeRow(name, c.op.newId, c.op.value)
             /\ image.unchanged = IF Marked(c) THEN {name} ELSE {}
  <2>1. /\ image.after = FullRow(<<"id", name>>, Message(c).new)
        /\ image.unchanged = IF c.op.kind = "update"
                               THEN UnchangedColumns(<<"id", name>>, Message(c).new) ELSE {}
    BY <1>1, <1>4 DEF Images
  <2>2. c.op.kind = "insert" => ~Marked(c)
    BY DEF Marked
  <2>3. QED
    BY <1>4, <2>1, <2>2, NewImage
<1>5. ASSUME c.op.kind \in {"update", "delete"}
      PROVE  /\ image.beforeKind \in {"full", "key", "none"}
             /\ image.beforeKind = "full" => image.before = WholeRow(name, c.op.id, c.value)
             /\ image.beforeKind = "key" => image.before = KeyAlone(c.op.id)
             /\ image.beforeKind = "none" => c.op.kind = "update" /\ c.op.newId = c.op.id
  <2>1. image.before = Before(<<"id", name>>, Message(c))
        /\ image.beforeKind = Message(c).old.kind
    BY <1>1, <1>5 DEF Images
  <2>2. QED
    BY <1>5, <2>1, OldImage
<1>6. c.op.kind = "insert" => image.beforeKind = "none"
  BY <1>1 DEF Images
<1>7. QED
  BY <1>1, <1>2, <1>3, <1>4, <1>5, <1>6 DEF ImagesSay, RowsSay

\* The event of a change says what it did and nothing else.
LEMMA EntryTells ==
  ASSUME NEW c \in Change, SelfConsistent(c), NEW j \in 1..SizeOf(c),
         NEW e, e.change = EntryOf(c, j)
  PROVE  Tells(e, c)
<1> DEFINE tables == RelationsOf(Message(c))
           t == tables[j]
           name == c.column[t]
           image == e.change.images
<1>1. /\ tables \in Seq(Tables) /\ j \in DOMAIN tables /\ t \in Tables /\ name \in Names
      /\ Message(c).kind = c.op.kind
  BY Relations, ChangeFields DEF SizeOf
<1>2. /\ e.change.table = t /\ e.change.operation = c.op.kind /\ e.change.lsn = c.lsn
      /\ image = Images(<<"id", name>>, Message(c))
  BY DEF EntryOf
<1>3. Contains(tables, t)
  BY <1>1 DEF Contains
<1>4. /\ Image(c, t, c.op.id, c.value) = WholeRow(name, c.op.id, c.value)
      /\ Image(c, t, c.op.newId, c.op.value) = WholeRow(name, c.op.newId, c.op.value)
  BY DEF Image, WholeRow
<1> DEFINE was == WholeRow(name, c.op.id, c.value)
           is == WholeRow(name, c.op.newId, c.op.value)
<1>5. CASE c.op.kind = "truncate"
  <2>1. image.beforeKind = "none"
    BY <1>1, <1>2, <1>5 DEF Images
  <2>2. QED
    BY <1>2, <1>3, <1>5, <2>1 DEF Tells
<1>6. CASE c.op.kind # "truncate"
  <2> HIDE DEF tables, t, name, image
  <2>1. /\ was["id"] = c.op.id /\ was[name] = c.value /\ DOMAIN is = {"id", name}
        /\ is["id"] = c.op.newId /\ is[name] = c.op.value /\ name # "id"
        /\ DOMAIN KeyAlone(c.op.newId) = {"id"}
        /\ KeyAlone(c.op.newId)["id"] = c.op.newId
    <3>1. RowsSay(name, c.op.id, c.value)
      BY <1>1, RowColumns
    <3>2. RowsSay(name, c.op.newId, c.op.value)
      BY <1>1, RowColumns
    <3>3. QED
      BY <3>1, <3>2 DEF RowsSay
  <2>2. /\ image.beforeKind = "full" => image.before = was
        /\ image.beforeKind = "key" => image.before = KeyAlone(c.op.id)
        /\ c.op.kind \in {"insert", "update"} =>
              /\ image.after = IF Marked(c) THEN KeyAlone(c.op.newId) ELSE is
              /\ image.unchanged = IF Marked(c) THEN {name} ELSE {}
    <3>1. ImagesSay(image, name, c)
      BY <1>1, <1>2, <1>6, EventImages
    <3>2. QED
      BY <3>1 DEF ImagesSay
  <2> HIDE DEF was, is
  <2>3. ASSUME c.op.kind \in {"insert", "update"}
        PROVE  /\ IsPartOf(image.after, is)
               /\ image.unchanged = DOMAIN is \ DOMAIN image.after
               /\ \A n \in image.unchanged : was[n] = is[n]
    <3>1. CASE Marked(c)
      <4>1. c.op.value = c.value
        BY <3>1 DEF SelfConsistent, Marked
      <4>2. QED
        BY <2>1, <2>2, <2>3, <3>1, <4>1 DEF IsPartOf
    <3>2. CASE ~Marked(c)
      BY <2>2, <2>3, <3>2 DEF IsPartOf
    <3>3. QED
      BY <3>1, <3>2
  <2>4. image.beforeKind = "key" => image.before = [n \in {"id"} |-> c.op.id]
    BY <2>2 DEF KeyAlone
  <2>5. QED
    BY <1>2, <1>3, <1>4, <2>2, <2>3, <2>4 DEF Tells, tables, t, was, is, image
<1>7. QED
  BY <1>5, <1>6

-----------------------------------------------------------------------------
(* The consumer.                                                           *)

\* The tables when the first j events of a change have been applied.
PartOf(tables, c, j) ==
    IF j = 0 THEN tables
    ELSE IF c.op.kind # "truncate" THEN AfterOp(tables, c.op)
    ELSE [t \in Tables |-> IF \E i \in 1..j : c.op.tables[i] = t THEN [i \in {} |-> Null]
                                                                 ELSE tables[t]]

\* All the events of a change make of the tables what it made of them.
LEMMA WholeChange ==
  ASSUME NEW tables \in Database, NEW c \in Change
  PROVE  PartOf(tables, c, SizeOf(c)) = AfterOp(tables, c.op)
<1>1. CASE c.op.kind # "truncate"
  BY <1>1, Relations DEF PartOf
<1>2. CASE c.op.kind = "truncate"
  <2>1. c.op.tables \in Seq(Tables) /\ SizeOf(c) = Len(c.op.tables)
    BY <1>2, Relations, ChangeFields DEF SizeOf
  <2>2. AfterOp(tables, c.op)
          = [t \in Tables |-> IF Contains(c.op.tables, t) THEN [i \in {} |-> Null]
                                                          ELSE tables[t]]
    BY <1>2 DEF AfterOp
  <2>3. \A t \in Tables : Contains(c.op.tables, t)
           <=> \E i \in 1..SizeOf(c) : c.op.tables[i] = t
    BY <2>1 DEF Contains
  <2>4. CASE SizeOf(c) = 0
    <3>1. \A t \in Tables : ~Contains(c.op.tables, t)
      BY <2>3, <2>4
    <3>2. AfterOp(tables, c.op) = [t \in Tables |-> tables[t]]
      BY <2>2, <3>1
    <3>3. QED
      BY <2>4, <3>2 DEF PartOf, Database
  <2>5. CASE SizeOf(c) # 0
    BY <1>2, <2>2, <2>3, <2>5 DEF PartOf
  <2>6. QED
    BY <2>4, <2>5
<1>3. QED
  BY <1>1, <1>2

\* Applying an event of a change takes the tables one event further.
LEMMA EntryApplies ==
  ASSUME NEW tables \in Database, NEW c \in Change, SelfConsistent(c),
         KeepsValueOf(tables, c), NEW j \in 1..SizeOf(c),
         NEW e, e.change = EntryOf(c, j)
  PROVE  Applied(PartOf(tables, c, j - 1), e) = PartOf(tables, c, j)
<1> DEFINE named == RelationsOf(Message(c))
           t == named[j]
           name == c.column[t]
           image == e.change.images
<1>1. /\ named \in Seq(Tables) /\ j \in DOMAIN named /\ t \in Tables /\ name \in Names
      /\ Message(c).kind = c.op.kind
  BY Relations, ChangeFields DEF SizeOf
<1>2. /\ e.change.table = t /\ e.change.operation = c.op.kind
      /\ image = Images(<<"id", name>>, Message(c))
  BY DEF EntryOf
<1>3. "id" # name
  BY <1>1 DEF Names
<1>4. CASE c.op.kind = "truncate"
  <2>1. t = c.op.tables[j]
    BY <1>4, Relations
  <2> HIDE DEF t
  <2> DEFINE part == PartOf(tables, c, j - 1)
  <2>2. Applied(part, e) = [part EXCEPT ![t] = [i \in {} |-> Null]]
    BY <1>2, <1>4 DEF Applied
  <2>3. part = [u \in Tables |-> IF \E i \in 1..(j - 1) : c.op.tables[i] = u
                                   THEN [i \in {} |-> Null] ELSE tables[u]]
    <3>1. CASE j = 1
      <4>1. \A u : ~\E i \in 1..(j - 1) : c.op.tables[i] = u
        BY <3>1
      <4>2. part = tables /\ tables = [u \in Tables |-> tables[u]]
        BY <3>1 DEF PartOf, Database
      <4>3. QED
        BY <4>1, <4>2
    <3>2. CASE j # 1
      <4>1. j - 1 # 0
        BY <3>2, Relations
      <4>2. QED
        BY <1>4, <4>1 DEF PartOf
    <3>3. QED
      BY <3>1, <3>2
  <2>4. PartOf(tables, c, j) = [u \in Tables |-> IF \E i \in 1..j : c.op.tables[i] = u
                                                   THEN [i \in {} |-> Null] ELSE tables[u]]
    BY <1>4, Relations DEF PartOf
  <2>5. \A u \in Tables : (\E i \in 1..j : c.op.tables[i] = u)
           <=> u = t \/ \E i \in 1..(j - 1) : c.op.tables[i] = u
    BY <2>1, Relations
  <2> HIDE DEF part
  <2>6. DOMAIN part = Tables /\ \A u \in Tables : u # t =>
           part[u] = PartOf(tables, c, j)[u]
    BY <2>3, <2>4, <2>5
  <2>7. PartOf(tables, c, j)[t] = [i \in {} |-> Null] /\ t \in Tables
    BY <1>1, <2>4, <2>5 DEF t
  <2>8. [part EXCEPT ![t] = [i \in {} |-> Null]]
          = [u \in Tables |-> IF u = t THEN [i \in {} |-> Null] ELSE part[u]]
    BY <2>3
  <2>9. PartOf(tables, c, j) = [u \in Tables |-> PartOf(tables, c, j)[u]]
    BY <2>4
  <2>10. QED
    <3> DEFINE whole == PartOf(tables, c, j)
    <3> HIDE DEF whole, t
    <3>1. \A u \in Tables : (IF u = t THEN [i \in {} |-> Null] ELSE part[u]) = whole[u]
      BY <2>6, <2>7 DEF whole
    <3>2. [u \in Tables |-> IF u = t THEN [i \in {} |-> Null] ELSE part[u]]
            = [u \in Tables |-> whole[u]]
      BY <3>1
    <3>3. QED
      BY <2>2, <2>8, <2>9, <3>2 DEF whole, part
<1>5. CASE c.op.kind # "truncate"
  <2>1. j = 1 /\ t = c.op.table /\ PartOf(tables, c, j - 1) = tables
        /\ PartOf(tables, c, j) = AfterOp(tables, c.op)
    BY <1>5, Relations DEF PartOf
  <2> HIDE DEF named, t, name, image
  <2> DEFINE rows == tables[t]
  <2>2. /\ c.op.kind = "insert" => image.beforeKind = "none"
        /\ c.op.kind \in {"insert", "update"} =>
              /\ image.unchanged = IF Marked(c) THEN {name} ELSE {}
              /\ image.after["id"] = c.op.newId
              /\ ~Marked(c) => OtherValue(image.after) = c.op.value
        /\ c.op.kind \in {"update", "delete"} =>
              /\ image.beforeKind # "none" => image.before["id"] = c.op.id
              /\ image.beforeKind = "none" => c.op.kind = "update" /\ c.op.newId = c.op.id
    <3>1. ImagesSay(image, name, c)
      BY <1>1, <1>2, <1>5, EventImages
    <3>2. QED
      BY <3>1 DEF ImagesSay
  <2>3. (IF image.beforeKind = "none" THEN image.after["id"] ELSE image.before["id"])
           = c.op.id
    BY <1>5, <2>2, ChangeFields DEF SelfConsistent
  <2>4. CASE c.op.kind = "insert"
    <3>1. OtherValue(image.after) = c.op.value
      BY <2>2, <2>4 DEF Marked
    <3>2. Applied(tables, e) = [tables EXCEPT ![t] = With(rows, c.op.id, c.op.value)]
      BY <1>2, <2>3, <2>4, <3>1 DEF Applied, image
    <3>3. QED
      BY <2>1, <2>4, <3>2 DEF AfterOp
  <2>5. CASE c.op.kind = "delete"
    <3>1. Applied(tables, e) = [tables EXCEPT ![t] = Without(rows, c.op.id)]
      BY <1>2, <2>3, <2>5 DEF Applied, image
    <3>2. QED
      BY <2>1, <2>5, <3>1 DEF AfterOp
  <2>6. CASE c.op.kind = "update"
    <3>1. (IF image.unchanged = {} THEN OtherValue(image.after) ELSE rows[c.op.id])
            = c.op.value
      <4>1. CASE Marked(c)
        <5>1. rows[c.op.id] = c.op.value
          BY <2>1, <4>1 DEF SelfConsistent, KeepsValueOf, Marked
        <5>2. QED
          BY <2>2, <2>6, <4>1, <5>1
      <4>2. CASE ~Marked(c)
        BY <2>2, <2>6, <4>2
      <4>3. QED
        BY <4>1, <4>2
    <3>2. image.after["id"] = c.op.newId
      BY <2>2, <2>6
    <3>3. Applied(tables, e)
            = [tables EXCEPT ![t] = With(Without(rows, c.op.id), c.op.newId, c.op.value)]
      BY <1>2, <2>3, <2>6, <3>1, <3>2 DEF Applied, image
    <3>4. QED
      BY <2>1, <2>6, <3>3 DEF AfterOp
  <2>7. QED
    BY <1>5, <2>4, <2>5, <2>6, ChangeFields
<1>6. QED
  BY <1>4, <1>5

\* f has the states of a consumer between the events.
IsConsumption(f, state, events) ==
    f = [k \in 0..Len(events) |-> IF k = 0 THEN state ELSE Consume(f[k - 1], events[k])]

\* The consumer ends up in the last of them.
LEMMA ConsumedIsLast ==
  ASSUME NEW state, NEW events, Len(events) \in Nat, NEW f,
         IsConsumption(f, state, events)
  PROVE  Consumed(state, events) = f[Len(events)]
<1> DEFINE n == Len(events)
           g == CHOOSE h : IsConsumption(h, state, events)
<1>1. Consumed(state, events) = g[n]
  BY DEF Consumed, IsConsumption
<1>2. IsConsumption(g, state, events)
  OBVIOUS
<1> HIDE DEF g
<1>3. Alike(f, g, n)
  BY <1>2 DEF IsConsumption, Alike
<1>4. n \in Nat
  OBVIOUS
<1> HIDE DEF n
<1>5. \A k \in 0..n : f[k] = g[k]
  BY <1>3, <1>4, SameIteration
<1>6. QED
  BY <1>1, <1>4, <1>5 DEF n

\* Events whose keys have been seen change nothing.
LEMMA RedeliveryIsSkipped ==
  ASSUME NEW state, NEW events, Len(events) \in Nat,
         \A i \in 1..Len(events) : \E old \in state.seen : Key(old) = Key(events[i])
  PROVE  Consumed(state, events) = state
<1> DEFINE n == Len(events)
           f == [k \in 0..n |-> state]
<1>1. \A k \in 1..n : k - 1 \in 0..n
  OBVIOUS
<1>2. \A k \in 1..n : Consume(f[k - 1], events[k]) = state
  BY <1>1 DEF Consume
<1>3. f = [k \in 0..n |-> IF k = 0 THEN state ELSE Consume(f[k - 1], events[k])]
  BY <1>2
<1>4. IsConsumption(f, state, events)
  BY <1>3 DEF IsConsumption
<1>5. f[n] = state
  OBVIOUS
<1> HIDE DEF f
<1>6. QED
  BY <1>4, <1>5, ConsumedIsLast

\* Changes that make sense one after the other, from given tables on.
MakeSense(tables, changes) ==
    \A k \in 1..Len(changes) :
       /\ SelfConsistent(changes[k])
       /\ KeepsValueOf(StatesOf(tables, changes)[k - 1], changes[k])

\* The events are those of the changes, numbered.
AreEventsOf(events, changes) ==
    /\ Len(events) = EventsUpTo(changes)[Len(changes)]
    /\ \A k \in 1..Len(changes) : \A j \in 1..SizeOf(changes[k]) :
          events[EventsUpTo(changes)[k - 1] + j].change = EntryOf(changes[k], j)
    /\ \A i \in 1..Len(events) : events[i].index = i - 1

\* The tables after the first i events.
TablesAfter(tables, changes, i) ==
    IF i = 0 THEN tables
    ELSE LET upTo == EventsUpTo(changes)
             k == CHOOSE l \in 1..Len(changes) :
                     \E j \in 1..SizeOf(changes[l]) : i = upTo[l - 1] + j
         IN  PartOf(StatesOf(tables, changes)[k - 1], changes[k], i - upTo[k - 1])

\* They are what the changes before, and the events of the change so far, made
\* of the tables.
LEMMA TablesAtPlace ==
  ASSUME NEW tables \in Database, NEW changes \in Seq(Change),
         NEW k \in 1..Len(changes), NEW j \in 0..SizeOf(changes[k])
  PROVE  TablesAfter(tables, changes, EventsUpTo(changes)[k - 1] + j)
           = PartOf(StatesOf(tables, changes)[k - 1], changes[k], j)
<1> DEFINE n == Len(changes)
           g == EventsUpTo(changes)
           states == StatesOf(tables, changes)
<1>1. /\ g \in [0..n -> Nat] /\ n \in Nat /\ g[0] = 0 /\ k \in 1..n
      /\ \A q \in 1..n : /\ g[q] = g[q - 1] + SizeOf(changes[q])
                         /\ q - 1 \in 0..n /\ g[q - 1] \in Nat
                         /\ SizeOf(changes[q]) \in Nat \ {0}
  BY EventCounts
<1>2. /\ states[0] = tables /\ states \in [0..n -> Database]
      /\ \A q \in 1..n : states[q] = AfterOp(states[q - 1], changes[q].op)
  BY StateSteps
<1>3. ASSUME NEW l \in 1..n, NEW h \in 1..SizeOf(changes[l])
      PROVE  TablesAfter(tables, changes, g[l - 1] + h) = PartOf(states[l - 1], changes[l], h)
  <2> DEFINE i == g[l - 1] + h
             p == CHOOSE q \in 1..n : \E z \in 1..SizeOf(changes[q]) : i = g[q - 1] + z
  <2>1. p \in 1..n /\ \E z \in 1..SizeOf(changes[p]) : i = g[p - 1] + z
    OBVIOUS
  <2> HIDE DEF p
  <2>2. p = l
    BY <2>1, PlaceIsUnique
  <2>3. g[l - 1] \in Nat /\ h \in Nat /\ h # 0
    <3> HIDE DEF n, g
    <3>1. SizeOf(changes[l]) \in Nat /\ g[l - 1] \in Nat
      BY <1>1
    <3>2. QED
      BY <3>1
  <2>4. i # 0 /\ i - g[l - 1] = h
    BY <2>3
  <2>5. TablesAfter(tables, changes, i) = PartOf(states[p - 1], changes[p], i - g[p - 1])
    BY <2>4 DEF TablesAfter, p
  <2> HIDE DEF i, states, g
  <2>6. QED
    BY <2>2, <2>4, <2>5 DEF i, states, g
<1>4. CASE j # 0
  <2>1. j \in 1..SizeOf(changes[k])
    BY <1>1, <1>4
  <2>2. QED
    BY <1>3, <2>1
<1>5. CASE j = 0
  <2>1. k - 1 \in 0..n
    BY <1>1
  <2>2. g[k - 1] + j = g[k - 1]
    BY <1>1, <1>5, <2>1
  <2>3. PartOf(states[k - 1], changes[k], j) = states[k - 1]
    BY <1>5 DEF PartOf
  <2>4. TablesAfter(tables, changes, g[k - 1]) = states[k - 1]
    <3>1. CASE k = 1
      BY <1>1, <1>2, <3>1 DEF TablesAfter
    <3>2. CASE k # 1
      <4> DEFINE l == k - 1
      <4>1. l \in 1..n /\ l - 1 \in 0..n
        BY <1>1, <3>2
      <4>2. g[l] = g[l - 1] + SizeOf(changes[l]) /\ SizeOf(changes[l]) \in 1..SizeOf(changes[l])
        <5> HIDE DEF l, g, n
        <5>1. g[l] = g[l - 1] + SizeOf(changes[l]) /\ SizeOf(changes[l]) \in Nat \ {0}
          BY <1>1, <4>1
        <5>2. QED
          BY <5>1
      <4>3. states[l] = AfterOp(states[l - 1], changes[l].op) /\ states[l - 1] \in Database
        BY <1>2, <4>1
      <4>4. changes[l] \in Change
        BY <4>1
      <4> HIDE DEF l, states, g, n
      <4>5. TablesAfter(tables, changes, g[l]) = PartOf(states[l - 1], changes[l], SizeOf(changes[l]))
        BY <1>3, <4>1, <4>2
      <4>6. PartOf(states[l - 1], changes[l], SizeOf(changes[l])) = states[l]
        BY <4>3, <4>4, WholeChange
      <4>7. QED
        BY <4>5, <4>6 DEF l
    <3>3. QED
      BY <3>1, <3>2
  <2>5. QED
    BY <2>2, <2>3, <2>4
<1>6. QED
  BY <1>1, <1>4, <1>5

\* Events whose keys have not been seen make of the tables what the changes
\* made of them.
LEMMA FirstDelivery ==
  ASSUME NEW tables \in Database, NEW changes \in Seq(Change), MakeSense(tables, changes),
         NEW events, AreEventsOf(events, changes), NEW old,
         \A e \in old : \A i \in 1..Len(events) : Key(e) # Key(events[i])
  PROVE  Consumed([seen |-> old, replica |-> tables], events)
           = [seen |-> old \cup {events[i] : i \in 1..Len(events)},
              replica |-> StatesOf(tables, changes)[Len(changes)]]
<1> DEFINE n == Len(changes)
           g == EventsUpTo(changes)
           m == Len(events)
           states == StatesOf(tables, changes)
           At(i) == TablesAfter(tables, changes, i)
           state == [seen |-> old, replica |-> tables]
           f == [i \in 0..m |-> [seen |-> old \cup {events[q] : q \in 1..i}, replica |-> At(i)]]
<1>1. /\ g \in [0..n -> Nat] /\ n \in Nat /\ g[0] = 0 /\ m \in Nat /\ m = g[n]
      /\ \A k \in 1..n : /\ g[k] = g[k - 1] + SizeOf(changes[k])
                         /\ k \in 0..n /\ k - 1 \in 0..n /\ g[k - 1] \in Nat
                         /\ SizeOf(changes[k]) \in Nat \ {0}
  BY EventCounts DEF AreEventsOf
<1>2. /\ states[0] = tables /\ states \in [0..n -> Database]
      /\ \A q \in 1..n : states[q] = AfterOp(states[q - 1], changes[q].op)
  BY StateSteps
<1>3. At(0) = tables
  BY DEF TablesAfter
<1>4. At(m) = states[n]
  <2>1. CASE n = 0
    BY <1>1, <1>2, <1>3, <2>1
  <2>2. CASE n # 0
    <3>1. n \in 1..n /\ n - 1 \in 0..n
      BY <1>1, <2>2
    <3>2. /\ SizeOf(changes[n]) \in 0..SizeOf(changes[n]) /\ m = g[n - 1] + SizeOf(changes[n])
          /\ states[n - 1] \in Database /\ states[n] = AfterOp(states[n - 1], changes[n].op)
      <4> HIDE DEF states, n, g, m
      <4>1. SizeOf(changes[n]) \in 0..SizeOf(changes[n]) /\ m = g[n - 1] + SizeOf(changes[n])
        BY <1>1, <3>1
      <4>2. states[n - 1] \in Database /\ states[n] = AfterOp(states[n - 1], changes[n].op)
        BY <1>2, <3>1
      <4>3. QED
        BY <4>1, <4>2
    <3>3. At(m) = PartOf(states[n - 1], changes[n], SizeOf(changes[n]))
      BY <3>1, <3>2, TablesAtPlace
    <3>4. PartOf(states[n - 1], changes[n], SizeOf(changes[n])) = states[n]
      BY <3>1, <3>2, WholeChange
    <3>5. QED
      BY <3>3, <3>4
  <2>3. QED
    BY <2>1, <2>2
<1>5. ASSUME NEW i \in 1..m
      PROVE  Applied(At(i - 1), events[i]) = At(i)
  <2>1. i \in 1..EventsUpTo(changes)[n] /\ n \in 0..Len(changes)
    BY <1>1
  <2>2. PICK k \in 1..n : \E j \in 1..SizeOf(changes[k]) : i = g[k - 1] + j
    BY <2>1, EventPlace
  <2>3. PICK j \in 1..SizeOf(changes[k]) : i = g[k - 1] + j
    BY <2>2
  <2>4. k - 1 \in 0..n
    BY <1>1
  <2>5. /\ g[k - 1] \in Nat /\ states[k - 1] \in Database /\ changes[k] \in Change
        /\ j \in 0..SizeOf(changes[k]) /\ j - 1 \in 0..SizeOf(changes[k])
        /\ i - 1 = g[k - 1] + (j - 1)
    <3>1. changes[k] \in Change
      OBVIOUS
    <3> HIDE DEF states, n, g, m
    <3>2. g[k - 1] \in Nat /\ SizeOf(changes[k]) \in Nat /\ states[k - 1] \in Database
      BY <1>1, <1>2, <2>4
    <3>3. QED
      BY <2>3, <3>1, <3>2
  <2>6. At(i) = PartOf(states[k - 1], changes[k], j)
    BY <2>3, <2>5, TablesAtPlace
  <2>7. At(i - 1) = PartOf(states[k - 1], changes[k], j - 1)
    BY <2>5, TablesAtPlace
  <2>8. SelfConsistent(changes[k]) /\ KeepsValueOf(states[k - 1], changes[k])
    BY DEF MakeSense
  <2>9. events[i].change = EntryOf(changes[k], j)
    BY <2>3 DEF AreEventsOf
  <2> HIDE DEF At, states
  <2>10. Applied(PartOf(states[k - 1], changes[k], j - 1), events[i])
           = PartOf(states[k - 1], changes[k], j)
    BY <2>5, <2>8, <2>9, EntryApplies
  <2>11. QED
    BY <2>6, <2>7, <2>10
<1>6. \A i, q \in 1..m : i # q => Key(events[i]) # Key(events[q])
  BY <1>1 DEF AreEventsOf, Key
<1> HIDE DEF At
<1>7. ASSUME NEW i \in 1..m
      PROVE  f[i] = Consume(f[i - 1], events[i])
  <2>1. i - 1 \in 0..m /\ i \in 0..m
    BY <1>1
  <2> DEFINE before == old \cup {events[q] : q \in 1..(i - 1)}
             after == old \cup {events[q] : q \in 1..i}
  <2>2. /\ f[i - 1] = [seen |-> before, replica |-> At(i - 1)]
        /\ f[i] = [seen |-> after, replica |-> At(i)]
    BY <2>1
  <2> HIDE DEF f
  <2>3. ~\E e \in f[i - 1].seen : Key(e) = Key(events[i])
    <3>1. \A q \in 1..(i - 1) : q \in 1..m /\ q # i
      BY <1>1
    <3>2. \A q \in 1..(i - 1) : Key(events[q]) # Key(events[i])
      BY <1>6, <3>1
    <3>3. \A e \in old : Key(e) # Key(events[i])
      OBVIOUS
    <3>4. QED
      BY <2>2, <3>2, <3>3
  <2>4. before \cup {events[i]} = after
    <3>1. 1..i = 1..(i - 1) \cup {i}
      BY <1>1
    <3>2. QED
      BY <3>1
  <2> HIDE DEF before, after, m, g, n, states
  <2>5. f[i - 1].seen = before /\ f[i - 1].replica = At(i - 1)
    BY <2>2
  <2>6. Consume(f[i - 1], events[i])
          = [seen |-> before \cup {events[i]}, replica |-> Applied(At(i - 1), events[i])]
    BY <2>3, <2>5 DEF Consume
  <2>7. QED
    BY <1>5, <2>2, <2>4, <2>6
<1>8. f[0] = state
  <2>1. 0 \in 0..m /\ {events[q] : q \in 1..0} = {}
    BY <1>1
  <2>2. QED
    BY <1>3, <2>1
<1>9. IsConsumption(f, state, events)
  <2>1. f = [i \in 0..m |-> f[i]]
    OBVIOUS
  <2>2. m \in Nat
    BY <1>1
  <2> HIDE DEF f, state, m
  <2>3. \A i \in 0..m : f[i] = IF i = 0 THEN state ELSE Consume(f[i - 1], events[i])
    BY <1>7, <1>8, <2>2
  <2>4. f = [i \in 0..m |-> IF i = 0 THEN state ELSE Consume(f[i - 1], events[i])]
    BY <2>1, <2>3
  <2>5. QED
    BY <2>4 DEF IsConsumption, m
<1>10. f[m] = [seen |-> old \cup {events[q] : q \in 1..m}, replica |-> states[n]]
  <2>1. m \in 0..m
    BY <1>1
  <2> HIDE DEF m, n, states
  <2>2. f[m] = [seen |-> old \cup {events[q] : q \in 1..m}, replica |-> At(m)]
    BY <2>1
  <2>3. QED
    BY <1>4, <2>2
<1> HIDE DEF f, state, states
<1>11. Consumed(state, events) = f[m]
  BY <1>1, <1>9, ConsumedIsLast
<1>12. QED
  BY <1>10, <1>11 DEF state, states
-----------------------------------------------------------------------------
(* The steps.                                                              *)

\* A finite set has a sequence of its elements.
LEMMA SequenceOfSet ==
  ASSUME NEW S, IsFiniteSet(S), S # {}
  PROVE  SetToSeq(S) \in Seq(S) \ {<<>>}
<1> DEFINE n == Cardinality(S)
<1>1. n \in Nat /\ Bijection(1..n, S) # {}
  BY FS_CardinalityType DEF ExistsBijection
<1>2. PICK f \in [1..n -> S] : IsInjective(f)
  BY <1>1 DEF Bijection, Injection
<1>3. SetToSeq(S) \in [1..n -> S]
  BY <1>2 DEF SetToSeq
<1>4. n # 0
  BY FS_EmptySet
<1>5. QED
  BY <1>1, <1>3, <1>4

\* What the server writes.
LEMMA WritesAreOperations ==
  ASSUME Types,
         NEW op \in (UNION {Inserts(t) \cup Updates(t) \cup Deletes(t) : t \in Tables})
                      \cup Truncates
  PROVE  /\ op \in Operation
         /\ op.kind \in {"update", "delete"} => db[op.table][op.id] \in Cells
         /\ op.kind = "insert" => op.newId = op.id
         /\ op.kind = "update" /\ ~op.sentWhole => op.value = db[op.table][op.id]
<1>1. \A t \in Tables : DOMAIN db[t] \subseteq Ids
                        /\ \A i \in DOMAIN db[t] : db[t][i] \in Cells
  BY DEF Types, Database, Rows
<1>2. CASE op \in Truncates
  <2>1. PICK s \in (SUBSET Tables) \ {{}} :
           op = Op("truncate", Nothing, Nothing, Nothing, Null, TRUE, SetToSeq(s))
    BY <1>2 DEF Truncates
  <2>2. IsFiniteSet(s)
    BY AssemblerAssumption, FS_Subset
  <2>3. SetToSeq(s) \in Seq(Tables) \ {<<>>}
    <3>1. s # {} /\ s \subseteq Tables
      OBVIOUS
    <3>2. SetToSeq(s) \in Seq(s) \ {<<>>}
      BY <2>2, <3>1, SequenceOfSet
    <3>3. QED
      BY <3>1, <3>2
  <2>4. op \in Operation /\ op.kind = "truncate"
    BY <2>1, <2>3 DEF Op, Operation
  <2>5. QED
    BY <2>4
<1>3. ASSUME NEW t \in Tables, op \in Inserts(t)
      PROVE  op \in Operation /\ op.kind = "insert" /\ op.newId = op.id
  <2>1. PICK i \in Ids, v \in Cells : op = Op("insert", t, i, i, v, TRUE, <<>>)
    BY <1>3 DEF Inserts, Op
  <2>2. QED
    BY <2>1 DEF Op, Operation
<1>4. ASSUME NEW t \in Tables, op \in Updates(t)
      PROVE  /\ op \in Operation /\ op.kind = "update" /\ db[op.table][op.id] \in Cells
             /\ ~op.sentWhole => op.value = db[op.table][op.id]
  <2>1. PICK i \in DOMAIN db[t], j \in Ids :
           \/ \E v \in Cells : op = Op("update", t, i, j, v, TRUE, <<>>)
           \/ op = Op("update", t, i, j, db[t][i], FALSE, <<>>)
    BY <1>4 DEF Updates, Op
  <2>2. i \in Ids /\ db[t][i] \in Cells
    BY <1>1
  <2>3. CASE \E v \in Cells : op = Op("update", t, i, j, v, TRUE, <<>>)
    <3>1. PICK v \in Cells : op = Op("update", t, i, j, v, TRUE, <<>>)
      BY <2>3
    <3>2. QED
      BY <2>2, <3>1 DEF Op, Operation
  <2>4. CASE op = Op("update", t, i, j, db[t][i], FALSE, <<>>)
    BY <2>2, <2>4 DEF Op, Operation
  <2>5. QED
    BY <2>1, <2>3, <2>4
<1>5. ASSUME NEW t \in Tables, op \in Deletes(t)
      PROVE  op \in Operation /\ op.kind = "delete" /\ db[op.table][op.id] \in Cells
  <2>1. PICK i \in DOMAIN db[t] : op = Op("delete", t, i, i, db[t][i], TRUE, <<>>)
    BY <1>5 DEF Deletes
  <2>2. i \in Ids /\ db[t][i] \in Cells
    BY <1>1
  <2>3. QED
    BY <2>1, <2>2 DEF Op, Operation
<1>6. CASE op \notin Truncates
  <2> DEFINE ops == {Inserts(t) \cup Updates(t) \cup Deletes(t) : t \in Tables}
  <2>1. op \in UNION ops
    BY <1>6
  <2>2. PICK t \in Tables : op \in Inserts(t) \cup Updates(t) \cup Deletes(t)
    BY <2>1
  <2>3. op \in Inserts(t) \/ op \in Updates(t) \/ op \in Deletes(t)
    BY <2>2
  <2>4. QED
    BY <1>3, <1>4, <1>5, <2>3
<1>7. QED
  BY <1>2, <1>6

\* What reached the consumer is true as long as its transactions are.
LEMMA ConsumerFrame ==
  ASSUME Types, ConsumerShape, UNCHANGED <<emitted, seen, replica>>,
         \A n \in 1..emitted : history'[n] = history[n]
  PROVE  ConsumerShape' /\ Base' = Base
<1>1. Base' = Base
  BY DEF Base, Types
<1>2. replica' = Base' /\ \A e \in seen' : e.xid \in 1..emitted'
  BY <1>1 DEF ConsumerShape
<1>3. EventsAreTrue'
  <2>1. ASSUME NEW e \in seen
        PROVE  \E k \in DOMAIN history'[e.xid].changes : Tells(e, history'[e.xid].changes[k])
    <3>1. history'[e.xid] = history[e.xid]
      BY DEF ConsumerShape
    <3>2. QED
      BY <3>1 DEF ConsumerShape, EventsAreTrue
  <2>2. seen' = seen
    OBVIOUS
  <2>3. QED
    BY <2>1, <2>2 DEF EventsAreTrue
<1>4. ASSUME NEW n \in 1..emitted, NEW k \in 1..Len(history'[n].changes),
             NEW j \in 1..SizeOf(history'[n].changes[k])
      PROVE  \E e \in seen' : Key(e) = <<history'[n].changes[k].lsn,
                                EventsUpTo(history'[n].changes)[k - 1] + j - 1>>
  <2>1. history'[n] = history[n]
    OBVIOUS
  <2>2. seen' = seen
    OBVIOUS
  <2>3. QED
    BY <2>1, <2>2 DEF ConsumerShape
<1>5. QED
  BY <1>1, <1>2, <1>3, <1>4 DEF ConsumerShape

\* The limit was kept for the transactions that reached the consumer.
LEMMA LimitFrame ==
  ASSUME LimitShape, UNCHANGED emitted, failure' # "transaction_too_large",
         \A n \in 1..emitted : history'[n] = history[n]
  PROVE  LimitShape'
BY DEF LimitShape, LimitIsExact

\* The tables of the consumer are tables.
LEMMA BaseIsDatabase ==
  ASSUME history \in Seq(Transaction), emitted \in Nat, emitted <= Len(history)
  PROVE  Base \in Database
<1>1. CASE emitted = 0
  <2>1. [i \in {} |-> Null] \in [{} -> Cells] /\ {} \in SUBSET Ids
    OBVIOUS
  <2>2. [i \in {} |-> Null] \in Rows
    BY <2>1 DEF Rows
  <2>3. QED
    BY <1>1, <2>2 DEF Base, Empty, Database
<1>2. CASE emitted # 0
  <2>1. history[emitted] \in Transaction
    BY <1>2
  <2>2. QED
    BY <1>2, <2>1 DEF Base, Transaction
<1>3. QED
  BY <1>1, <1>2

\* A change that has not been sent.
LEMMA NextIsChange ==
  ASSUME IInv, midway, sent < Len(history[nth].changes)
  PROVE  /\ nth \in 1..Len(history) /\ history[nth].changes \in Seq(Change)
         /\ sent \in Nat /\ sent + 1 \in 1..Len(history[nth].changes)
         /\ NextChange \in Change
<1>1. nth \in 1..Len(history) /\ history \in Seq(Transaction) /\ sent \in Nat
  BY DEF IInv, Types, SenderShape
<1>2. history[nth] \in Transaction
  BY <1>1
<1>3. history[nth].changes \in Seq(Change)
  BY <1>2 DEF Transaction
<1>4. sent + 1 \in 1..Len(history[nth].changes)
  BY <1>1, <1>3
<1>5. QED
  BY <1>1, <1>3, <1>4 DEF NextChange

\* The invariant holds at the start.
LEMMA InitHolds == Init => IInv
<1> SUFFICES ASSUME Init PROVE IInv
  OBVIOUS
<1> USE DEF Init
<1>1. Empty \in Database
  <2>1. [i \in {} |-> Null] \in [{} -> Cells] /\ {} \in SUBSET Ids
    OBVIOUS
  <2>2. [i \in {} |-> Null] \in Rows
    BY <2>1 DEF Rows
  <2>3. QED
    BY <2>2 DEF Empty, Database
<1>2. Types
  <2>1. column \in [Tables -> Names] /\ history \in Seq(Transaction)
    BY DEF Names
  <2>2. db \in Database
    BY <1>1
  <2>3. QED
    BY <2>1, <2>2 DEF Types
<1>3. Len(history) = 0 /\ 1..Len(history) = {} /\ 1..emitted = {}
  OBVIOUS
<1>4. HistoryShape /\ LsnShape
  BY <1>3 DEF HistoryShape, LsnShape
<1>5. DbShape
  BY <1>3 DEF DbShape, Base
<1>6. SenderShape
  BY DEF SenderShape
<1>7. CacheShape
  BY DEF CacheShape
<1>8. OpenShape
  BY DEF OpenShape, IsEmpty
<1>9. ConsumerShape /\ LimitShape
  BY <1>3 DEF ConsumerShape, LimitShape, EventsAreTrue, LimitIsExact, Base
<1>10. QED
  BY <1>2, <1>4, <1>5, <1>6, <1>7, <1>8, <1>9 DEF IInv

\* A column is renamed.
LEMMA RenameKeeps ==
  ASSUME IInv, NEW t \in Tables, Rename(t)
  PROVE  IInv'
<1> USE DEF IInv, Rename, serverVars, senderVars, consumerVars
<1>1. Types'
  BY DEF Types, Names
<1>2. HistoryShape' /\ LsnShape' /\ SenderShape'
  BY DEF HistoryShape, LsnShape, SenderShape
<1>3. DbShape'
  BY DEF DbShape, Base
<1>4. CacheShape'
  BY DEF CacheShape
<1>5. OpenShape'
  BY DEF OpenShape, IsEmpty, Buffered
<1>6. ConsumerShape'
  BY ConsumerFrame
<1>7. LimitShape'
  BY DEF LimitShape, LimitIsExact
<1>8. QED
  BY <1>1, <1>2, <1>3, <1>4, <1>5, <1>6, <1>7

\* A RELATION is sent and cached.
LEMMA SendRelationKeeps ==
  ASSUME IInv, SendRelation
  PROVE  IInv'
<1>1. PICK t \in Unannounced(NextChange) :
         /\ announced' = [announced EXCEPT ![t] = <<NextChange.column[t]>>]
         /\ cache' = CachePut(t, <<"id", NextChange.column[t]>>)
  BY DEF SendRelation
<1>2. /\ UNCHANGED <<history, db, column, lsn, nth, sent, midway, open, failure>>
      /\ UNCHANGED <<seen, replica, emitted, confirmed>>
      /\ failure = "none" /\ midway /\ sent < Len(history[nth].changes)
  BY DEF SendRelation, serverVars, consumerVars
<1> USE DEF IInv
<1>3. t \in Tables /\ NextChange.column[t] \in Names
  <2>1. NextChange \in Change
    BY <1>2, NextIsChange
  <2>2. RelationsOf(Message(NextChange)) \in Seq(Tables)
    BY <2>1, Relations
  <2>3. t \in Tables
    BY <2>2 DEF Unannounced, ToSet
  <2>4. QED
    BY <2>1, <2>3, ChangeFields
<1>4. Types'
  BY <1>2 DEF Types
<1>5. HistoryShape' /\ LsnShape' /\ SenderShape'
  BY <1>2 DEF HistoryShape, LsnShape, SenderShape
<1>6. DbShape'
  BY <1>2 DEF DbShape, Base
<1>7. CacheShape'
  <2> DEFINE name == NextChange.column[t]
  <2>1. announced' = [announced EXCEPT ![t] = <<name>>]
        /\ cache' = [cache EXCEPT ![t] = <<"id", name>>] /\ name \in Names
    BY <1>1, <1>3 DEF CachePut
  <2> HIDE DEF name
  <2>2. announced' \in [Tables -> {Nothing} \cup {<<n>> : n \in Names}]
    BY <1>3, <2>1 DEF CacheShape
  <2>3. cache' = [u \in Tables |-> IF announced'[u] = Nothing THEN Nothing
                                   ELSE <<"id", announced'[u][1]>>]
    <3>1. <<name>> # Nothing /\ <<name>>[1] = name
      BY DEF Nothing
    <3>2. cache' = [u \in Tables |-> IF u = t THEN <<"id", name>> ELSE cache[u]]
      BY <2>1 DEF CacheShape
    <3>3. \A u \in Tables : announced'[u] = IF u = t THEN <<name>> ELSE announced[u]
      BY <2>1 DEF CacheShape
    <3>4. \A u \in Tables : cache[u] = IF announced[u] = Nothing THEN Nothing
                                       ELSE <<"id", announced[u][1]>>
      BY DEF CacheShape
    <3>5. QED
      BY <3>1, <3>2, <3>3, <3>4
  <2>4. QED
    BY <2>2, <2>3 DEF CacheShape
<1>8. OpenShape'
  BY <1>2 DEF OpenShape, IsEmpty, Buffered
<1>9. ConsumerShape'
  BY <1>2, ConsumerFrame
<1>10. LimitShape'
  BY <1>2, LimitFrame
<1>11. QED
  BY <1>4, <1>5, <1>6, <1>7, <1>8, <1>9, <1>10

\* A message that cannot come from PostgreSQL ends the process.
LEMMA MalformedKeeps ==
  ASSUME IInv, NEW msg, Malformed(msg)
  PROVE  IInv'
<1> USE DEF IInv, Malformed, Fail, serverVars, senderVars, consumerVars
<1>1. failure' \in {"decode", "unknown_relation"}
  OBVIOUS
<1>2. /\ UNCHANGED <<history, db, column, lsn, nth, sent, midway, announced, cache, open>>
      /\ UNCHANGED <<seen, replica, emitted, confirmed>>
  OBVIOUS
<1> HIDE DEF Malformed
<1>3. Types'
  BY <1>1, <1>2 DEF Types
<1>4. HistoryShape' /\ LsnShape' /\ SenderShape'
  BY <1>2 DEF HistoryShape, LsnShape, SenderShape
<1>5. DbShape'
  BY <1>2 DEF DbShape, Base
<1>6. CacheShape'
  BY <1>2 DEF CacheShape
<1>7. OpenShape'
  BY <1>2 DEF OpenShape, IsEmpty, Buffered
<1>8. ConsumerShape'
  BY <1>2, ConsumerFrame
<1>9. LimitShape'
  BY <1>1, <1>2, LimitFrame
<1>10. QED
  BY <1>3, <1>4, <1>5, <1>6, <1>7, <1>8, <1>9

\* A drop, or a new process.
LEMMA RestartKeeps ==
  ASSUME IInv, Restart
  PROVE  IInv'
<1> USE DEF IInv
<1>1. PICK slot \in confirmed..emitted : confirmed' = slot /\ nth' = slot + 1
  BY DEF Restart
<1>2. /\ slot \in Nat /\ slot <= emitted /\ emitted \in Nat
       /\ slot + 1 \in 1..(emitted + 1) /\ slot + 1 \in Nat
  BY DEF Types, SenderShape
<1>3. /\ UNCHANGED <<history, db, column, lsn, seen, replica, emitted>>
      /\ sent' = 0 /\ midway' = FALSE /\ failure' = "none"
      /\ announced' = [t \in Tables |-> Nothing] /\ cache' = [t \in Tables |-> Nothing]
      /\ open' = Nothing
  BY DEF Restart, serverVars, consumerVars
<1>4. Types'
  <2>1. nth' \in Nat /\ sent' \in Nat /\ midway' \in BOOLEAN /\ confirmed' \in Nat
        /\ failure' = "none"
    <3>1. sent' = 0 /\ failure' = "none"
      BY <1>3
    <3>2. midway' \in BOOLEAN
      BY <1>3
    <3>3. nth' \in Nat /\ confirmed' \in Nat
      BY <1>1, <1>2
    <3>4. QED
      BY <3>1, <3>2, <3>3
  <2>2. UNCHANGED <<history, db, column, lsn, emitted>>
    BY <1>3
  <2>3. QED
    BY <2>1, <2>2 DEF Types
<1>5. HistoryShape' /\ LsnShape'
  BY <1>3 DEF HistoryShape, LsnShape
<1>6. SenderShape'
  <2>1. nth' \in 1..(emitted' + 1) /\ confirmed' <= emitted' /\ ~midway'
    <3>1. nth' \in 1..(emitted + 1) /\ confirmed' <= emitted
      BY <1>1, <1>2
    <3>2. QED
      BY <1>3, <3>1
  <2>2. QED
    BY <2>1 DEF SenderShape
<1>7. DbShape'
  BY <1>3 DEF DbShape, Base
<1>8. CacheShape'
  BY <1>3 DEF CacheShape
<1>9. OpenShape'
  BY <1>3 DEF OpenShape, IsEmpty
<1>10. ConsumerShape'
  BY <1>3, ConsumerFrame
<1>11. LimitShape'
  BY <1>3, LimitFrame
<1>12. QED
  BY <1>4, <1>5, <1>6, <1>7, <1>8, <1>9, <1>10, <1>11

\* BEGIN of the next transaction, or of one that is sent again.
LEMMA BeginKeeps ==
  ASSUME IInv, Begin
  PROVE  IInv'
<1> USE DEF IInv, Begin
<1> DEFINE new == [changes |-> <<>>, closed |-> FALSE, after |-> db]
<1>1. /\ UNCHANGED <<db, column, lsn, nth, announced, cache, failure, seen, replica, emitted>>
      /\ UNCHANGED confirmed
      /\ ~midway /\ failure = "none" /\ midway' = TRUE /\ sent' = 0 /\ open' = <<<<>>>>
      /\ history' = IF nth > Len(history) THEN Append(history, new) ELSE history
  BY DEF consumerVars
<1> HIDE DEF Begin
<1>2. /\ history \in Seq(Transaction) /\ Len(history) \in Nat /\ new \in Transaction
      /\ emitted \in Nat /\ nth \in Nat /\ nth <= emitted + 1
      /\ Len(history) = emitted \/ Len(history) = emitted + 1
  BY DEF Types, Transaction, HistoryShape, SenderShape
<1> HIDE DEF new
<1>3. /\ nth > Len(history) => Len(history) = emitted /\ nth = emitted + 1
      /\ history' \in Seq(Transaction) /\ nth <= Len(history')
      /\ Len(history') = emitted \/ Len(history') = emitted + 1
      /\ \A n \in 1..Len(history) : n \in 1..Len(history') /\ history'[n] = history[n]
      /\ \A n \in 1..Len(history') : n \notin 1..Len(history) =>
            n = emitted + 1 /\ nth > Len(history) /\ history'[n] = new
  <2>1. CASE nth > Len(history)
    <3>1. Len(history) = emitted /\ nth = emitted + 1
      BY <1>2, <2>1
    <3>2. /\ history' = Append(history, new) /\ Len(history') = Len(history) + 1
          /\ \A n \in 1..Len(history) : history'[n] = history[n]
          /\ history'[Len(history) + 1] = new /\ history' \in Seq(Transaction)
      BY <1>1, <1>2, <2>1
    <3>3. QED
      BY <1>2, <2>1, <3>1, <3>2
  <2>2. CASE ~(nth > Len(history))
    BY <1>1, <1>2, <2>2
  <2>3. QED
    BY <2>1, <2>2
<1>4. new.changes = <<>> /\ Len(new.changes) = 0 /\ new.closed = FALSE /\ new.after = db
  BY DEF new
<1>5. Types'
  BY <1>1, <1>3 DEF Types
<1>6. HistoryShape'
  <2>1. \A n \in 1..Len(history') : history'[n].closed <=> n <= emitted
    BY <1>2, <1>3, <1>4 DEF HistoryShape
  <2>2. ASSUME NEW n \in 1..Len(history'), NEW k \in 1..Len(history'[n].changes)
        PROVE  SelfConsistent(history'[n].changes[k])
    BY <1>3, <1>4 DEF HistoryShape
  <2>3. QED
    BY <1>1, <1>3, <2>1, <2>2 DEF HistoryShape
<1>7. LsnShape'
  <2>1. ASSUME NEW n \in 1..Len(history'), NEW k \in 1..Len(history'[n].changes)
        PROVE  n \in 1..Len(history) /\ history'[n] = history[n]
    BY <1>3, <1>4
  <2>2. QED
    BY <1>1, <2>1 DEF LsnShape
<1>8. Base' = Base
  <2>1. emitted # 0 => emitted \in 1..Len(history)
    BY <1>2
  <2>2. QED
    BY <1>1, <1>3, <2>1 DEF Base
<1>9. DbShape'
  <2>1. CASE nth > Len(history)
    <3>1. Len(history') = emitted + 1 /\ history'[emitted + 1] = new
      BY <1>2, <1>3, <2>1
    <3>2. db = Base /\ db \in Database
      BY <1>3, <2>1 DEF DbShape, Types
    <3>3. StatesOf(Base, <<>>)[0] = Base
      <4>1. Base \in Database /\ <<>> \in Seq(Change)
        BY <3>2
      <4>2. QED
        BY <4>1, StateSteps
    <3>4. history'[emitted + 1].changes = <<>>
      BY <1>4, <3>1
    <3>5. Len(history') # emitted
      BY <1>2, <3>1
    <3>6. QED
      BY <1>1, <1>8, <3>2, <3>3, <3>4, <3>5 DEF DbShape
  <2>2. CASE ~(nth > Len(history))
    BY <1>1, <1>8, <2>2 DEF DbShape
  <2>3. QED
    BY <2>1, <2>2
<1>10. history'[nth].changes \in Seq(Change)
  <2>1. nth \in 1..Len(history')
    BY <1>2, <1>3 DEF SenderShape
  <2>2. history'[nth] \in Transaction
    BY <1>3, <2>1
  <2>3. QED
    BY <2>2 DEF Transaction
<1>11. SenderShape'
  <2>1. 0 <= Len(history'[nth].changes)
    BY <1>10
  <2>2. QED
    BY <1>1, <1>3, <2>1 DEF SenderShape
<1>12. CacheShape'
  BY <1>1 DEF CacheShape
<1>13. OpenShape'
  <2>1. EventsUpTo(history'[nth].changes)[0] = 0
    BY <1>10, EventCounts
  <2>2. /\ open' = <<Buffered>>' /\ Buffered' = <<>> /\ Buffered' \in Seq(ToSet(Buffered'))
        /\ ~IsEmpty' /\ Len(Buffered') = 0
    BY <1>1 DEF Buffered, IsEmpty, Nothing
  <2>3. 0 <= MaxEvents
    BY AssemblerAssumption
  <2>4. midway' /\ nth' = nth /\ sent' = 0 /\ 1..sent' = {}
    BY <1>1
  <2>5. QED
    BY <2>1, <2>2, <2>3, <2>4 DEF OpenShape
<1>14. \A n \in 1..emitted : n \in 1..Len(history) /\ history'[n] = history[n]
  BY <1>2, <1>3
<1>15. ConsumerShape'
  BY <1>1, <1>14, ConsumerFrame
<1>16. LimitShape'
  BY <1>1, <1>14, LimitFrame
<1>17. QED
  BY <1>5, <1>6, <1>7, <1>9, <1>11, <1>12, <1>13, <1>15, <1>16

\* The server adds a change to the transaction under way.
LEMMA WriteKeeps ==
  ASSUME IInv, Write
  PROVE  IInv'
<1> USE DEF IInv
<1> DEFINE changes == history[nth].changes
           New(op, at) == [op |-> op, lsn |-> at, column |-> column,
                           value |-> IF op.kind \in {"update", "delete"}
                                       THEN db[op.table][op.id] ELSE Null]
<1>1. PICK op \in (UNION {Inserts(t) \cup Updates(t) \cup Deletes(t) : t \in Tables})
                    \cup Truncates :
         \E at \in {lsn + 1} \cup (IF SharesRecord(op) THEN {lsn} ELSE {}) :
            /\ history' = [history EXCEPT ![nth].changes = Append(@, New(op, at))]
            /\ db' = AfterOp(db, op) /\ lsn' = at
  BY DEF Write
<1>2. PICK at \in {lsn + 1} \cup (IF SharesRecord(op) THEN {lsn} ELSE {}) :
            /\ history' = [history EXCEPT ![nth].changes = Append(@, New(op, at))]
            /\ db' = AfterOp(db, op) /\ lsn' = at
  BY <1>1
<1> DEFINE new == New(op, at)
           more == Append(changes, new)
<1>3. /\ UNCHANGED <<column, nth, sent, midway, announced, cache, open, failure>>
      /\ UNCHANGED <<seen, replica, emitted, confirmed>>
      /\ failure = "none" /\ midway /\ ~history[nth].closed /\ sent = Len(changes)
  BY DEF Write, AtFrontier, senderVars, consumerVars
<1>4. /\ history \in Seq(Transaction) /\ Len(history) \in Nat /\ emitted \in Nat /\ lsn \in Nat
      /\ nth = emitted + 1 /\ Len(history) = nth /\ nth \in 1..Len(history) /\ nth \in Nat
  BY <1>3 DEF Types, SenderShape, HistoryShape
<1>5. changes \in Seq(Change) /\ history[nth] \in Transaction
  <2>1. history[nth] \in Transaction
    BY <1>4
  <2>2. QED
    BY <2>1 DEF Transaction
<1>6. /\ op \in Operation /\ (op.kind \in {"update", "delete"} => db[op.table][op.id] \in Cells)
      /\ (op.kind = "insert" => op.newId = op.id)
      /\ (op.kind = "update" /\ ~op.sentWhole => op.value = db[op.table][op.id])
  BY WritesAreOperations
<1>7. at \in Nat /\ lsn <= at
  BY <1>4
<1>8. /\ new.op = op /\ new.lsn = at /\ new \in Change
      /\ SelfConsistent(new) /\ KeepsValueOf(db, new)
  <2>1. /\ new.op = op /\ new.lsn = at /\ new.column = column
        /\ new.value = IF op.kind \in {"update", "delete"} THEN db[op.table][op.id] ELSE Null
    OBVIOUS
  <2>2. new.value \in Cells
    BY <1>6, <2>1 DEF Cells
  <2>3. column \in [Tables -> Names]
    BY DEF Types
  <2>4. new \in Change
    BY <1>6, <1>7, <2>2, <2>3 DEF Change
  <2> HIDE DEF New
  <2>5. QED
    BY <1>6, <2>1, <2>4 DEF SelfConsistent, KeepsValueOf
<1> HIDE DEF New
<1>9. /\ history' \in Seq(Transaction) /\ Len(history') = Len(history)
      /\ \A n \in 1..Len(history) : n # nth => history'[n] = history[n]
      /\ history'[nth].changes = more /\ history'[nth].closed = history[nth].closed
      /\ \A n \in 1..emitted : n \in 1..Len(history) /\ n # nth /\ history'[n] = history[n]
  <2>1. history' = [history EXCEPT ![nth] = [history[nth] EXCEPT !.changes = more]]
    BY <1>2
  <2>2. more \in Seq(Change)
    BY <1>5, <1>8
  <2> HIDE DEF more
  <2>3. [history[nth] EXCEPT !.changes = more] \in Transaction
    BY <1>5, <2>2 DEF Transaction
  <2>4. [history[nth] EXCEPT !.changes = more].changes = more
        /\ [history[nth] EXCEPT !.changes = more].closed = history[nth].closed
    BY <1>5 DEF Transaction
  <2>5. history' \in Seq(Transaction) /\ Len(history') = Len(history)
        /\ \A n \in 1..Len(history) : history'[n] = IF n = nth
               THEN [history[nth] EXCEPT !.changes = more] ELSE history[n]
    BY <1>4, <2>1, <2>3
  <2>6. \A n \in 1..emitted : n \in 1..Len(history) /\ n # nth
    BY <1>4
  <2>7. QED
    BY <1>4, <2>4, <2>5, <2>6
<1>10. /\ more \in Seq(Change) /\ Len(more) = Len(changes) + 1 /\ Len(changes) \in Nat
      /\ more[Len(changes) + 1] = new /\ \A k \in 1..Len(changes) : more[k] = changes[k]
  BY <1>5, <1>8
<1> HIDE DEF more, new
<1>11. \A k \in 1..Len(more) : k = Len(changes) + 1 \/ k \in 1..Len(changes)
  BY <1>10
<1>12. Types'
  <2>1. db' \in Database
    BY <1>2, <1>6, AfterOpType DEF Types
  <2>2. lsn' \in Nat
    BY <1>2, <1>7
  <2>3. QED
    BY <1>3, <1>9, <2>1, <2>2 DEF Types
<1>13. HistoryShape'
  <2>1. \A n \in 1..Len(history) : history'[n].closed = history[n].closed
    BY <1>9
  <2>2. ASSUME NEW n \in 1..Len(history), NEW k \in 1..Len(history'[n].changes)
        PROVE  SelfConsistent(history'[n].changes[k])
    <3>1. CASE n # nth
      BY <1>9, <3>1 DEF HistoryShape
    <3>2. CASE n = nth
      <4>1. history'[n].changes = more
        BY <1>9, <3>2
      <4>2. CASE k = Len(changes) + 1
        BY <1>8, <1>10, <4>1, <4>2
      <4>3. CASE k \in 1..Len(changes)
        BY <1>4, <1>10, <3>2, <4>1, <4>3 DEF HistoryShape
      <4>4. QED
        BY <1>11, <4>1, <4>2, <4>3
    <3>3. QED
      BY <3>1, <3>2
  <2>3. QED
    BY <1>3, <1>9, <2>1, <2>2 DEF HistoryShape
<1>14. \A n \in 1..Len(history) : n < nth =>
          \A k \in 1..Len(history[n].changes) : history[n].changes[k].lsn < at
  <2>1. ASSUME NEW n \in 1..Len(history), n < nth, NEW k \in 1..Len(history[n].changes)
        PROVE  history[n].changes[k].lsn < at
    <3>1. history[n].changes[k].lsn \in Nat
      <4>1. history[n] \in Transaction
        BY <1>4
      <4>2. history[n].changes \in Seq(Change)
        BY <4>1 DEF Transaction
      <4>3. QED
        BY <4>2, ChangeFields
    <3>2. history[n].changes[k].lsn <= lsn
      BY DEF LsnShape
    <3>3. CASE at = lsn + 1
      BY <1>4, <3>1, <3>2, <3>3
    <3>4. CASE at # lsn + 1
      <4>1. at = lsn /\ sent > 0
        BY <3>4 DEF SharesRecord
      <4>2. sent \in 1..Len(changes)
        BY <1>3, <1>10, <4>1
      <4>3. history[n].changes[k].lsn < changes[sent].lsn
        BY <1>4, <2>1, <4>2 DEF LsnShape
      <4>4. changes[sent].lsn <= lsn /\ changes[sent].lsn \in Nat
        BY <1>4, <1>5, <4>2, ChangeFields DEF LsnShape
      <4>5. QED
        BY <1>4, <3>1, <4>1, <4>3, <4>4
    <3>5. QED
      BY <3>3, <3>4
  <2>2. QED
    BY <2>1
<1>15. LsnShape'
  <2>1. ASSUME NEW n \in 1..Len(history), NEW k \in 1..Len(history'[n].changes)
        PROVE  \/ n = nth /\ history'[n].changes[k].lsn = at
               \/ /\ k \in 1..Len(history[n].changes)
                  /\ history'[n].changes[k].lsn = history[n].changes[k].lsn
    <3>1. CASE n # nth
      BY <1>9, <3>1
    <3>2. CASE n = nth
      <4>1. history'[n].changes = more
        BY <1>9, <3>2
      <4>2. QED
        BY <1>8, <1>10, <1>11, <3>2, <4>1
    <3>3. QED
      BY <3>1, <3>2
  <2>2. ASSUME NEW n \in 1..Len(history), NEW k \in 1..Len(history[n].changes)
        PROVE  history[n].changes[k].lsn <= at
    <3>1. history[n] \in Transaction
      BY <1>4
    <3>2. history[n].changes \in Seq(Change)
      BY <3>1 DEF Transaction
    <3>3. history[n].changes[k].lsn \in Nat /\ history[n].changes[k].lsn <= lsn
      BY <3>2, ChangeFields DEF LsnShape
    <3>4. QED
      BY <1>4, <1>7, <3>3
  <2>3. ASSUME NEW n \in 1..Len(history), NEW k \in 1..Len(history'[n].changes)
        PROVE  history'[n].changes[k].lsn <= at
    <3>1. CASE history'[n].changes[k].lsn = at
      BY <1>7, <3>1
    <3>2. CASE history'[n].changes[k].lsn # at
      <4>1. k \in 1..Len(history[n].changes)
            /\ history'[n].changes[k].lsn = history[n].changes[k].lsn
        BY <2>1, <3>2
      <4>2. QED
        BY <2>2, <4>1
    <3>3. QED
      BY <3>1, <3>2
  <2>4. ASSUME NEW n \in 1..Len(history), NEW m \in 1..Len(history), n < m,
               NEW k \in 1..Len(history'[n].changes), NEW i \in 1..Len(history'[m].changes)
        PROVE  history'[n].changes[k].lsn < history'[m].changes[i].lsn
    <3>1. n # nth /\ n < nth
      BY <1>4, <2>4
    <3>2. k \in 1..Len(history[n].changes)
          /\ history'[n].changes[k].lsn = history[n].changes[k].lsn
      BY <2>1, <3>1
    <3>3. CASE m = nth /\ history'[m].changes[i].lsn = at
      BY <1>14, <3>1, <3>2, <3>3
    <3>4. CASE /\ i \in 1..Len(history[m].changes)
               /\ history'[m].changes[i].lsn = history[m].changes[i].lsn
      BY <2>4, <3>2, <3>4 DEF LsnShape
    <3>5. QED
      BY <2>1, <3>3, <3>4
  <2>5. lsn' = at /\ Len(history') = Len(history)
    BY <1>2, <1>9
  <2>6. QED
    BY <2>3, <2>4, <2>5 DEF LsnShape
<1>16. ConsumerShape' /\ Base' = Base
  BY <1>3, <1>9, ConsumerFrame
<1>17. LimitShape'
  BY <1>3, <1>9, LimitFrame
<1>18. DbShape'
  <2> DEFINE states == StatesOf(Base, changes)
             longer == StatesOf(Base, more)
             n == Len(changes)
  <2>1. Base \in Database
    BY <1>4, BaseIsDatabase
  <2>2. db = states[n] /\ \A k \in 1..n : KeepsValueOf(states[k - 1], changes[k])
    BY <1>4 DEF DbShape
  <2>3. \A k \in 0..n : longer[k] = states[k]
    BY <1>5, <1>8, <2>1, StatesPrefix DEF more
  <2>4. longer[n + 1] = AfterOp(longer[n], more[n + 1].op)
    <3>1. n + 1 \in 1..Len(more) /\ (n + 1) - 1 = n
      BY <1>10
    <3>2. longer[n + 1] = AfterOp(longer[(n + 1) - 1], more[n + 1].op)
      BY <1>10, <2>1, <3>1, StateSteps
    <3>3. QED
      BY <3>1, <3>2
  <2> HIDE DEF states, longer
  <2>5. n \in 0..n /\ \A k \in 1..n : k - 1 \in 0..n
    BY <1>10
  <2>6. longer[n] = db
    BY <2>2, <2>3, <2>5
  <2>7. longer[Len(more)] = db'
    BY <1>2, <1>8, <1>10, <2>4, <2>6
  <2>8. ASSUME NEW k \in 1..Len(more)
        PROVE  KeepsValueOf(longer[k - 1], more[k])
    <3>1. CASE k = n + 1
      <4>1. k - 1 = n
        BY <1>10, <3>1
      <4>2. QED
        BY <1>8, <1>10, <2>6, <3>1, <4>1
    <3>2. CASE k \in 1..n
      BY <1>10, <2>2, <2>3, <2>5, <3>2
    <3>3. QED
      BY <1>11, <3>1, <3>2
  <2>9. Len(history') = emitted + 1 /\ emitted' = emitted /\ emitted # emitted + 1
        /\ history'[emitted + 1].changes = more
    BY <1>3, <1>4, <1>9
  <2>10. QED
    BY <1>16, <2>7, <2>8, <2>9 DEF DbShape, longer
<1>19. SenderShape'
  <2>1. sent <= Len(more)
    BY <1>3, <1>10
  <2>2. QED
    BY <1>3, <1>9, <2>1 DEF SenderShape
<1>20. CacheShape'
  BY <1>3 DEF CacheShape
<1>21. OpenShape'
  <2> DEFINE g == EventsUpTo(changes)
             h == EventsUpTo(more)
  <2>1. \A k \in 0..Len(changes) : h[k] = g[k]
    BY <1>5, <1>8, CountsPrefix DEF more
  <2>2. /\ open = <<Buffered>> /\ Buffered \in Seq(ToSet(Buffered))
        /\ Len(Buffered) = g[sent] /\ Len(Buffered) <= MaxEvents
        /\ \A k \in 1..sent : \A j \in 1..SizeOf(changes[k]) :
              Buffered[g[k - 1] + j] = EntryOf(changes[k], j)
    BY <1>3 DEF OpenShape
  <2>3. sent \in 0..Len(changes) /\ \A k \in 1..sent : k \in 1..Len(changes)
                                                    /\ k - 1 \in 0..Len(changes)
    BY <1>3, <1>10
  <2> HIDE DEF g, h, changes
  <2>4. /\ Len(Buffered) = h[sent]
        /\ \A k \in 1..sent : \A j \in 1..SizeOf(more[k]) :
              Buffered[h[k - 1] + j] = EntryOf(more[k], j)
    BY <1>10, <2>1, <2>2, <2>3
  <2>5. Buffered' = Buffered /\ open' = open /\ midway' /\ nth' = nth /\ sent' = sent
        /\ history'[nth].changes = more /\ ~IsEmpty
    BY <1>3, <1>9 DEF Buffered, OpenShape
  <2>6. QED
    BY <2>2, <2>4, <2>5 DEF OpenShape, IsEmpty, h
<1>22. QED
  BY <1>12, <1>13, <1>15, <1>16, <1>17, <1>18, <1>19, <1>20, <1>21

\* The events a row message adds to the buffer are those of its change, under
\* the columns its table had then.
LEMMA PendingIsEntries ==
  ASSUME NEW c \in Change, CacheShape, Unannounced(c) = {}
  PROVE  /\ Pending(Message(c), c.lsn) \in Seq(ToSet(Pending(Message(c), c.lsn)))
         /\ Len(Pending(Message(c), c.lsn)) = SizeOf(c)
         /\ \A j \in 1..SizeOf(c) : Pending(Message(c), c.lsn)[j] = EntryOf(c, j)
<1> DEFINE tables == RelationsOf(Message(c))
           p == Pending(Message(c), c.lsn)
<1>1. /\ tables \in Seq(Tables) /\ DOMAIN tables = 1..SizeOf(c) /\ SizeOf(c) \in Nat
      /\ Message(c).kind = c.op.kind
  BY Relations DEF SizeOf
<1>2. \A j \in 1..SizeOf(c) : cache[tables[j]] = <<"id", c.column[tables[j]]>>
  <2>1. ASSUME NEW j \in 1..SizeOf(c)
        PROVE  cache[tables[j]] = <<"id", c.column[tables[j]]>>
    <3> DEFINE t == tables[j]
    <3>1. t \in Tables /\ t \in ToSet(tables)
      BY <1>1 DEF ToSet
    <3>2. announced[t] = <<c.column[t]>>
      BY <3>1 DEF Unannounced
    <3>3. announced[t] # Nothing /\ announced[t][1] = c.column[t]
      BY <3>2 DEF Nothing
    <3> HIDE DEF t
    <3>4. cache[t] = <<"id", announced[t][1]>>
      BY <3>1, <3>3 DEF CacheShape
    <3>5. QED
      BY <3>3, <3>4 DEF t
  <2>2. QED
    BY <2>1
<1>3. p = [j \in 1..SizeOf(c) |->
             [table |-> tables[j], operation |-> Message(c).kind, lsn |-> c.lsn,
              images |-> Images(cache[tables[j]], Message(c))]]
  BY <1>1 DEF Pending
<1>4. p \in Seq(ToSet(p)) /\ Len(p) = SizeOf(c)
  <2> DEFINE Entry(j) == [table |-> tables[j], operation |-> Message(c).kind, lsn |-> c.lsn,
                          images |-> Images(cache[tables[j]], Message(c))]
  <2>1. p = [j \in 1..SizeOf(c) |-> Entry(j)]
    BY <1>3
  <2> HIDE DEF p, Entry
  <2>2. p \in [1..SizeOf(c) -> ToSet(p)]
    BY <2>1 DEF ToSet
  <2>3. QED
    BY <1>1, <2>2
<1>5. ASSUME NEW j \in 1..SizeOf(c)
      PROVE  p[j] = EntryOf(c, j)
  BY <1>1, <1>2, <1>3 DEF EntryOf
<1>6. QED
  BY <1>4, <1>5

\* A row message that is not refused has room in the buffer.
LEMMA NotRefused ==
  ASSUME NEW c \in Change, Refusal(Message(c)) = "none", Len(Buffered) \in Nat
  PROVE  open # Nothing /\ Len(Buffered) + SizeOf(c) <= MaxEvents
<1> DEFINE msg == Message(c)
           tables == RelationsOf(msg)
           troubled == {k \in DOMAIN tables : TooLarge(msg, k) \/ cache[tables[k]] = Nothing}
<1>1. open # Nothing /\ troubled = {}
  BY DEF Refusal
<1>2. SizeOf(c) \in Nat \ {0} /\ SizeOf(c) \in DOMAIN tables
  BY Relations DEF SizeOf
<1>3. ~TooLarge(msg, SizeOf(c))
  BY <1>1, <1>2
<1>4. MaxEvents \in Nat
  BY AssemblerAssumption
<1>5. QED
  BY <1>1, <1>2, <1>3, <1>4 DEF TooLarge

\* One that is refused for its size has not.
LEMMA RefusedForSize ==
  ASSUME NEW c \in Change, Refusal(Message(c)) = "transaction_too_large",
         Len(Buffered) \in Nat
  PROVE  Len(Buffered) + SizeOf(c) > MaxEvents
<1> DEFINE msg == Message(c)
           tables == RelationsOf(msg)
           troubled == {k \in DOMAIN tables : TooLarge(msg, k) \/ cache[tables[k]] = Nothing}
<1>1. troubled # {} /\ TooLarge(msg, Min(troubled))
  BY DEF Refusal
<1>2. SizeOf(c) \in Nat /\ DOMAIN tables = 1..SizeOf(c)
  BY Relations DEF SizeOf
<1>3. troubled \in SUBSET Nat
  BY <1>2
<1> HIDE DEF troubled
<1>4. Min(troubled) \in troubled
  BY <1>1, <1>3, LeastOf
<1>5. Min(troubled) \in 1..SizeOf(c)
  BY <1>2, <1>4 DEF troubled
<1>6. MaxEvents \in Nat
  BY AssemblerAssumption
<1>7. Len(Buffered) + Min(troubled) - 1 >= MaxEvents
  BY <1>1 DEF TooLarge
<1> DEFINE least == Min(troubled)
<1>8. least \in 1..SizeOf(c) /\ Len(Buffered) + least - 1 >= MaxEvents
  BY <1>5, <1>7
<1> HIDE DEF least
<1>9. QED
  BY <1>2, <1>6, <1>8

\* A change is sent and buffered.
LEMMA SendChangeKeeps ==
  ASSUME IInv, SendChange
  PROVE  IInv'
<1> USE DEF IInv
<1> DEFINE c == NextChange
           changes == history[nth].changes
           p == Pending(Message(c), c.lsn)
           g == EventsUpTo(changes)
<1>1. /\ UNCHANGED <<history, db, column, lsn, nth, midway, announced, cache, failure>>
      /\ UNCHANGED <<seen, replica, emitted, confirmed>>
      /\ failure = "none" /\ midway /\ sent < Len(changes)
      /\ Unannounced(c) = {} /\ Refusal(Message(c)) = "none"
      /\ open' = <<Buffered \o p>> /\ sent' = sent + 1
  BY DEF SendChange, serverVars, consumerVars
<1>2. /\ nth \in 1..Len(history) /\ changes \in Seq(Change) /\ sent \in Nat
      /\ sent + 1 \in 1..Len(changes) /\ c \in Change /\ c = changes[sent + 1]
  BY <1>1, NextIsChange DEF NextChange
<1>3. /\ p \in Seq(ToSet(p)) /\ Len(p) = SizeOf(c)
      /\ \A j \in 1..SizeOf(c) : p[j] = EntryOf(c, j)
  BY <1>1, <1>2, PendingIsEntries
<1>4. /\ open = <<Buffered>> /\ Buffered \in Seq(ToSet(Buffered))
      /\ Len(Buffered) = g[sent] /\ Len(Buffered) <= MaxEvents /\ Len(Buffered) \in Nat
      /\ \A k \in 1..sent : \A j \in 1..SizeOf(changes[k]) :
            Buffered[g[k - 1] + j] = EntryOf(changes[k], j)
  BY <1>1 DEF OpenShape
<1> HIDE DEF c, p, changes
<1>5. open # Nothing /\ Len(Buffered) + SizeOf(c) <= MaxEvents
  BY <1>1, <1>2, <1>4, NotRefused
<1>6. /\ g \in [0..Len(changes) -> Nat] /\ g[0] = 0 /\ Len(changes) \in Nat
      /\ \A k \in 1..Len(changes) :
            /\ g[k] = g[k - 1] + SizeOf(changes[k])
            /\ k - 1 \in 0..Len(changes) /\ SizeOf(changes[k]) \in Nat /\ g[k - 1] \in Nat
  BY <1>2, EventCounts
<1>7. \A i \in 0..Len(changes) : \A k \in i..Len(changes) : g[i] <= g[k]
  BY <1>2, CountsGrow
<1> HIDE DEF g
<1>8. SizeOf(c) \in Nat
  BY <1>2, Relations
<1>9. g[sent + 1] = Len(Buffered) + SizeOf(c)
  <2>1. g[sent + 1] = g[(sent + 1) - 1] + SizeOf(changes[sent + 1])
    BY <1>2, <1>6
  <2>2. (sent + 1) - 1 = sent
    BY <1>2
  <2>3. QED
    BY <1>2, <1>4, <2>1, <2>2
<1> DEFINE both == Buffered \o p
<1>10. /\ both \in Seq(ToSet(both)) /\ Len(both) = Len(Buffered) + SizeOf(c)
       /\ \A i \in 1..Len(Buffered) : both[i] = Buffered[i]
       /\ \A j \in 1..SizeOf(c) : both[Len(Buffered) + j] = p[j]
  <2> DEFINE S == ToSet(Buffered) \cup ToSet(p)
  <2> HIDE DEF S
  <2>1. Buffered \in Seq(S) /\ p \in Seq(S)
    BY <1>3, <1>4 DEF S
  <2>2. /\ both \in Seq(S) /\ Len(both) = Len(Buffered) + Len(p)
        /\ \A i \in 1..Len(Buffered) : both[i] = Buffered[i]
        /\ \A j \in 1..Len(p) : both[Len(Buffered) + j] = p[j]
    BY <2>1
  <2> HIDE DEF both
  <2>3. both \in Seq(ToSet(both))
    BY <2>2 DEF ToSet
  <2>4. QED
    BY <1>3, <2>2, <2>3
<1> HIDE DEF both
<1>11. open' = <<both>> /\ Buffered' = both /\ IsEmpty' = FALSE
  BY <1>1 DEF both, Buffered, IsEmpty, Nothing
<1>12. OpenShape'
  <2>1. ASSUME NEW k \in 1..(sent + 1), NEW j \in 1..SizeOf(changes[k])
        PROVE  both[g[k - 1] + j] = EntryOf(changes[k], j)
    <3>1. CASE k = sent + 1
      <4>1. k - 1 = sent
        BY <1>2, <3>1
      <4>2. changes[k] = c /\ g[k - 1] = Len(Buffered)
        BY <1>2, <1>4, <3>1, <4>1
      <4>3. j \in 1..SizeOf(c)
        BY <4>2
      <4>4. both[Len(Buffered) + j] = p[j] /\ p[j] = EntryOf(c, j)
        BY <1>3, <1>10, <4>3
      <4>5. QED
        BY <4>2, <4>4
    <3>2. CASE k # sent + 1
      <4>1. k \in 1..sent /\ k \in 1..Len(changes) /\ sent \in k..Len(changes)
            /\ k \in 0..Len(changes)
        <5>1. sent \in Nat /\ Len(changes) \in Nat /\ sent + 1 <= Len(changes)
          BY <1>2, <1>6
        <5>2. k \in 1..sent
          BY <3>2, <5>1
        <5>3. QED
          BY <5>1, <5>2
      <4>2. g[k] <= Len(Buffered)
        BY <1>4, <1>7, <4>1
      <4>3. g[k] = g[k - 1] + SizeOf(changes[k]) /\ g[k - 1] \in Nat
            /\ SizeOf(changes[k]) \in Nat
        BY <1>6, <4>1
      <4>4. g[k - 1] + j \in 1..Len(Buffered)
        <5> DEFINE first == g[k - 1]
                   size == SizeOf(changes[k])
        <5>1. /\ first \in Nat /\ size \in Nat /\ Len(Buffered) \in Nat
              /\ j \in 1..size /\ first + size <= Len(Buffered)
          BY <1>4, <4>2, <4>3
        <5> HIDE DEF first, size
        <5>2. first + j \in 1..Len(Buffered)
          BY <5>1
        <5>3. QED
          BY <5>2 DEF first
      <4>5. QED
        BY <1>4, <1>10, <4>1, <4>4
    <3>3. QED
      BY <3>1, <3>2
  <2>2. history'[nth'].changes = changes /\ EventsUpTo(changes) = g /\ sent' = sent + 1
        /\ midway' = midway /\ midway
    BY <1>1 DEF changes, g
  <2>3. Len(both) = g[sent + 1] /\ Len(both) <= MaxEvents
    BY <1>5, <1>9, <1>10
  <2>4. IsEmpty' <=> ~midway'
    BY <1>11, <2>2
  <2>5. /\ open' = <<both>> /\ Buffered' = both /\ both \in Seq(ToSet(both))
    BY <1>10, <1>11
  <2> HIDE DEF both
  <2>6. QED
    BY <2>1, <2>2, <2>3, <2>4, <2>5 DEF OpenShape
<1>13. Types'
  <2>1. sent' \in Nat
    BY <1>1, <1>2
  <2>2. QED
    BY <1>1, <2>1 DEF Types
<1>14. HistoryShape' /\ LsnShape' /\ CacheShape'
  <2>1. HistoryShape'
    BY <1>1 DEF HistoryShape
  <2>2. LsnShape'
    BY <1>1 DEF LsnShape
  <2>3. CacheShape'
    BY <1>1 DEF CacheShape
  <2>4. QED
    BY <2>1, <2>2, <2>3
<1>15. DbShape'
  BY <1>1 DEF DbShape, Base
<1>16. SenderShape'
  <2>1. sent + 1 <= Len(history[nth].changes)
    BY <1>2 DEF changes
  <2>2. QED
    BY <1>1, <2>1 DEF SenderShape
<1>17. ConsumerShape'
  BY <1>1, ConsumerFrame
<1>18. LimitShape'
  BY <1>1, LimitFrame
<1>19. QED
  BY <1>12, <1>13, <1>14, <1>15, <1>16, <1>17, <1>18

\* A change is refused, and the process ends.
LEMMA ChangeRefusedKeeps ==
  ASSUME IInv, ChangeRefused
  PROVE  IInv'
<1> USE DEF IInv
<1> DEFINE c == NextChange
           changes == history[nth].changes
           g == EventsUpTo(changes)
<1>1. /\ UNCHANGED <<history, db, column, lsn, nth, sent, midway, announced, cache, open>>
      /\ UNCHANGED <<seen, replica, emitted, confirmed>>
      /\ failure = "none" /\ midway /\ sent < Len(changes)
      /\ failure' = Refusal(Message(c)) /\ Refusal(Message(c)) # "none"
  BY DEF ChangeRefused, Fail, serverVars, senderVars, consumerVars
<1>2. /\ nth \in 1..Len(history) /\ changes \in Seq(Change) /\ sent \in Nat
      /\ sent + 1 \in 1..Len(changes) /\ c \in Change /\ c = changes[sent + 1]
  BY <1>1, NextIsChange DEF NextChange
<1>3. failure' \in {"decode", "unknown_relation", "transaction_too_large"}
  BY <1>1 DEF Refusal
<1>4. Types'
  BY <1>1, <1>3 DEF Types
<1>5. HistoryShape' /\ LsnShape' /\ SenderShape' /\ CacheShape'
  BY <1>1 DEF HistoryShape, LsnShape, SenderShape, CacheShape
<1>6. DbShape'
  BY <1>1 DEF DbShape, Base
<1>7. OpenShape'
  BY <1>1 DEF OpenShape, IsEmpty, Buffered
<1>8. ConsumerShape'
  BY <1>1, ConsumerFrame
<1>9. LimitShape'
  <2>1. ASSUME failure' = "transaction_too_large"
        PROVE  EventsIn(history[nth]) > MaxEvents
    <3>1. Len(Buffered) = g[sent] /\ Len(Buffered) \in Nat
      BY <1>1 DEF OpenShape
    <3> HIDE DEF c, changes
    <3>2. Len(Buffered) + SizeOf(c) > MaxEvents
      BY <1>1, <1>2, <2>1, <3>1, RefusedForSize
    <3>3. /\ g \in [0..Len(changes) -> Nat]
          /\ g[sent + 1] = g[(sent + 1) - 1] + SizeOf(changes[sent + 1])
      BY <1>2, EventCounts
    <3>4. sent + 1 \in 0..Len(changes) /\ Len(changes) \in (sent + 1)..Len(changes)
          /\ (sent + 1) - 1 = sent /\ Len(changes) \in 0..Len(changes)
      BY <1>2
    <3>5. g[sent + 1] <= g[Len(changes)]
      BY <1>2, <3>4, CountsGrow
    <3> HIDE DEF g
    <3>6. g[sent + 1] = Len(Buffered) + SizeOf(c)
      BY <1>2, <3>1, <3>3, <3>4
    <3>7. g[sent + 1] \in Nat /\ g[Len(changes)] \in Nat
      BY <3>3, <3>4
    <3>8. MaxEvents \in Nat
      BY AssemblerAssumption
    <3>9. g[Len(changes)] > MaxEvents
      BY <3>2, <3>5, <3>6, <3>7, <3>8
    <3>10. QED
      BY <3>9 DEF EventsIn, g, changes
  <2>2. QED
    BY <1>1, <2>1 DEF LimitShape, LimitIsExact
<1>10. QED
  BY <1>4, <1>5, <1>6, <1>7, <1>8, <1>9

\* The place of an event of a change is one of the events of the transaction.
LEMMA PlaceInRange ==
  ASSUME NEW changes \in Seq(Change), NEW k \in 1..Len(changes),
         NEW j \in 1..SizeOf(changes[k])
  PROVE  EventsUpTo(changes)[k - 1] + j \in 1..EventsUpTo(changes)[Len(changes)]
<1> DEFINE n == Len(changes)
           g == EventsUpTo(changes)
<1>1. /\ g \in [0..n -> Nat] /\ n \in Nat
      /\ \A q \in 1..n : /\ g[q] = g[q - 1] + SizeOf(changes[q])
                         /\ SizeOf(changes[q]) \in Nat /\ g[q - 1] \in Nat
  BY EventCounts
<1>2. k \in 1..n /\ k \in 0..n /\ n \in k..n /\ n \in 0..n
  BY <1>1
<1>3. g[k] <= g[n]
  BY <1>2, CountsGrow
<1> HIDE DEF n, g
<1>4. g[n] \in Nat /\ g[k] = g[k - 1] + SizeOf(changes[k])
      /\ SizeOf(changes[k]) \in Nat /\ g[k - 1] \in Nat
  BY <1>1, <1>2
<1>5. g[k - 1] + j \in 1..g[n]
  BY <1>3, <1>4
<1>6. QED
  BY <1>5 DEF g, n

\* The events of a transaction that was sent whole.
LEMMA SentWhole ==
  ASSUME IInv, midway, sent = Len(history[nth].changes)
  PROVE  /\ nth \in 1..Len(history) /\ history[nth] \in Transaction
         /\ history[nth].changes \in Seq(Change)
         /\ AreEventsOf(Numbered(Buffered), history[nth].changes)
         /\ Len(Numbered(Buffered)) \in Nat /\ Len(Numbered(Buffered)) <= MaxEvents
         /\ \A i \in 1..Len(Numbered(Buffered)) : Numbered(Buffered)[i].xid = nth
<1> DEFINE changes == history[nth].changes
           events == Numbered(Buffered)
           g == EventsUpTo(changes)
<1>1. nth \in 1..Len(history) /\ history[nth] \in Transaction
  BY DEF IInv, Types, SenderShape
<1>2. changes \in Seq(Change)
  BY <1>1 DEF Transaction
<1>3. /\ Buffered \in Seq(ToSet(Buffered)) /\ Len(Buffered) = g[sent]
      /\ Len(Buffered) <= MaxEvents
      /\ \A k \in 1..sent : \A j \in 1..SizeOf(changes[k]) :
            Buffered[g[k - 1] + j] = EntryOf(changes[k], j)
  BY DEF IInv, OpenShape
<1>4. /\ Len(events) = Len(Buffered) /\ Len(Buffered) \in Nat
      /\ \A i \in 1..Len(Buffered) : events[i].index = i - 1
      /\ \A i \in 1..Len(Buffered) : events[i].change = Buffered[i] /\ events[i].xid = nth
  BY <1>3 DEF Numbered
<1>5. ASSUME NEW k \in 1..Len(changes), NEW j \in 1..SizeOf(changes[k])
      PROVE  events[g[k - 1] + j].change = EntryOf(changes[k], j)
  <2>1. g[k - 1] + j \in 1..Len(Buffered)
    BY <1>2, <1>3, PlaceInRange
  <2>2. Buffered[g[k - 1] + j] = EntryOf(changes[k], j)
    BY <1>3
  <2> DEFINE i == g[k - 1] + j
  <2>3. i \in 1..Len(Buffered) /\ Buffered[i] = EntryOf(changes[k], j)
    BY <2>1, <2>2
  <2> HIDE DEF events, i
  <2>4. events[i].change = EntryOf(changes[k], j)
    BY <1>4, <2>3
  <2>5. QED
    BY <2>4 DEF i
<1> HIDE DEF events
<1>6. AreEventsOf(events, changes)
  <2>1. Len(events) = EventsUpTo(changes)[Len(changes)]
    BY <1>3, <1>4
  <2>2. \A i \in 1..Len(events) : events[i].index = i - 1
    BY <1>4
  <2>3. QED
    BY <1>5, <2>1, <2>2 DEF AreEventsOf
<1>7. QED
  BY <1>1, <1>2, <1>3, <1>4, <1>6 DEF events

\* COMMIT, of a transaction that reaches the consumer for the first time or
\* again.
LEMMA CommitKeeps ==
  ASSUME IInv, Commit
  PROVE  IInv'
<1> USE DEF IInv
<1> DEFINE changes == history[nth].changes
           events == Numbered(Buffered)
           state == [seen |-> seen, replica |-> replica]
           g == EventsUpTo(changes)
<1>1. /\ UNCHANGED <<db, column, lsn, announced, cache, failure, confirmed>>
      /\ failure = "none" /\ midway /\ sent = Len(changes)
      /\ history' = IF history[nth].closed THEN history
                    ELSE [history EXCEPT ![nth].closed = TRUE, ![nth].after = db]
      /\ midway' = FALSE /\ nth' = nth + 1 /\ sent' = 0 /\ open' = Nothing
      /\ seen' = Consumed(state, events).seen /\ replica' = Consumed(state, events).replica
      /\ emitted' = IF nth > emitted THEN nth ELSE emitted
  BY DEF Commit
<1>2. /\ nth \in 1..Len(history) /\ history[nth] \in Transaction /\ changes \in Seq(Change)
      /\ AreEventsOf(events, changes) /\ Len(events) \in Nat /\ Len(events) <= MaxEvents
      /\ \A i \in 1..Len(events) : events[i].xid = nth
  BY <1>1, SentWhole
<1>3. /\ history \in Seq(Transaction) /\ Len(history) \in Nat /\ emitted \in Nat /\ nth \in Nat
      /\ Len(history) = emitted \/ Len(history) = emitted + 1
      /\ history[nth].closed <=> nth <= emitted
      /\ nth <= emitted + 1 /\ confirmed <= emitted /\ confirmed \in Nat
  BY <1>2 DEF Types, HistoryShape, SenderShape
<1> HIDE DEF events, changes
<1>4. \A i \in 1..Len(events) : \E k \in 1..Len(changes) : \E j \in 1..SizeOf(changes[k]) :
         i = g[k - 1] + j /\ events[i].change = EntryOf(changes[k], j)
         /\ Key(events[i]) = <<changes[k].lsn, i - 1>>
  <2>1. ASSUME NEW i \in 1..Len(events)
        PROVE  \E k \in 1..Len(changes) : \E j \in 1..SizeOf(changes[k]) :
                  i = g[k - 1] + j /\ events[i].change = EntryOf(changes[k], j)
                  /\ Key(events[i]) = <<changes[k].lsn, i - 1>>
    <3>1. i \in 1..g[Len(changes)] /\ Len(changes) \in 0..Len(changes)
      BY <1>2 DEF AreEventsOf
    <3>2. PICK k \in 1..Len(changes) : \E j \in 1..SizeOf(changes[k]) : i = g[k - 1] + j
      BY <1>2, <3>1, EventPlace
    <3>3. PICK j \in 1..SizeOf(changes[k]) : i = g[k - 1] + j
      BY <3>2
    <3>4. events[i].change = EntryOf(changes[k], j) /\ events[i].index = i - 1
      BY <1>2, <3>3 DEF AreEventsOf
    <3>5. Key(events[i]) = <<changes[k].lsn, i - 1>>
      BY <3>4 DEF Key, EntryOf
    <3>6. QED
      BY <3>3, <3>4, <3>5
  <2>2. QED
    BY <2>1
<1>5. OpenShape' /\ CacheShape'
  BY <1>1 DEF OpenShape, IsEmpty, CacheShape
<1>6. CASE nth <= emitted
  <2>1. history' = history /\ emitted' = emitted /\ nth + 1 \in Nat
        /\ nth + 1 \in 1..(emitted + 1)
    BY <1>1, <1>2, <1>3, <1>6
  <2>2. nth \in 1..emitted
    BY <1>2, <1>3, <1>6
  <2>3. \A i \in 1..Len(events) : \E old \in state.seen : Key(old) = Key(events[i])
    <3>1. ASSUME NEW i \in 1..Len(events)
          PROVE  \E old \in state.seen : Key(old) = Key(events[i])
      <4>1. PICK k \in 1..Len(changes) : \E j \in 1..SizeOf(changes[k]) :
               i = g[k - 1] + j /\ Key(events[i]) = <<changes[k].lsn, i - 1>>
        BY <1>4
      <4>2. PICK j \in 1..SizeOf(changes[k]) :
               i = g[k - 1] + j /\ Key(events[i]) = <<changes[k].lsn, i - 1>>
        BY <4>1
      <4>3. \A q \in 1..Len(changes) : \A h \in 1..SizeOf(changes[q]) : \E e \in seen :
               Key(e) = <<changes[q].lsn, g[q - 1] + h - 1>>
        BY <2>2 DEF ConsumerShape, changes
      <4>4. PICK old \in seen : Key(old) = <<changes[k].lsn, g[k - 1] + j - 1>>
        BY <4>3
      <4>5. i - 1 = g[k - 1] + j - 1
        <5>1. g[k - 1] \in Nat /\ SizeOf(changes[k]) \in Nat
          BY <1>2, EventCounts
        <5> DEFINE x == g[k - 1]
        <5>2. x \in Nat /\ j \in Nat /\ i = x + j
          BY <4>2, <5>1
        <5> HIDE DEF x, g
        <5>3. i - 1 = x + j - 1
          BY <5>2
        <5>4. QED
          BY <5>3 DEF x
      <4>6. Key(old) = Key(events[i])
        BY <4>2, <4>4, <4>5
      <4>7. QED
        BY <4>6
    <3>2. QED
      BY <3>1
  <2>4. Consumed(state, events) = state
    BY <1>2, <2>3, RedeliveryIsSkipped
  <2>5. seen' = seen /\ replica' = replica
    BY <1>1, <2>4
  <2>6. Types'
    BY <1>1, <2>1 DEF Types
  <2>7. HistoryShape' /\ LsnShape'
    BY <1>1, <2>1 DEF HistoryShape, LsnShape
  <2>8. DbShape'
    BY <1>1, <2>1 DEF DbShape, Base
  <2>9. SenderShape'
    <3>1. nth' \in 1..(emitted + 1) /\ confirmed' <= emitted /\ emitted' = emitted
      BY <1>1, <1>3, <2>1
    <3>2. QED
      BY <1>1, <3>1 DEF SenderShape
  <2>10. ConsumerShape'
    BY <2>1, <2>5, ConsumerFrame
  <2>11. LimitShape'
    BY <1>1, <2>1, LimitFrame
  <2>12. QED
    BY <1>5, <2>6, <2>7, <2>8, <2>9, <2>10, <2>11
<1>7. CASE ~(nth <= emitted)
  <2> DEFINE states == StatesOf(Base, changes)
             new == {events[i] : i \in 1..Len(events)}
  <2>1. /\ nth = emitted + 1 /\ Len(history) = emitted + 1 /\ emitted' = nth /\ nth # 0
        /\ history' = [history EXCEPT ![nth].closed = TRUE, ![nth].after = db]
    BY <1>1, <1>2, <1>3, <1>7
  <2>2. /\ history' \in Seq(Transaction) /\ Len(history') = Len(history)
        /\ \A n \in 1..Len(history) : history'[n].changes = history[n].changes
        /\ \A n \in 1..Len(history) : n # nth => history'[n] = history[n]
        /\ history'[nth].closed = TRUE /\ history'[nth].after = db
    <3> DEFINE tx == [history[nth] EXCEPT !.closed = TRUE, !.after = db]
    <3>1. /\ tx \in Transaction /\ tx.closed = TRUE /\ tx.after = db
          /\ tx.changes = history[nth].changes
      BY <1>2 DEF Transaction, Types
    <3>2. history' = [history EXCEPT ![nth] = tx]
      BY <2>1
    <3> HIDE DEF tx
    <3>3. /\ history' \in Seq(Transaction) /\ Len(history') = Len(history)
          /\ \A n \in 1..Len(history) : history'[n] = IF n = nth THEN tx ELSE history[n]
      BY <1>2, <1>3, <3>1, <3>2
    <3>4. QED
      BY <1>2, <3>1, <3>3
  <2>3. \A n \in 1..emitted : n \in 1..Len(history) /\ n # nth /\ n < nth
    BY <1>3, <2>1
  <2>4. MakeSense(Base, changes) /\ db = states[Len(changes)] /\ replica = Base
    BY <1>2, <2>1 DEF MakeSense, DbShape, HistoryShape, ConsumerShape, changes
  <2>5. Base \in Database
    BY <1>3, BaseIsDatabase
  <2>6. \A e \in seen : \A i \in 1..Len(events) : Key(e) # Key(events[i])
    <3>1. ASSUME NEW e \in seen, NEW i \in 1..Len(events)
          PROVE  Key(e) # Key(events[i])
      <4>1. e.xid \in 1..emitted /\ EventsAreTrue
        BY DEF ConsumerShape
      <4>2. e.xid \in 1..Len(history) /\ e.xid < nth
        BY <2>3, <4>1
      <4>3. PICK q \in DOMAIN history[e.xid].changes : Tells(e, history[e.xid].changes[q])
        BY <4>1 DEF EventsAreTrue
      <4>4. history[e.xid] \in Transaction
        BY <1>3, <4>2
      <4>5. history[e.xid].changes \in Seq(Change)
        BY <4>4 DEF Transaction
      <4>6. q \in 1..Len(history[e.xid].changes) /\ history[e.xid].changes[q].lsn \in Nat
        BY <4>5, ChangeFields
      <4>7. PICK k \in 1..Len(changes) : Key(events[i]) = <<changes[k].lsn, i - 1>>
        BY <1>4
      <4>8. history[e.xid].changes[q].lsn < changes[k].lsn
        BY <1>2, <4>2, <4>6 DEF LsnShape, changes
      <4>9. changes[k].lsn \in Nat
        BY <1>2, ChangeFields
      <4>10. e.change.lsn = history[e.xid].changes[q].lsn
        BY <4>3 DEF Tells
      <4>11. e.change.lsn # changes[k].lsn
        BY <4>6, <4>8, <4>9, <4>10
      <4>12. QED
        BY <4>7, <4>11 DEF Key
    <3>2. QED
      BY <3>1
  <2>7. Consumed(state, events) = [seen |-> seen \cup new, replica |-> states[Len(changes)]]
    <3>1. state = [seen |-> seen, replica |-> Base]
      BY <2>4
    <3> HIDE DEF state
    <3>2. QED
      BY <1>2, <2>4, <2>5, <2>6, <3>1, FirstDelivery
  <2>8. seen' = seen \cup new /\ replica' = db
    BY <1>1, <2>4, <2>7
  <2> HIDE DEF new, states, state
  <2>9. Types'
    <3>1. nth' \in Nat /\ emitted' \in Nat /\ sent' \in Nat
      BY <1>1, <1>3, <2>1
    <3>2. midway' \in BOOLEAN
      BY <1>1
    <3>3. QED
      BY <1>1, <2>2, <3>1, <3>2 DEF Types
  <2>10. HistoryShape'
    <3>1. \A n \in 1..Len(history) : history'[n].closed <=> n <= emitted'
      <4>1. ASSUME NEW n \in 1..Len(history)
            PROVE  history'[n].closed <=> n <= emitted'
        <5>1. CASE n = nth
          BY <1>3, <2>1, <2>2, <5>1
        <5>2. CASE n # nth
          <6>1. n <= emitted' <=> n <= emitted
            BY <1>3, <2>1, <5>2
          <6>2. QED
            BY <2>2, <5>2, <6>1 DEF HistoryShape
        <5>3. QED
          BY <5>1, <5>2
      <4>2. QED
        BY <4>1
    <3>2. \A n \in 1..Len(history) : \A k \in 1..Len(history'[n].changes) :
             SelfConsistent(history'[n].changes[k])
      BY <2>2 DEF HistoryShape
    <3>3. Len(history') = emitted'
      BY <2>1, <2>2
    <3>4. QED
      BY <2>2, <3>1, <3>2, <3>3 DEF HistoryShape
  <2>11. LsnShape'
    <3>1. \A n \in 1..Len(history) : \A k \in 1..Len(history'[n].changes) :
             history'[n].changes[k].lsn <= lsn
      BY <2>2 DEF LsnShape
    <3>2. ASSUME NEW n \in 1..Len(history), NEW m \in 1..Len(history), n < m,
                 NEW k \in 1..Len(history'[n].changes), NEW i \in 1..Len(history'[m].changes)
          PROVE  history'[n].changes[k].lsn < history'[m].changes[i].lsn
      <4>1. history'[n].changes = history[n].changes /\ history'[m].changes = history[m].changes
        BY <2>2
      <4>2. QED
        BY <3>2, <4>1 DEF LsnShape
    <3>3. lsn' = lsn /\ Len(history') = Len(history)
      BY <1>1, <2>2
    <3>4. QED
      BY <3>1, <3>2, <3>3 DEF LsnShape
  <2>12. Base' = db
    BY <2>1, <2>2 DEF Base
  <2>13. DbShape'
    <3>1. Len(history') = emitted' /\ Len(history') # emitted' + 1
      BY <1>3, <2>1, <2>2
    <3>2. QED
      BY <1>1, <2>12, <3>1 DEF DbShape
  <2>14. SenderShape'
    <3>1. nth' = emitted' + 1 /\ nth + 1 \in 1..(nth + 1) /\ confirmed <= nth
      BY <1>1, <1>3, <2>1
    <3>2. nth' \in 1..(emitted' + 1) /\ confirmed' <= emitted'
      BY <1>1, <2>1, <3>1
    <3>3. QED
      BY <1>1, <3>2 DEF SenderShape
  <2>15. ConsumerShape'
    <3>1. \A n \in 1..emitted' : n \in 1..emitted \/ n = nth
      BY <1>3, <2>1
    <3>2. ASSUME NEW e \in seen'
          PROVE  /\ e.xid \in 1..emitted'
                 /\ \E k \in DOMAIN history'[e.xid].changes :
                       Tells(e, history'[e.xid].changes[k])
      <4>1. CASE e \in seen
        <5>1. e.xid \in 1..emitted /\ e.xid \in 1..Len(history)
              /\ e.xid \in 1..emitted'
          BY <1>3, <2>1, <2>3, <4>1 DEF ConsumerShape
        <5>2. history'[e.xid].changes = history[e.xid].changes
          BY <2>2, <5>1
        <5>3. QED
          BY <4>1, <5>1, <5>2 DEF ConsumerShape, EventsAreTrue
      <4>2. CASE e \in new
        <5>1. PICK i \in 1..Len(events) : e = events[i]
          BY <4>2 DEF new
        <5>2. PICK k \in 1..Len(changes) : \E j \in 1..SizeOf(changes[k]) :
                 events[i].change = EntryOf(changes[k], j)
          BY <1>4
        <5>3. PICK j \in 1..SizeOf(changes[k]) : events[i].change = EntryOf(changes[k], j)
          BY <5>2
        <5>4. changes[k] \in Change /\ SelfConsistent(changes[k])
          BY <1>2 DEF HistoryShape, changes
        <5>5. Tells(e, changes[k])
          BY <5>1, <5>3, <5>4, EntryTells
        <5>6. e.xid = nth /\ nth \in 1..emitted'
          BY <1>2, <1>3, <2>1, <5>1
        <5>7. history'[nth].changes = changes /\ k \in DOMAIN changes
          BY <1>2, <2>2 DEF changes
        <5>8. QED
          BY <5>5, <5>6, <5>7
      <4>3. QED
        BY <2>8, <4>1, <4>2
    <3>3. ASSUME NEW n \in 1..emitted', NEW k \in 1..Len(history'[n].changes),
                 NEW j \in 1..SizeOf(history'[n].changes[k])
          PROVE  \E e \in seen' : Key(e) = <<history'[n].changes[k].lsn,
                                    EventsUpTo(history'[n].changes)[k - 1] + j - 1>>
      <4>1. CASE n \in 1..emitted
        <5>1. history'[n].changes = history[n].changes
          BY <2>2, <2>3, <4>1
        <5>2. PICK e \in seen : Key(e) = <<history[n].changes[k].lsn,
                                    EventsUpTo(history[n].changes)[k - 1] + j - 1>>
          BY <4>1, <5>1 DEF ConsumerShape
        <5>3. e \in seen'
          BY <2>8
        <5>4. QED
          BY <5>1, <5>2, <5>3
      <4>2. CASE n = nth
        <5> DEFINE i == g[k - 1] + j
        <5>1. history'[n].changes = changes
          BY <1>2, <2>2, <4>2 DEF changes
        <5>2. k \in 1..Len(changes) /\ j \in 1..SizeOf(changes[k])
          BY <5>1
        <5>3. i \in 1..Len(events)
          BY <1>2, <5>2, PlaceInRange DEF AreEventsOf
        <5>4. events[i].change = EntryOf(changes[k], j) /\ events[i].index = i - 1
          BY <1>2, <5>2, <5>3 DEF AreEventsOf
        <5>5. Key(events[i]) = <<changes[k].lsn, i - 1>>
          BY <5>4 DEF Key, EntryOf
        <5>6. events[i] \in seen'
          BY <2>8, <5>3 DEF new
        <5>7. history'[n].changes[k].lsn = changes[k].lsn
               /\ EventsUpTo(history'[n].changes)[k - 1] = g[k - 1]
          BY <5>1
        <5>8. EventsUpTo(history'[n].changes)[k - 1] + j - 1 = i - 1
          <6> DEFINE x == EventsUpTo(history'[n].changes)[k - 1]
          <6>1. x = g[k - 1] /\ g[k - 1] \in Nat /\ SizeOf(changes[k]) \in Nat
            BY <1>2, <5>2, <5>7, EventCounts
          <6>2. j \in Nat
            BY <5>2, <6>1
          <6> HIDE DEF x, g
          <6>3. x + j - 1 = i - 1
            BY <6>1, <6>2
          <6>4. QED
            BY <6>3 DEF x
        <5> HIDE DEF i
        <5>9. Key(events[i]) = <<history'[n].changes[k].lsn,
                                 EventsUpTo(history'[n].changes)[k - 1] + j - 1>>
          BY <5>5, <5>8, <5>7
        <5>10. QED
          BY <5>6, <5>9
      <4>3. QED
        BY <3>1, <4>1, <4>2
    <3>4. replica' = Base'
      BY <2>8, <2>12
    <3>5. EventsAreTrue'
      BY <3>2 DEF EventsAreTrue
    <3>6. QED
      BY <3>2, <3>3, <3>4, <3>5 DEF ConsumerShape
  <2>16. LimitShape'
    <3>1. ASSUME NEW n \in 1..emitted'
          PROVE  EventsIn(history'[n]) <= MaxEvents
      <4>1. n \in 1..emitted \/ n = nth
        BY <1>3, <2>1
      <4>2. CASE n \in 1..emitted
        BY <2>2, <2>3, <4>2 DEF LimitShape, LimitIsExact
      <4>3. CASE n = nth
        <5>1. history'[n].changes = changes
          BY <1>2, <2>2, <4>3 DEF changes
        <5>2. EventsIn(history'[n]) = Len(events)
          BY <1>2, <5>1 DEF EventsIn, AreEventsOf
        <5>3. QED
          BY <1>2, <5>2
      <4>4. QED
        BY <4>1, <4>2, <4>3
    <3>2. failure' # "transaction_too_large"
      BY <1>1
    <3>3. QED
      BY <3>1, <3>2 DEF LimitShape, LimitIsExact
  <2>17. QED
    BY <1>5, <2>9, <2>10, <2>11, <2>13, <2>14, <2>15, <2>16
<1>8. QED
  BY <1>6, <1>7

\* Every step keeps the invariant.
LEMMA NextKeeps == IInv /\ [Next]_vars => IInv'
<1> SUFFICES ASSUME IInv, [Next]_vars PROVE IInv'
  OBVIOUS
<1>1. CASE Next
  <2>1. CASE Write
    BY <2>1, WriteKeeps
  <2>2. CASE \E t \in Tables : Rename(t)
    BY <2>2, RenameKeeps
  <2>3. CASE Begin
    BY <2>3, BeginKeeps
  <2>4. CASE SendRelation
    BY <2>4, SendRelationKeeps
  <2>5. CASE SendChange
    BY <2>5, SendChangeKeeps
  <2>6. CASE ChangeRefused
    BY <2>6, ChangeRefusedKeeps
  <2>7. CASE Commit
    BY <2>7, CommitKeeps
  <2>8. CASE \E t \in Tables : \E msg \in Oddities(t) : Malformed(msg)
    BY <2>8, MalformedKeeps
  <2>9. CASE Restart
    BY <2>9, RestartKeeps
  <2>10. QED
    BY <1>1, <2>1, <2>2, <2>3, <2>4, <2>5, <2>6, <2>7, <2>8, <2>9 DEF Next
<1>2. CASE UNCHANGED vars
  <2>1. /\ UNCHANGED <<history, db, column, lsn, nth, sent, midway, announced, cache, open>>
        /\ UNCHANGED <<failure, seen, replica, emitted, confirmed>>
    BY <1>2 DEF vars, serverVars, senderVars, consumerVars
  <2> USE DEF IInv
  <2>2. Types' /\ HistoryShape' /\ LsnShape' /\ SenderShape' /\ CacheShape'
    BY <2>1 DEF Types, HistoryShape, LsnShape, SenderShape, CacheShape
  <2>3. DbShape'
    BY <2>1 DEF DbShape, Base
  <2>4. OpenShape'
    BY <2>1 DEF OpenShape, IsEmpty, Buffered
  <2>5. ConsumerShape'
    BY <2>1, ConsumerFrame
  <2>6. LimitShape'
    BY <2>1 DEF LimitShape, LimitIsExact
  <2>7. QED
    BY <2>2, <2>3, <2>4, <2>5, <2>6
<1>3. QED
  BY <1>1, <1>2

-----------------------------------------------------------------------------
(* The theorems.                                                           *)

\* The invariant holds in every state.
THEOREM AssemblerInvariant == Spec => []IInv
BY InitHolds, NextKeeps, PTL DEF Spec

\* The variables stay in their ranges: the buffer never holds more than the
\* limit, the slot never passes what reached the consumer, and the consumer's
\* rows have keys.
THEOREM AssemblerTypes == Spec => []TypeOK
<1>1. IInv => TypeOK
  <2> SUFFICES ASSUME IInv PROVE TypeOK
    OBVIOUS
  <2> USE DEF IInv
  <2>1. history \in Seq(Transaction) /\ Len(history) \in Nat /\ emitted \in Nat
        /\ confirmed \in Nat /\ nth \in Nat
    BY DEF Types
  <2>2. \A t \in Tables : cache[t] = Nothing \/ cache[t] \in {"id"} \X {"value", "renamed"}
    <3>1. ASSUME NEW t \in Tables, announced[t] # Nothing
          PROVE  cache[t] \in {"id"} \X {"value", "renamed"}
      <4>1. PICK name \in Names : announced[t] = <<name>>
        BY <3>1 DEF CacheShape
      <4>2. cache[t] = <<"id", name>>
        BY <3>1, <4>1 DEF CacheShape
      <4>3. QED
        BY <4>2 DEF Names
    <3>2. QED
      BY <3>1 DEF CacheShape
  <2>3. open = Nothing \/ Len(Buffered) <= MaxEvents
    BY DEF OpenShape, IsEmpty
  <2>4. failure \in {"none", "decode", "unknown_relation", "transaction_too_large"}
    BY DEF Types
  <2>5. emitted <= Len(history) /\ nth \in 1..(Len(history) + 1) /\ confirmed \in 0..emitted
        /\ emitted \in 0..Len(history)
    BY <2>1 DEF HistoryShape, SenderShape
  <2>6. replica \in Database
    BY <2>1, <2>5, BaseIsDatabase DEF ConsumerShape
  <2>7. \A t \in Tables : DOMAIN replica[t] \subseteq Ids
    BY <2>6 DEF Database, Rows
  <2>8. QED
    BY <2>2, <2>3, <2>4, <2>5, <2>7 DEF TypeOK
<1>2. QED
  BY <1>1, AssemblerInvariant, PTL

\* The consumer's copy is the server's tables as of the last transaction it
\* was given.
THEOREM ConsumerKeepsUp == Spec => []ReplicaFollows
<1>1. IInv => ReplicaFollows
  <2> SUFFICES ASSUME IInv, emitted > 0 PROVE replica = history[emitted].after
    BY DEF ReplicaFollows
  <2>1. emitted # 0 /\ replica = Base
    BY DEF IInv, Types, ConsumerShape
  <2>2. QED
    BY <2>1 DEF Base
<1>2. QED
  BY <1>1, AssemblerInvariant, PTL

\* Every event says what a change of its transaction did and nothing else.
THEOREM EventsTellTheTruth == Spec => []EventsAreTrue
<1>1. IInv => EventsAreTrue
  BY DEF IInv, ConsumerShape
<1>2. QED
  BY <1>1, AssemblerInvariant, PTL

\* The assembler is empty exactly between two transactions.
THEOREM EmptyMeansBetween == Spec => []EmptyBetweenTransactions
<1>1. IInv => EmptyBetweenTransactions
  BY DEF IInv, OpenShape, EmptyBetweenTransactions
<1>2. QED
  BY <1>1, AssemblerInvariant, PTL

\* The limit refuses the transactions with more events and no other.
THEOREM LimitRefusesTheRightOnes == Spec => []LimitIsExact
<1>1. IInv => LimitIsExact
  BY DEF IInv, LimitShape
<1>2. QED
  BY <1>1, AssemblerInvariant, PTL
=============================================================================
