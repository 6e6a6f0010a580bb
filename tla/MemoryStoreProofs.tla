--------------------------- MODULE MemoryStoreProofs ---------------------------
(***************************************************************************)
(* Proofs about MemoryStore.  The lemmas before the invariant say what the *)
(* writes of one claim and a tombstone do to a database, whichever         *)
(* transaction makes them.                                                 *)
(***************************************************************************)
EXTENDS MemoryStore, TLAPS

\* Rows are numbered from 1.
LEMMA RowsOfDatabase ==
  ASSUME NEW d \in Database
  PROVE  /\ d.rows \in Seq(Row)
         /\ Len(d.rows) \in Nat
         /\ DOMAIN d.rows = 1..Len(d.rows)
         /\ \A id \in DOMAIN d.rows : d.rows[id] \in Row
         /\ d.sources \subseteq Nat \X Request
         /\ d.indexed \subseteq Nat
BY DEF Database

\* Extends is a preorder, and keeps what a request has stored.
LEMMA ExtendsReflexive ==
  ASSUME NEW d \in Database
  PROVE  Extends(d, d)
BY RowsOfDatabase DEF Extends

(* Ids given out by one version of the tables stay stable through two. *)
LEMMA ExtendsTransitive ==
  ASSUME NEW c \in Database, NEW d \in Database, NEW e \in Database,
         Extends(c, d), Extends(d, e)
  PROVE  Extends(c, e)
<1>1. DOMAIN c.rows \subseteq DOMAIN d.rows
  BY RowsOfDatabase DEF Extends
<1>2. Len(c.rows) <= Len(e.rows) /\ c.sources \subseteq e.sources
  BY RowsOfDatabase DEF Extends
<1> QED
  BY <1>1, <1>2 DEF Extends

(* A stored claim stays stored in every version that extends the tables. *)
LEMMA HoldsExtends ==
  ASSUME NEW d \in Database, NEW e \in Database, Extends(d, e),
         NEW id, NEW key, NEW r, HoldsClaim(d, id, key, r)
  PROVE  HoldsClaim(e, id, key, r)
<1>1. id \in DOMAIN d.rows /\ id \in DOMAIN e.rows
  BY RowsOfDatabase DEF Extends, HoldsClaim
<1> QED
  BY <1>1 DEF Extends, HoldsClaim

\* A new claim is written with its full-text row and its source.
LEMMA InsertedIsGood ==
  ASSUME NEW d \in Database, Good(d), NEW key \in Key, NEW r \in Request,
         Active(d, key) = {},
         NEW id, id = Len(d.rows) + 1,
         NEW e, e = WithSource(Inserted(d, key, r), id, r)
  PROVE  /\ e \in Database
         /\ Good(e)
         /\ Extends(d, e)
         /\ HoldsClaim(e, id, key, r)
         /\ \A q \in Request : q # r /\ NoTrace(d, q) => NoTrace(e, q)
<1> DEFINE row == [key |-> key, tags |-> {r}, active |-> TRUE]
<1>1. /\ e = [rows |-> Append(d.rows, row), sources |-> d.sources \cup {<<id, r>>},
              indexed |-> d.indexed \cup {id}]
      /\ row \in Row
  BY DEF Database, WithSource, Inserted, Row
<1>2. /\ e.rows \in Seq(Row)
      /\ Len(e.rows) = id
      /\ DOMAIN e.rows = (DOMAIN d.rows) \cup {id}
      /\ id \notin DOMAIN d.rows
      /\ e.rows[id] = row
      /\ \A i \in DOMAIN d.rows : e.rows[i] = d.rows[i]
      /\ id \in Nat
  <2> DEFINE old == d.rows
             new == Append(old, row)
  <2>1. old \in Seq(Row) /\ Len(old) \in Nat /\ e.rows = new /\ DOMAIN old = 1..Len(old)
    BY <1>1, RowsOfDatabase
  <2> HIDE DEF old, row
  <2>2. /\ new \in Seq(Row)
        /\ Len(new) = Len(old) + 1
        /\ DOMAIN new = 1..(Len(old) + 1)
        /\ new[Len(old) + 1] = row
        /\ \A i \in 1..Len(old) : new[i] = old[i]
    BY <1>1, <2>1
  <2>3. id = Len(old) + 1
    BY DEF old
  <2> HIDE DEF new
  <2> QED
    BY <2>1, <2>2, <2>3 DEF old
<1>3. e \in Database
  BY <1>1, <1>2, RowsOfDatabase DEF Database
<1>4. OneActive(e)
  <2>1. \A i \in DOMAIN d.rows : ~(d.rows[i].key = key /\ d.rows[i].active)
    BY DEF Active
  <2>2. e.rows[id].key = key
    BY <1>2
  <2>3. \A i \in DOMAIN e.rows : i = id \/ (i \in DOMAIN d.rows /\ e.rows[i] = d.rows[i])
    BY <1>2
  <2>4. \A i, j \in DOMAIN d.rows :
          d.rows[i].key = d.rows[j].key /\ d.rows[i].active /\ d.rows[j].active => i = j
    BY DEF OneActive, Good
  <2>5. ASSUME NEW i \in DOMAIN e.rows, NEW j \in DOMAIN e.rows,
               e.rows[i].key = e.rows[j].key, e.rows[i].active, e.rows[j].active
        PROVE  i = j
    <3>1. CASE i = id /\ j = id
      BY <3>1
    <3>2. CASE i # id /\ j # id
      BY <2>3, <2>4, <2>5, <3>2
    <3>3. CASE i = id /\ j # id
      BY <2>1, <2>2, <2>3, <2>5, <3>3
    <3>4. CASE i # id /\ j = id
      BY <2>1, <2>2, <2>3, <2>5, <3>4
    <3> QED
      BY <3>1, <3>2, <3>3, <3>4
  <2> QED
    BY <2>5 DEF OneActive
<1>5. Findable(e)
  <2>1. e.indexed = DOMAIN e.rows
    <3>1. d.indexed = DOMAIN d.rows /\ e.indexed = d.indexed \cup {id}
      BY <1>1 DEF Findable, Good
    <3> QED
      BY <1>2, <3>1
  <2>2. \A i \in DOMAIN d.rows : \E q \in Request : <<i, q>> \in d.sources
    BY DEF Findable, Good
  <2>3. <<id, r>> \in e.sources /\ d.sources \subseteq e.sources
    BY <1>1
  <2>4. ASSUME NEW i \in DOMAIN e.rows
        PROVE  \E q \in Request : <<i, q>> \in e.sources
    <3>1. CASE i = id
      BY <2>3, <3>1
    <3>2. CASE i \in DOMAIN d.rows
      BY <2>2, <2>3, <3>2
    <3> QED
      BY <1>2, <3>1, <3>2
  <2> QED
    BY <2>1, <2>4 DEF Findable
<1>6. e.sources \subseteq (DOMAIN e.rows) \X Request
  BY <1>1, <1>2 DEF Good
<1>7. Extends(d, e)
  BY <1>1, <1>2, RowsOfDatabase DEF Extends
<1>8. HoldsClaim(e, id, key, r)
  BY <1>1, <1>2 DEF HoldsClaim
<1>9. ASSUME NEW q \in Request, q # r, NoTrace(d, q)
      PROVE  NoTrace(e, q)
  <2>1. <<id, q>> \notin d.sources
    BY <1>2 DEF Good
  <2>2. <<id, q>> \notin e.sources /\ q \notin e.rows[id].tags
    BY <1>1, <1>2, <1>9, <2>1
  <2>3. ASSUME NEW i \in DOMAIN d.rows
        PROVE  <<i, q>> \notin e.sources /\ q \notin e.rows[i].tags
    <3>1. <<i, q>> # <<id, r>> /\ <<i, q>> \notin d.sources
      BY <1>9, <2>3 DEF NoTrace
    <3> QED
      BY <1>1, <1>2, <1>9, <2>3, <3>1 DEF NoTrace
  <2> QED
    BY <1>2, <2>2, <2>3 DEF NoTrace
<1> QED
  BY <1>3, <1>4, <1>5, <1>6, <1>7, <1>8, <1>9 DEF Good

\* A claim found again gets new tags and another source.
LEMMA UpdatedIsGood ==
  ASSUME NEW d \in Database, Good(d), NEW id \in DOMAIN d.rows,
         NEW tags \in SUBSET Request, NEW r \in Request,
         NEW e, e = WithSource(Updated(d, id, tags), id, r)
  PROVE  /\ e \in Database
         /\ Good(e)
         /\ Extends(d, e)
         /\ HoldsClaim(e, id, d.rows[id].key, r)
         /\ \A q \in Request : q # r /\ q \notin tags /\ NoTrace(d, q) => NoTrace(e, q)
<1> DEFINE rows == [d.rows EXCEPT ![id] = [d.rows[id] EXCEPT !.tags = tags]]
<1>1. e = [rows |-> rows, sources |-> d.sources \cup {<<id, r>>}, indexed |-> d.indexed]
  BY DEF Database, WithSource, Updated
<1>2. /\ d.rows[id] \in Row
      /\ [d.rows[id] EXCEPT !.tags = tags] \in Row
      /\ id \in Nat
  BY RowsOfDatabase DEF Row
<1>3. /\ rows \in Seq(Row)
      /\ Len(rows) = Len(d.rows)
      /\ DOMAIN rows = DOMAIN d.rows
      /\ \A i \in DOMAIN d.rows :
           /\ rows[i].key = d.rows[i].key
           /\ rows[i].active = d.rows[i].active
           /\ rows[i].tags = IF i = id THEN tags ELSE d.rows[i].tags
  <2> DEFINE old == d.rows
             row == rows[id]
  <2>1. /\ old \in Seq(Row) /\ Len(old) \in Nat /\ DOMAIN old = 1..Len(old)
        /\ \A i \in DOMAIN old : old[i] \in Row
    BY RowsOfDatabase
  <2>2. /\ DOMAIN rows = DOMAIN old
        /\ \A i \in DOMAIN old : i # id => rows[i] = old[i]
        /\ rows[id] = [old[id] EXCEPT !.tags = tags]
    OBVIOUS
  <2>3. /\ rows \in [1..Len(old) -> Row]
    BY <1>2, <2>1, <2>2
  <2>4. rows \in Seq(Row) /\ Len(rows) = Len(old)
    BY <2>1, <2>3
  <2>5. /\ rows[id].key = old[id].key
        /\ rows[id].active = old[id].active
        /\ rows[id].tags = tags
    BY <1>2, <2>2 DEF Row
  <2> QED
    BY <2>2, <2>4, <2>5
<1> HIDE DEF rows
<1>4. e \in Database
  BY <1>1, <1>2, <1>3, RowsOfDatabase DEF Database
<1>5. OneActive(e) /\ Findable(e)
  <2>1. OneActive(d) /\ Findable(d)
    BY DEF Good
  <2>2. e.rows = rows /\ e.indexed = d.indexed /\ d.sources \subseteq e.sources
    BY <1>1
  <2>3. OneActive(e)
    BY <1>3, <2>1, <2>2 DEF OneActive
  <2>4. Findable(e)
    BY <1>3, <2>1, <2>2 DEF Findable
  <2> QED
    BY <2>3, <2>4
<1>6. e.sources \subseteq (DOMAIN e.rows) \X Request
  BY <1>1, <1>3 DEF Good
<1>7. Extends(d, e)
  BY <1>1, <1>3, RowsOfDatabase DEF Extends
<1>8. HoldsClaim(e, id, d.rows[id].key, r)
  BY <1>1, <1>3 DEF HoldsClaim
<1>9. ASSUME NEW q \in Request, q # r, q \notin tags, NoTrace(d, q)
      PROVE  NoTrace(e, q)
  BY <1>1, <1>3, <1>9 DEF NoTrace
<1> QED
  BY <1>4, <1>5, <1>6, <1>7, <1>8, <1>9 DEF Good

\* A tombstone takes nothing away but the claim's being active.
LEMMA TombstonedIsGood ==
  ASSUME NEW d \in Database, Good(d), NEW id \in DOMAIN d.rows,
         NEW e, e = [d EXCEPT !.rows[id].active = FALSE]
  PROVE  /\ e \in Database
         /\ Good(e)
         /\ Extends(d, e)
         /\ \A q \in Request : NoTrace(d, q) => NoTrace(e, q)
<1> DEFINE rows == [d.rows EXCEPT ![id] = [d.rows[id] EXCEPT !.active = FALSE]]
<1>1. e = [rows |-> rows, sources |-> d.sources, indexed |-> d.indexed]
  BY DEF Database
<1>2. /\ d.rows[id] \in Row
      /\ [d.rows[id] EXCEPT !.active = FALSE] \in Row
  BY RowsOfDatabase DEF Row
<1>3. /\ rows \in Seq(Row)
      /\ Len(rows) = Len(d.rows)
      /\ DOMAIN rows = DOMAIN d.rows
      /\ \A i \in DOMAIN d.rows :
           /\ rows[i].key = d.rows[i].key
           /\ rows[i].active => d.rows[i].active
           /\ rows[i].tags = d.rows[i].tags
  <2> DEFINE old == d.rows
             row == rows[id]
  <2>1. /\ old \in Seq(Row) /\ Len(old) \in Nat /\ DOMAIN old = 1..Len(old)
        /\ \A i \in DOMAIN old : old[i] \in Row
    BY RowsOfDatabase
  <2>2. /\ DOMAIN rows = DOMAIN old
        /\ \A i \in DOMAIN old : i # id => rows[i] = old[i]
        /\ rows[id] = [old[id] EXCEPT !.active = FALSE]
    OBVIOUS
  <2>3. /\ rows \in [1..Len(old) -> Row]
    BY <1>2, <2>1, <2>2
  <2>4. rows \in Seq(Row) /\ Len(rows) = Len(old)
    BY <2>1, <2>3
  <2>5. /\ rows[id].key = old[id].key
        /\ ~rows[id].active
        /\ rows[id].tags = old[id].tags
    BY <1>2, <2>2 DEF Row
  <2> QED
    BY <2>2, <2>4, <2>5
<1> HIDE DEF rows
<1>4. e \in Database
  BY <1>1, <1>2, <1>3, RowsOfDatabase DEF Database
<1>5. OneActive(e) /\ Findable(e)
  <2>1. OneActive(d) /\ Findable(d)
    BY DEF Good
  <2>2. e.rows = rows /\ e.indexed = d.indexed /\ d.sources \subseteq e.sources
    BY <1>1
  <2>3. OneActive(e)
    BY <1>3, <2>1, <2>2 DEF OneActive
  <2>4. Findable(e)
    BY <1>3, <2>1, <2>2 DEF Findable
  <2> QED
    BY <2>3, <2>4
<1>6. e.sources \subseteq (DOMAIN e.rows) \X Request
  BY <1>1, <1>3 DEF Good
<1>7. Extends(d, e)
  BY <1>1, <1>3, RowsOfDatabase DEF Extends
<1>8. ASSUME NEW q \in Request, NoTrace(d, q)
      PROVE  NoTrace(e, q)
  BY <1>1, <1>3, <1>8 DEF NoTrace
<1> QED
  BY <1>4, <1>5, <1>6, <1>7, <1>8 DEF Good
-----------------------------------------------------------------------------
(* The invariant *)

USE DEF Open, Committed

\* What RequestInv says of a request goes on being true when another request or the
\* environment takes a step.
LEMMA RequestKept ==
  ASSUME TypeOK, TypeOK', NEW q \in Request, RequestInv(q), req'[q] = req[q],
         \A p \in Request : req[p].pc \in Committed => req'[p].pc \in Committed,
         q \in writer <=> q \in writer',
         q \notin writer => Extends(db, db'),
         q \in writer => work' = work
  PROVE  RequestInv(q)'
<1>1. /\ View(q) \in Database /\ View(q)' \in Database
      /\ Extends(View(q), View(q)')
  BY ExtendsReflexive DEF TypeOK, View
<1>2. \A id \in DOMAIN View(q).rows :
        /\ id \in DOMAIN View(q)'.rows
        /\ View(q)'.rows[id].key = View(q).rows[id].key
  BY <1>1, RowsOfDatabase DEF Extends
<1>3. NextKey(q)' = NextKey(q)
  BY DEF NextKey
<1>4. req[q].pc = "write" /\ req[q].found # 0 =>
        /\ req[q].found \in DOMAIN View(q)'.rows
        /\ View(q)'.rows[req[q].found].key = NextKey(q)'
        /\ req[q].tags \subseteq Request
        /\ \A p \in req[q].tags : p = q \/ req'[p].pc \in Committed
  BY <1>2, <1>3 DEF RequestInv
<1> QED
  BY <1>4 DEF RequestInv

\* At most one connection holds the write lock, and it has its own working copy.
LEMMA OneWriter ==
  ASSUME MemoryInv, NEW r \in writer
  PROVE  r \in Request /\ writer = {r} /\ WriterInv(r)
BY DEF MemoryInv, TypeOK, WriterInv

\* What a request sees is a sound database that extends the committed one, holds what
\* the request has stored and nothing of another unfinished request.
LEMMA ViewIsGood ==
  ASSUME MemoryInv, NEW r \in Request, req[r].pc \in Open
  PROVE  /\ View(r) \in Database
         /\ Good(View(r))
         /\ Extends(db, View(r))
         /\ HoldsAll(View(r), r)
         /\ \A q \in Request : q # r /\ req[q].pc \notin Committed => NoTrace(View(r), q)
<1>1. CASE r \in writer
  BY <1>1, OneWriter DEF View, WriterInv, MemoryInv, TypeOK
<1>2. CASE r \notin writer
  <2>1. View(r) = db /\ db \in Database
    BY <1>2 DEF View, MemoryInv, TypeOK
  <2>2. req[r].ids = <<>>
    BY <1>2 DEF MemoryInv, RequestInv
  <2>3. HoldsAll(db, r)
    BY <2>2 DEF HoldsAll
  <2> QED
    BY <2>1, <2>3, ExtendsReflexive DEF MemoryInv, OutcomeInv
<1> QED
  BY <1>1, <1>2

\* A claim written, new or found again, is one more claim the request holds.
LEMMA StoredKeeps ==
  ASSUME MemoryInv, NEW r \in Request, req[r].pc = "write", writer \subseteq {r},
         NEW e \in Database, NEW id \in Nat, Good(e), Extends(View(r), e),
         HoldsClaim(e, id, NextKey(r), r),
         \A q \in Request : q # r /\ req[q].pc \notin Committed => NoTrace(e, q),
         work' = e, writer' = {r}, db' = db,
         req' = [req EXCEPT
                   ![r].ids = Append(req[r].ids, id),
                   ![r].pc = IF Len(Append(req[r].ids, id)) = Len(req[r].batch)
                               THEN "commit" ELSE "select"]
  PROVE  MemoryInv'
<1> DEFINE ids == req[r].ids
           ids1 == Append(ids, id)
           pc1 == IF Len(ids1) = Len(req[r].batch) THEN "commit" ELSE "select"
<1>1. /\ req \in [Request -> State]
      /\ req[r] \in State
      /\ ids \in Seq(Nat) /\ req[r].batch \in Seq(Key)
      /\ Len(ids) \in Nat /\ Len(req[r].batch) \in Nat
      /\ Len(ids) < Len(req[r].batch)
  BY DEF MemoryInv, TypeOK, State, RequestInv
<1>2. /\ ids1 \in Seq(Nat)
      /\ Len(ids1) = Len(ids) + 1
      /\ \A j \in 1..Len(ids) : ids1[j] = ids[j]
      /\ ids1[Len(ids) + 1] = id
      /\ DOMAIN ids1 = 1..(Len(ids) + 1)
      /\ DOMAIN ids = 1..Len(ids)
  BY <1>1
<1>3. /\ req'[r] = [req[r] EXCEPT !.ids = ids1, !.pc = pc1]
      /\ \A q \in Request : q # r => req'[q] = req[q]
      /\ DOMAIN req' = Request
  BY <1>1
<1> HIDE DEF ids1
<1>4. /\ req'[r].ids = ids1 /\ req'[r].pc = pc1
      /\ req'[r].batch = req[r].batch
      /\ req'[r] \in State
  BY <1>1, <1>2, <1>3 DEF State, PC
<1>5. TypeOK'
  <2>1. req' \in [Request -> State]
    BY <1>1, <1>3, <1>4
  <2> QED
    BY <2>1 DEF MemoryInv, TypeOK
<1>6. \A q \in Request : (req[q].pc \in Committed <=> req'[q].pc \in Committed)
  BY <1>3, <1>4
<1>7. ASSUME NEW q \in Request \ {r}
      PROVE  OutcomeInv(q)'
  <2>1. OutcomeInv(q) /\ req'[q] = req[q]
    BY <1>3 DEF MemoryInv
  <2> QED
    BY <2>1 DEF OutcomeInv, IsWhole, HoldsAll, HoldsClaim, NoTrace
<1>8. OutcomeInv(r)'
  BY <1>6 DEF MemoryInv, OutcomeInv, NoTrace
<1>9. WriterInv(r)'
  <2>1. Extends(db, e)
    BY ViewIsGood, ExtendsTransitive DEF MemoryInv, TypeOK
  <2>2. HoldsAll(e, r)'
    <3>1. ASSUME NEW j \in 1..Len(ids)
          PROVE  HoldsClaim(e, ids1[j], req[r].batch[j], r)
      <4>1. HoldsClaim(View(r), ids[j], req[r].batch[j], r)
        BY <1>2, ViewIsGood DEF HoldsAll
      <4> QED
        BY <1>2, <4>1, ViewIsGood, HoldsExtends
    <3>2. HoldsClaim(e, ids1[Len(ids) + 1], req[r].batch[Len(ids) + 1], r)
      BY <1>2 DEF NextKey
    <3>3. ASSUME NEW j \in DOMAIN ids1
          PROVE  HoldsClaim(e, ids1[j], req[r].batch[j], r)
      <4>1. j \in 1..Len(ids) \/ j = Len(ids) + 1
        BY <1>1, <1>2
      <4> QED
        BY <3>1, <3>2, <4>1
    <3> QED
      BY <1>4, <3>3 DEF HoldsAll, HoldsClaim
  <2>3. \A q \in Request : q # r /\ req'[q].pc \notin Committed => NoTrace(work', q)
    BY <1>6
  <2> QED
    BY <1>4, <2>1, <2>2, <2>3 DEF WriterInv, HoldsAll, HoldsClaim
<1>10. ASSUME NEW q \in Request
       PROVE  RequestInv(q)'
  <2>1. CASE q = r
    BY <1>1, <1>2, <1>4, <2>1 DEF RequestInv
  <2>2. CASE q # r
    BY <1>3, <1>5, <1>6, <2>2, RequestKept, ExtendsReflexive DEF MemoryInv, TypeOK
  <2> QED
    BY <2>1, <2>2
<1> QED
  BY <1>5, <1>7, <1>8, <1>9, <1>10 DEF MemoryInv

(* Moving the program counter of an upsert leaves its other variables alone. *)
LEMMA PcMoves ==
  ASSUME NEW s \in State, NEW p \in PC
  PROVE  /\ [s EXCEPT !.pc = p] \in State
         /\ [s EXCEPT !.pc = p].pc = p
         /\ [s EXCEPT !.pc = p].batch = s.batch
         /\ [s EXCEPT !.pc = p].ids = s.ids
<1> DEFINE B == Seq(Key)
<1> DEFINE I == Seq(Nat)
<1> DEFINE T == SUBSET Request
<1>1. s \in [pc : PC, batch : B, ids : I, found : Nat, tags : T]
  BY DEF State
<1> HIDE DEF B, I, T
<1>2. [s EXCEPT !.pc = p] \in [pc : PC, batch : B, ids : I, found : Nat, tags : T]
  BY <1>1
<1>3. [s EXCEPT !.pc = p] \in State
  BY <1>2 DEF State, B, I, T
<1> QED
  BY <1>1, <1>3

(* So does a batch that arrives, but for the batch. *)
LEMMA BatchArrives ==
  ASSUME NEW s \in State, NEW b \in Seq(Key)
  PROVE  LET t == [s EXCEPT !.pc = "select", !.batch = b]
         IN  t \in State /\ t.pc = "select" /\ t.batch = b /\ t.ids = s.ids
<1> DEFINE t == [s EXCEPT !.pc = "select", !.batch = b]
<1> DEFINE B == Seq(Key)
<1> DEFINE I == Seq(Nat)
<1> DEFINE T == SUBSET Request
<1>1. s \in [pc : PC, batch : B, ids : I, found : Nat, tags : T] /\ b \in B
  BY DEF State
<1> HIDE DEF B, I, T
<1>2. t \in [pc : PC, batch : B, ids : I, found : Nat, tags : T]
  BY <1>1 DEF PC
<1>3. t \in State
  BY <1>2 DEF State, B, I, T
<1> HIDE DEF State
<1>4. t.pc = "select" /\ t.batch = b /\ t.ids = s.ids
  BY <1>1
<1> QED
  BY <1>3, <1>4

\* A rollback leaves the committed tables as they were.
LEMMA RollbackKeeps ==
  ASSUME MemoryInv, NEW r \in Request, req[r].pc \in Open, Fail(r)
  PROVE  MemoryInv'
<1>1. /\ req \in [Request -> State]
      /\ req' = [req EXCEPT ![r].pc = "failed"]
      /\ db' = db /\ work' = work /\ writer' = writer \ {r}
  BY DEF MemoryInv, TypeOK, Fail
<1>2. /\ req'[r] = [req[r] EXCEPT !.pc = "failed"]
      /\ req'[r].pc = "failed" /\ req'[r] \in State
      /\ \A q \in Request : q # r => req'[q] = req[q]
  <2>1. req[r] \in State /\ "failed" \in PC
    BY <1>1 DEF PC
  <2>2. /\ req'[r] = [req[r] EXCEPT !.pc = "failed"]
        /\ \A q \in Request : q # r => req'[q] = req[q]
    BY <1>1
  <2> QED
    BY <2>1, <2>2, PcMoves
<1>3. TypeOK'
  <2>1. req' \in [Request -> State]
    BY <1>1, <1>2
  <2> QED
    BY <1>1, <2>1 DEF MemoryInv, TypeOK
<1>4. \A q \in Request : (req[q].pc \in Committed <=> req'[q].pc \in Committed)
  BY <1>2
<1>5. \A q \in Request \ {r} : OutcomeInv(q)'
  BY <1>1, <1>2 DEF MemoryInv, OutcomeInv, IsWhole, HoldsAll, HoldsClaim, NoTrace
<1>6. OutcomeInv(r)'
  BY <1>1, <1>2, <1>4 DEF MemoryInv, OutcomeInv, NoTrace
<1>7. ASSUME NEW q \in writer'
      PROVE  WriterInv(q)'
  <2>1. q \in writer /\ q # r
    BY <1>1, <1>7
  <2>2. writer = {q} /\ WriterInv(q) /\ q \in Request
    BY <2>1, OneWriter
  <2>3. HoldsAll(work, q)'
    BY <1>1, <1>2, <2>1, <2>2 DEF WriterInv, HoldsAll
  <2> QED
    BY <1>1, <1>2, <1>4, <2>1, <2>2, <2>3 DEF WriterInv
<1>8. ASSUME NEW q \in Request
      PROVE  RequestInv(q)'
  <2>1. CASE q = r
    BY <1>2, <2>1 DEF RequestInv
  <2>2. CASE q # r
    BY <1>1, <1>2, <1>3, <1>4, <2>2, RequestKept, ExtendsReflexive DEF MemoryInv, TypeOK
  <2> QED
    BY <2>1, <2>2
<1>9. Good(db)'
  BY <1>1 DEF MemoryInv
<1> QED
  BY <1>3, <1>5, <1>6, <1>7, <1>8, <1>9 DEF MemoryInv

\* A step of a request that touches neither the tables nor the lock.
LEMMA LocalKeeps ==
  ASSUME MemoryInv, NEW r \in Request, UNCHANGED <<db, work, writer>>,
         NEW s \in State, req' = [req EXCEPT ![r] = s],
         s.ids = req[r].ids, r \in writer => s.batch = req[r].batch,
         s.pc \in Open, req[r].pc \in {"idle"} \cup Open, RequestInv(r)'
  PROVE  MemoryInv'
<1>1. /\ req \in [Request -> State]
      /\ req'[r] = s
      /\ \A q \in Request : q # r => req'[q] = req[q]
      /\ req' \in [Request -> State]
  BY DEF MemoryInv, TypeOK
<1>2. TypeOK'
  BY <1>1 DEF MemoryInv, TypeOK
<1>3. \A q \in Request : (req[q].pc \in Committed <=> req'[q].pc \in Committed)
  BY <1>1
<1>4. \A q \in Request \ {r} : OutcomeInv(q)'
  BY <1>1 DEF MemoryInv, OutcomeInv, IsWhole, HoldsAll, HoldsClaim, NoTrace
<1>5. OutcomeInv(r)'
  BY <1>1, <1>3 DEF MemoryInv, OutcomeInv, NoTrace
<1>6. ASSUME NEW q \in writer'
      PROVE  WriterInv(q)'
  <2>1. writer = {q} /\ WriterInv(q) /\ q \in Request
    BY <1>6, OneWriter
  <2>2. HoldsAll(work, q)'
    BY <1>1, <2>1 DEF WriterInv, HoldsAll
  <2>3. req'[q].pc \in Open
    BY <1>1, <2>1 DEF WriterInv
  <2> QED
    BY <1>3, <2>1, <2>2, <2>3 DEF WriterInv
<1>7. ASSUME NEW q \in Request
      PROVE  RequestInv(q)'
  <2>1. CASE q # r
    BY <1>1, <1>2, <1>3, <2>1, RequestKept, ExtendsReflexive DEF MemoryInv, TypeOK
  <2> QED
    BY <2>1
<1>8. Good(db)'
  BY DEF MemoryInv
<1> QED
  BY <1>2, <1>4, <1>5, <1>6, <1>7, <1>8 DEF MemoryInv

(* A request that arrives has written nothing. *)
LEMMA ReceiveKeeps ==
  ASSUME MemoryInv, NEW r \in Request, Receive(r)
  PROVE  MemoryInv'
<1>0. PICK n \in 1..MaxClaims : \E b \in [1..n -> Key] :
        req' = [req EXCEPT ![r].pc = "select", ![r].batch = b]
  BY DEF Receive
<1>1. PICK batch \in [1..n -> Key] :
        req' = [req EXCEPT ![r].pc = "select", ![r].batch = batch]
  BY <1>0
<1>2. /\ req \in [Request -> State] /\ req[r].pc = "idle" /\ req[r] = NewRequest
      /\ UNCHANGED <<db, work, writer>>
  BY DEF Receive, MemoryInv, TypeOK, RequestInv
<1>3. n \in Nat /\ n > 0 /\ batch \in Seq(Key) /\ Len(batch) = n
  BY MemoryAssumption
<1> DEFINE s == [req[r] EXCEPT !.pc = "select", !.batch = batch]
<1>4. /\ s \in State /\ s.pc = "select" /\ s.batch = batch
      /\ s.ids = req[r].ids /\ s.ids = <<>>
  <2>1. req[r] \in State
    BY <1>2
  <2>2. NewRequest.ids = <<>>
    BY DEF NewRequest
  <2>3. req[r].ids = <<>>
    BY <1>2, <2>2
  <2> QED
    BY <1>3, <2>1, <2>3, BatchArrives
<1>5. req' = [req EXCEPT ![r] = s]
  BY <1>1, <1>2
<1>6. r \notin writer
  BY <1>2, OneWriter DEF WriterInv
<1> HIDE DEF s
<1>7. RequestInv(r)'
  <2>1. req'[r] = s
    BY <1>2, <1>5
  <2>2. Len(s.ids) = 0 /\ Len(s.batch) = n
    BY <1>3, <1>4
  <2> QED
    BY <1>3, <1>4, <2>1, <2>2 DEF RequestInv
<1> QED
  BY <1>2, <1>4, <1>5, <1>6, <1>7, LocalKeeps

(* What the SELECT finds is a claim of that content, with tags of answered requests. *)
LEMMA SelectKeeps ==
  ASSUME MemoryInv, NEW r \in Request, Select(r)
  PROVE  MemoryInv'
<1> DEFINE d == View(r)
           active == Active(d, NextKey(r))
<1>1. /\ req \in [Request -> State] /\ req[r].pc = "select" /\ req[r] \in State
      /\ UNCHANGED <<db, work, writer>>
  BY DEF Select, MemoryInv, TypeOK
<1>2. /\ d \in Database /\ Good(d)
      /\ \A q \in Request : q # r /\ req[q].pc \notin Committed => NoTrace(d, q)
  BY <1>1, ViewIsGood
<1>3. ASSUME NEW found \in Nat, NEW tags \in SUBSET Request,
             req' = [req EXCEPT ![r].pc = "write", ![r].found = found, ![r].tags = tags],
             found # 0 => /\ found \in DOMAIN d.rows
                          /\ d.rows[found].key = NextKey(r)
                          /\ \A q \in tags : q = r \/ req[q].pc \in Committed
      PROVE  MemoryInv'
  <2> DEFINE s == [req[r] EXCEPT !.pc = "write", !.found = found, !.tags = tags]
  <2>1. /\ s \in State /\ s.pc = "write" /\ s.found = found /\ s.tags = tags
        /\ s.ids = req[r].ids /\ s.batch = req[r].batch
    BY <1>1 DEF State, PC
  <2>2. req' = [req EXCEPT ![r] = s]
    BY <1>1, <1>3
  <2>3. req'[r] = s /\ \A q \in Request : q # r => req'[q] = req[q]
    BY <1>1, <2>2
  <2> HIDE DEF s
  <2>4. View(r)' = View(r) /\ NextKey(r)' = NextKey(r)
    BY <1>1, <2>1, <2>3 DEF View, NextKey
  <2>5. RequestInv(r)'
    <3>1. Len(req[r].ids) < Len(req[r].batch) /\ (req[r].ids # <<>> => r \in writer)
      BY <1>1 DEF MemoryInv, RequestInv
    <3>2. found # 0 => \A q \in tags : q = r \/ req'[q].pc \in Committed
      BY <1>3, <2>3
    <3> QED
      BY <1>1, <1>3, <2>1, <2>3, <2>4, <3>1, <3>2 DEF RequestInv
  <2> QED
    BY <1>1, <2>1, <2>2, <2>5, LocalKeeps
<1>4. CASE active = {}
  BY <1>1, <1>3, <1>4 DEF Select
<1>5. CASE active # {}
  <2>1. PICK id \in active :
          req' = [req EXCEPT ![r].pc = "write", ![r].found = id, ![r].tags = d.rows[id].tags]
    BY <1>5 DEF Select
  <2>2. /\ id \in DOMAIN d.rows /\ id \in Nat /\ d.rows[id] \in Row
        /\ d.rows[id].key = NextKey(r)
    BY <1>2, RowsOfDatabase DEF Active
  <2>3. d.rows[id].tags \in SUBSET Request
    BY <2>2 DEF Row
  <2>4. \A q \in d.rows[id].tags : q = r \/ req[q].pc \in Committed
    BY <1>2, <2>2, <2>3 DEF NoTrace
  <2> QED
    BY <1>3, <2>1, <2>2, <2>3, <2>4
<1> QED
  BY <1>4, <1>5

(* An INSERT adds to the working copy only, or is refused by the unique index. *)
LEMMA InsertKeeps ==
  ASSUME MemoryInv, NEW r \in Request, Insert(r)
  PROVE  MemoryInv'
<1> DEFINE d == View(r)
           id == Len(d.rows) + 1
           e == WithSource(Inserted(d, NextKey(r), r), id, r)
<1>1. /\ req[r].pc = "write" /\ writer \subseteq {r}
      /\ d \in Database /\ Good(d)
      /\ \A q \in Request : q # r /\ req[q].pc \notin Committed => NoTrace(d, q)
  BY ViewIsGood DEF Insert
<1>2. CASE Active(d, NextKey(r)) = {}
  <2>1. Stored(r, Inserted(d, NextKey(r), r), id)
    BY <1>2 DEF Insert
  <2>2. NextKey(r) \in Key
    <3>1. /\ req[r] \in State /\ Len(req[r].ids) < Len(req[r].batch)
      BY <1>1 DEF MemoryInv, TypeOK, RequestInv
    <3> QED
      BY <3>1 DEF NextKey, State
  <2>3. /\ e \in Database /\ Good(e) /\ Extends(d, e) /\ HoldsClaim(e, id, NextKey(r), r)
        /\ \A q \in Request : q # r /\ NoTrace(d, q) => NoTrace(e, q)
    BY <1>1, <1>2, <2>2, InsertedIsGood
  <2>4. id \in Nat
    BY <1>1, RowsOfDatabase
  <2>5. /\ work' = e /\ writer' = {r} /\ db' = db
        /\ req' = [req EXCEPT
                     ![r].ids = Append(req[r].ids, id),
                     ![r].pc = IF Len(Append(req[r].ids, id)) = Len(req[r].batch)
                                 THEN "commit" ELSE "select"]
    BY <2>1 DEF Stored
  <2> HIDE DEF e, id, d
  <2>6. \A q \in Request : q # r /\ req[q].pc \notin Committed => NoTrace(e, q)
    BY <1>1, <2>3
  <2>7. Extends(View(r), e)
    BY <2>3 DEF d
  <2> QED
    BY <1>1, <2>3, <2>4, <2>5, <2>6, <2>7, StoredKeeps
<1>3. CASE Active(d, NextKey(r)) # {}
  BY <1>1, <1>3, RollbackKeeps DEF Insert
<1> QED
  BY <1>2, <1>3

(* An UPDATE writes the tags that were read, to the claim that was found. *)
LEMMA UpdateKeeps ==
  ASSUME MemoryInv, NEW r \in Request, Update(r)
  PROVE  MemoryInv'
<1> DEFINE d == View(r)
           id == req[r].found
           tags == req[r].tags \cup {r}
           e == WithSource(Updated(d, id, tags), id, r)
<1>1. /\ req[r].pc = "write" /\ writer \subseteq {r}
      /\ d \in Database /\ Good(d)
      /\ \A q \in Request : q # r /\ req[q].pc \notin Committed => NoTrace(d, q)
  BY ViewIsGood DEF Update
<1>2. /\ id \in DOMAIN d.rows /\ d.rows[id].key = NextKey(r)
      /\ tags \in SUBSET Request
      /\ \A q \in tags : q = r \/ req[q].pc \in Committed
  BY <1>1 DEF Update, MemoryInv, RequestInv
<1>3. /\ work' = e /\ writer' = {r} /\ db' = db
      /\ req' = [req EXCEPT
                   ![r].ids = Append(req[r].ids, id),
                   ![r].pc = IF Len(Append(req[r].ids, id)) = Len(req[r].batch)
                               THEN "commit" ELSE "select"]
  BY DEF Update, Stored
<1>4. id \in Nat
  BY <1>1, <1>2, RowsOfDatabase
<1> HIDE DEF tags
<1>5. /\ e \in Database /\ Good(e) /\ Extends(d, e) /\ HoldsClaim(e, id, NextKey(r), r)
      /\ \A q \in Request : q # r /\ q \notin tags /\ NoTrace(d, q) => NoTrace(e, q)
  <2>1. HoldsClaim(e, id, d.rows[id].key, r)
    BY <1>1, <1>2, UpdatedIsGood
  <2>2. /\ e \in Database /\ Good(e) /\ Extends(d, e)
        /\ \A q \in Request : q # r /\ q \notin tags /\ NoTrace(d, q) => NoTrace(e, q)
    BY <1>1, <1>2, UpdatedIsGood
  <2> QED
    BY <1>2, <2>1, <2>2
<1> HIDE DEF e, id, d
<1>6. \A q \in Request : q # r /\ req[q].pc \notin Committed => NoTrace(e, q)
  BY <1>1, <1>2, <1>5
<1>7. Extends(View(r), e)
  BY <1>5 DEF d
<1> QED
  BY <1>1, <1>3, <1>4, <1>5, <1>6, <1>7, StoredKeeps

(* The working copy extends the committed tables, so a commit loses nothing. *)
LEMMA CommitKeeps ==
  ASSUME MemoryInv, NEW r \in Request, Commit(r)
  PROVE  MemoryInv' /\ Extends(db, db')
<1>1. /\ req \in [Request -> State] /\ req[r].pc = "commit"
      /\ db' = work /\ work' = work /\ writer' = {}
      /\ req' = [req EXCEPT ![r].pc = "respond"]
  BY DEF MemoryInv, TypeOK, Commit
<1>2. writer = {r} /\ WriterInv(r)
  BY <1>1, OneWriter DEF MemoryInv, RequestInv
<1>3. /\ req'[r] = [req[r] EXCEPT !.pc = "respond"]
      /\ req'[r].pc = "respond" /\ req'[r] \in State
      /\ req'[r].ids = req[r].ids /\ req'[r].batch = req[r].batch
      /\ \A q \in Request : q # r => req'[q] = req[q]
  <2>1. req[r] \in State /\ "respond" \in PC
    BY <1>1 DEF PC
  <2>2. /\ req'[r] = [req[r] EXCEPT !.pc = "respond"]
        /\ \A q \in Request : q # r => req'[q] = req[q]
    BY <1>1
  <2> QED
    BY <2>1, <2>2, PcMoves
<1>4. TypeOK'
  <2>1. req' \in [Request -> State]
    BY <1>1, <1>3
  <2> QED
    BY <1>1, <2>1 DEF MemoryInv, TypeOK
<1>5. Extends(db, db') /\ Good(db)'
  BY <1>1, <1>2 DEF WriterInv
<1>6. Len(req[r].ids) = Len(req[r].batch)
  BY <1>1 DEF MemoryInv, RequestInv
<1>7. OutcomeInv(r)'
  BY <1>1, <1>2, <1>3, <1>6 DEF WriterInv, OutcomeInv, IsWhole, HoldsAll
<1>8. ASSUME NEW q \in Request \ {r}
      PROVE  OutcomeInv(q)'
  <2>1. CASE req[q].pc \in Committed
    <3>1. Len(req[q].ids) = Len(req[q].batch) /\ HoldsAll(db, q)
      BY <2>1 DEF MemoryInv, OutcomeInv, IsWhole
    <3>2. \A j \in DOMAIN req[q].ids :
            HoldsClaim(db', req[q].ids[j], req[q].batch[j], q)
      BY <1>4, <1>5, <3>1, HoldsExtends DEF MemoryInv, TypeOK, HoldsAll
    <3> QED
      BY <1>3, <2>1, <3>1, <3>2 DEF OutcomeInv, IsWhole, HoldsAll
  <2>2. CASE req[q].pc \notin Committed
    BY <1>1, <1>2, <1>3, <2>2 DEF WriterInv, OutcomeInv
  <2> QED
    BY <2>1, <2>2
<1>9. ASSUME NEW q \in Request
      PROVE  RequestInv(q)'
  <2>1. CASE q = r
    BY <1>3, <1>6, <2>1 DEF RequestInv
  <2>2. CASE q # r
    BY <1>1, <1>2, <1>3, <1>4, <1>5, <2>2, RequestKept DEF MemoryInv
  <2> QED
    BY <2>1, <2>2
<1> QED
  BY <1>1, <1>4, <1>5, <1>7, <1>8, <1>9 DEF MemoryInv

(* A tombstone finds no writer, so it never changes rows under one. *)
LEMMA TombstoneKeeps ==
  ASSUME MemoryInv, NEW id \in DOMAIN db.rows, Tombstone(id)
  PROVE  MemoryInv' /\ Extends(db, db')
<1>1. /\ writer = {} /\ UNCHANGED <<work, writer, req>> /\ db \in Database /\ Good(db)
      /\ db' = [db EXCEPT !.rows[id].active = FALSE]
  BY DEF Tombstone, MemoryInv, TypeOK
<1>2. /\ db' \in Database /\ Good(db') /\ Extends(db, db')
      /\ \A q \in Request : NoTrace(db, q) => NoTrace(db', q)
  BY <1>1, TombstonedIsGood
<1>3. TypeOK'
  BY <1>1, <1>2 DEF MemoryInv, TypeOK
<1>4. ASSUME NEW q \in Request, req[q].pc \in Committed
      PROVE  IsWhole(db', q)
  <2>1. Len(req[q].ids) = Len(req[q].batch) /\ HoldsAll(db, q)
    BY <1>4 DEF MemoryInv, OutcomeInv, IsWhole
  <2> QED
    BY <1>1, <1>2, <2>1, HoldsExtends DEF IsWhole, HoldsAll
<1>5. \A q \in Request : OutcomeInv(q)'
  BY <1>1, <1>2, <1>4 DEF MemoryInv, OutcomeInv, IsWhole, HoldsAll
<1>6. \A q \in Request : RequestInv(q)'
  BY <1>1, <1>2, <1>3, RequestKept DEF MemoryInv
<1> QED
  BY <1>1, <1>2, <1>3, <1>4, <1>5, <1>6 DEF MemoryInv

(* An answer, given or lost, changes nothing that is stored. *)
LEMMA RespondKeeps ==
  ASSUME MemoryInv, NEW r \in Request, Respond(r)
  PROVE  MemoryInv'
<1>1. /\ req \in [Request -> State] /\ req[r].pc = "respond"
      /\ UNCHANGED <<db, work, writer>>
  BY DEF MemoryInv, TypeOK, Respond
<1>2. PICK pc \in {"ok", "lost"} : req' = [req EXCEPT ![r].pc = pc]
  BY DEF Respond
<1>3. /\ req'[r] \in State /\ req'[r].pc = pc
      /\ req'[r].ids = req[r].ids /\ req'[r].batch = req[r].batch
      /\ \A q \in Request : q # r => req'[q] = req[q]
  <2>1. req[r] \in State /\ pc \in PC
    BY <1>1, <1>2 DEF PC
  <2>2. /\ req'[r] = [req[r] EXCEPT !.pc = pc]
        /\ \A q \in Request : q # r => req'[q] = req[q]
    BY <1>1, <1>2
  <2> QED
    BY <2>1, <2>2, PcMoves
<1>4. TypeOK'
  <2>1. req' \in [Request -> State]
    BY <1>1, <1>2, <1>3
  <2> QED
    BY <1>1, <2>1 DEF MemoryInv, TypeOK
<1>5. \A q \in Request : (req[q].pc \in Committed <=> req'[q].pc \in Committed)
  BY <1>1, <1>3
<1>6. \A q \in Request : req'[q].ids = req[q].ids /\ req'[q].batch = req[q].batch
  BY <1>3
<1>7. \A q \in Request : OutcomeInv(q)'
  BY <1>1, <1>5, <1>6 DEF MemoryInv, OutcomeInv, IsWhole, HoldsAll, HoldsClaim, NoTrace
<1>8. ASSUME NEW q \in writer'
      PROVE  WriterInv(q)'
  <2>1. writer = {q} /\ WriterInv(q) /\ q \in Request
    BY <1>1, <1>8, OneWriter
  <2>2. q # r
    BY <1>1, <2>1 DEF WriterInv
  <2>3. HoldsAll(work, q)'
    BY <1>1, <1>6, <2>1 DEF WriterInv, HoldsAll
  <2> QED
    BY <1>1, <1>3, <1>5, <2>1, <2>2, <2>3 DEF WriterInv
<1>9. ASSUME NEW q \in Request
      PROVE  RequestInv(q)'
  <2>1. CASE q = r
    BY <1>1, <1>3, <2>1 DEF MemoryInv, RequestInv
  <2>2. CASE q # r
    BY <1>1, <1>3, <1>4, <1>5, <2>2, RequestKept, ExtendsReflexive DEF MemoryInv, TypeOK
  <2> QED
    BY <2>1, <2>2
<1>10. Good(db)'
  BY <1>1 DEF MemoryInv
<1> QED
  BY <1>4, <1>7, <1>8, <1>9, <1>10 DEF MemoryInv

(* A crash fails the open requests and leaves the committed tables. *)
LEMMA CrashKeeps ==
  ASSUME MemoryInv, Crash
  PROVE  MemoryInv'
<1>1. /\ req \in [Request -> State]
      /\ db' = db /\ work' = work /\ writer' = {}
      /\ req' = [q \in Request |->
                   CASE req[q].pc \in Open    -> [req[q] EXCEPT !.pc = "failed"]
                     [] req[q].pc = "respond" -> [req[q] EXCEPT !.pc = "lost"]
                     [] OTHER                 -> req[q]]
  BY DEF MemoryInv, TypeOK, Crash
<1>2. ASSUME NEW q \in Request
      PROVE  /\ req'[q] \in State
             /\ req'[q].ids = req[q].ids /\ req'[q].batch = req[q].batch
             /\ req[q].pc \in Open => req'[q].pc = "failed"
             /\ req[q].pc = "respond" => req'[q].pc = "lost"
             /\ req[q].pc \notin Open \cup {"respond"} => req'[q] = req[q]
  <2>1. req[q] \in State /\ "failed" \in PC /\ "lost" \in PC
    BY <1>1 DEF PC
  <2>2. \/ req[q].pc \in Open /\ req'[q] = [req[q] EXCEPT !.pc = "failed"]
        \/ req[q].pc = "respond" /\ req'[q] = [req[q] EXCEPT !.pc = "lost"]
        \/ req[q].pc \notin Open \cup {"respond"} /\ req'[q] = req[q]
    BY <1>1
  <2>3. \A p \in {"failed", "lost"} :
          /\ [req[q] EXCEPT !.pc = p] \in State
          /\ [req[q] EXCEPT !.pc = p].pc = p
          /\ [req[q] EXCEPT !.pc = p].batch = req[q].batch
          /\ [req[q] EXCEPT !.pc = p].ids = req[q].ids
    BY <2>1, PcMoves
  <2> QED
    BY <2>1, <2>2, <2>3
<1>3. TypeOK'
  <2>1. req' \in [Request -> State]
    BY <1>1, <1>2
  <2> QED
    BY <1>1, <2>1 DEF MemoryInv, TypeOK
<1>4. \A q \in Request : (req[q].pc \in Committed <=> req'[q].pc \in Committed)
  BY <1>2
<1>5. ASSUME NEW q \in Request
      PROVE  OutcomeInv(q)'
  <2>1. /\ OutcomeInv(q) /\ db' = db
        /\ req'[q].ids = req[q].ids /\ req'[q].batch = req[q].batch
    BY <1>1, <1>2 DEF MemoryInv
  <2>2. req[q].pc \in Committed <=> req'[q].pc \in Committed
    BY <1>4
  <2>3. IsWhole(db, q)' <=> IsWhole(db, q)
    BY <2>1 DEF IsWhole, HoldsAll, HoldsClaim
  <2> HIDE DEF Committed
  <2> QED
    BY <2>1, <2>2, <2>3 DEF OutcomeInv, NoTrace
<1>7. ASSUME NEW q \in Request
      PROVE  RequestInv(q)'
  <2>1. CASE req[q].pc \in Open
    BY <1>2, <2>1 DEF RequestInv
  <2>2. CASE req[q].pc = "respond"
    BY <1>2, <2>2 DEF MemoryInv, RequestInv
  <2>3. CASE req[q].pc \notin Open \cup {"respond"}
    BY <1>2, <2>3 DEF MemoryInv, RequestInv
  <2> QED
    BY <2>1, <2>2, <2>3
<1>8. Good(db)'
  BY <1>1 DEF MemoryInv
<1> QED
  BY <1>1, <1>3, <1>5, <1>7, <1>8 DEF MemoryInv

(* Every step keeps the invariant and the ids. *)
LEMMA NextKeeps ==
  ASSUME MemoryInv, Next
  PROVE  MemoryInv' /\ (Extends(db, db') \/ db' = db)
<1>1. ASSUME NEW r \in Request, Receive(r)
      PROVE  MemoryInv' /\ db' = db
  BY <1>1, ReceiveKeeps DEF Receive
<1>2. ASSUME NEW r \in Request, Select(r)
      PROVE  MemoryInv' /\ db' = db
  BY <1>2, SelectKeeps DEF Select
<1>3. ASSUME NEW r \in Request, Insert(r)
      PROVE  MemoryInv' /\ db' = db
  BY <1>3, InsertKeeps DEF Insert, Stored, Fail
<1>4. ASSUME NEW r \in Request, Update(r)
      PROVE  MemoryInv' /\ db' = db
  BY <1>4, UpdateKeeps DEF Update, Stored
<1>5. ASSUME NEW r \in Request, StatementFails(r)
      PROVE  MemoryInv' /\ db' = db
  BY <1>5, RollbackKeeps DEF StatementFails, Fail
<1>6. ASSUME NEW r \in Request, Commit(r)
      PROVE  MemoryInv' /\ Extends(db, db')
  BY <1>6, CommitKeeps
<1>7. ASSUME NEW id \in DOMAIN db.rows, Tombstone(id)
      PROVE  MemoryInv' /\ Extends(db, db')
  BY <1>7, TombstoneKeeps
<1>8. CASE Crash
  BY <1>8, CrashKeeps DEF Crash
<1>9. ASSUME NEW r \in Request, Respond(r)
      PROVE  MemoryInv' /\ db' = db
  BY <1>9, RespondKeeps DEF Respond
<1> QED
  BY <1>1, <1>2, <1>3, <1>4, <1>5, <1>6, <1>7, <1>8, <1>9 DEF Next, RequestStep

(* A step of no variable keeps the invariant. *)
LEMMA StutterKeeps ==
  ASSUME MemoryInv, UNCHANGED vars
  PROVE  MemoryInv'
BY DEF MemoryInv, TypeOK, OutcomeInv, IsWhole, NoTrace, HoldsAll,
       WriterInv, RequestInv, View, NextKey, vars

(* The empty database satisfies the invariant. *)
LEMMA InitInv == Init => MemoryInv
<1> SUFFICES ASSUME Init PROVE MemoryInv
  OBVIOUS
<1>1. Empty \in Database
  BY DEF Empty, Database
<1>2. NewRequest \in State
  BY DEF NewRequest, State, PC
<1>3. TypeOK
  BY <1>1, <1>2 DEF Init, TypeOK
<1>4. Good(db) /\ \A r \in Request : NoTrace(db, r)
  BY DEF Init, Empty, Good, OneActive, Findable, NoTrace
<1>5. \A r \in Request : req[r] = NewRequest /\ req[r].pc = "idle" /\ req[r].ids = <<>>
  BY DEF Init, NewRequest
<1>6. \A r \in Request : OutcomeInv(r) /\ RequestInv(r)
  BY <1>4, <1>5 DEF OutcomeInv, RequestInv
<1> QED
  BY <1>3, <1>4, <1>6 DEF MemoryInv, Init

\* The invariant of the store, for any contents, number of requests and size of batch.
THEOREM MemoryInvariant == Spec => []MemoryInv
<1>1. MemoryInv /\ [Next]_vars => MemoryInv'
  BY NextKeeps, StutterKeeps
<1> QED
  BY InitInv, <1>1, PTL DEF Spec

\* Every variable keeps its type.
THEOREM TypeCorrect == Spec => []TypeOK
<1>1. MemoryInv => TypeOK
  BY DEF MemoryInv
<1> QED
  BY MemoryInvariant, <1>1, PTL

\* upsert and its unique index never leave two active claims of one content.
THEOREM Deduplicated == Spec => []OneActivePerKey
<1>1. MemoryInv => OneActivePerKey
  BY DEF MemoryInv, Good, OneActivePerKey
<1> QED
  BY MemoryInvariant, <1>1, PTL

\* A batch that was answered is stored whole and for good.
THEOREM Durable == Spec => []AcknowledgedIsStored
<1>1. MemoryInv => AcknowledgedIsStored
  BY DEF MemoryInv, OutcomeInv, AcknowledgedIsStored
<1> QED
  BY MemoryInvariant, <1>1, PTL

\* A batch that was refused or is not yet committed has no effect another could see; and
\* a client that never gets an answer (a crash or a lost connection, before the commit or
\* after it) has stored its whole batch or nothing of it.
THEOREM AllOrNothing == Spec => []FailedLeavesNothing
<1>1. MemoryInv => FailedLeavesNothing
  BY DEF MemoryInv, OutcomeInv, FailedLeavesNothing
<1> QED
  BY MemoryInvariant, <1>1, PTL

\* Every claim has its full-text row and a source.
THEOREM Searchable == Spec => []EveryClaimIsFindable
<1>1. MemoryInv => EveryClaimIsFindable
  BY DEF MemoryInv, Good, EveryClaimIsFindable
<1> QED
  BY MemoryInvariant, <1>1, PTL

\* Ids keep their content and sources, and tombstones are final.
THEOREM StableIds == Spec => IdsAreStable
<1>1. MemoryInv /\ [Next]_vars => [Extends(db, db')]_db
  BY NextKeeps DEF vars
<1> QED
  BY MemoryInvariant, <1>1, PTL DEF Spec, IdsAreStable
==============================================================================
