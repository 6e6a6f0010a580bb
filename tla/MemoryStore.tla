------------------------------ MODULE MemoryStore ------------------------------
(***************************************************************************)
(* The durable claims of pi-memory-service: FastAPI runs create_memories   *)
(* in a thread pool, so upserts run at the same time, each on a SQLite     *)
(* connection of its own.  Python's sqlite3 opens the transaction only     *)
(* before the first INSERT or UPDATE: the first SELECT of an upsert is     *)
(* outside it and sees the last commit; what follows the first write runs  *)
(* under the database's write lock.                                        *)
(*                                                                         *)
(* One project's claims.  A claim is its normalised content; each request  *)
(* brings a tag and a provenance (session_id, source_hash) of its own,     *)
(* both named by the request.                                              *)
(***************************************************************************)
EXTENDS Naturals, Sequences

CONSTANTS
  Key,        \* normalised claim contents
  Request,    \* POST /v1/memories requests
  MaxClaims   \* bound on the claims of one request (50 in the code)

ASSUME MemoryAssumption == MaxClaims \in Nat

VARIABLES
  db,       \* what is committed: claims, claim_sources, claims_fts
  work,     \* what the connection holding the write lock sees
  writer,   \* the request whose connection holds it, if any
  req       \* the local variables of each upsert

vars == <<db, work, writer, req>>
-----------------------------------------------------------------------------
(* The tables *)

Row == [key : Key, tags : SUBSET Request, active : BOOLEAN]
Database == [rows : Seq(Row), sources : SUBSET (Nat \X Request), indexed : SUBSET Nat]
Empty == [rows |-> <<>>, sources |-> {}, indexed |-> {}]

Active(d, key) == {id \in DOMAIN d.rows : d.rows[id].key = key /\ d.rows[id].active}

\* Mutant: the claims_fts row is forgotten.
InsertedUnindexed(d, key, r) ==
  [d EXCEPT !.rows = Append(@, [key |-> key, tags |-> {r}, active |-> TRUE])]

\* INSERT of a claim and of its claims_fts row; ids are never reused.
Inserted(d, key, r) ==
  [d EXCEPT !.rows = Append(@, [key |-> key, tags |-> {r}, active |-> TRUE]),
            !.indexed = @ \cup {Len(d.rows) + 1}]

\* Mutant: the update makes the claim active again.
UpdatedActive(d, id, tags) ==
  [d EXCEPT !.rows[id].tags = tags, !.rows[id].active = TRUE]

\* UPDATE ... WHERE id = ?: whether or not the claim is still active.
Updated(d, id, tags) == [d EXCEPT !.rows[id].tags = tags]

WithSource(d, id, r) == [d EXCEPT !.sources = @ \cup {<<id, r>>}]
-----------------------------------------------------------------------------
(* upsert *)

Open == {"select", "write", "commit"}       \* before the commit
Committed == {"respond", "ok", "lost"}      \* after it: not yet answered, answered, never answered
PC == {"idle", "failed"} \cup Open \cup Committed
State == [pc : PC, batch : Seq(Key), ids : Seq(Nat), found : Nat, tags : SUBSET Request]
NewRequest == [pc |-> "idle", batch |-> <<>>, ids |-> <<>>, found |-> 0, tags |-> {}]

View(r) == IF r \in writer THEN work ELSE db
NextKey(r) == req[r].batch[Len(req[r].ids) + 1]

Receive(r) ==
  /\ req[r].pc = "idle"
  /\ \E n \in 1..MaxClaims : \E batch \in [1..n -> Key] :
       req' = [req EXCEPT ![r].pc = "select", ![r].batch = batch]
  /\ UNCHANGED <<db, work, writer>>

\* The active claim of this content, if there is one, and its tags.
Select(r) ==
  /\ req[r].pc = "select"
  /\ LET d == View(r)
         active == Active(d, NextKey(r))
     IN IF active = {}
          THEN req' = [req EXCEPT ![r].pc = "write", ![r].found = 0, ![r].tags = {}]
          ELSE \E id \in active :
                 req' = [req EXCEPT ![r].pc = "write", ![r].found = id,
                                    ![r].tags = d.rows[id].tags]
  /\ UNCHANGED <<db, work, writer>>

\* Mutant: what a failing statement had written stays.
FailKeeps(r) ==
  /\ req' = [req EXCEPT ![r].pc = "failed"]
  /\ writer' = writer \ {r}
  /\ db' = IF r \in writer THEN work ELSE db
  /\ UNCHANGED work

\* An exception rolls the transaction back and gives up the lock; the response
\* is an error.
Fail(r) ==
  /\ req' = [req EXCEPT ![r].pc = "failed"]
  /\ writer' = writer \ {r}
  /\ UNCHANGED <<db, work>>

\* The first write takes the lock and the newest commit; it has to be free.
Stored(r, d, id) ==
  /\ work' = WithSource(d, id, r)
  /\ writer' = {r}
  /\ LET ids == Append(req[r].ids, id)
     IN req' = [req EXCEPT
                  ![r].ids = ids,
                  ![r].pc = IF Len(ids) = Len(req[r].batch) THEN "commit" ELSE "select"]
  /\ UNCHANGED db

\* Mutant: claims_active_dedupe is not there.
InsertUnchecked(r) ==
  /\ req[r].pc = "write"
  /\ req[r].found = 0
  /\ writer \subseteq {r}
  /\ Stored(r, Inserted(View(r), NextKey(r), r), Len(View(r).rows) + 1)

\* The partial unique index refuses a second active claim of this content.
Insert(r) ==
  /\ req[r].pc = "write"
  /\ req[r].found = 0
  /\ writer \subseteq {r}
  /\ IF Active(View(r), NextKey(r)) = {}
       THEN Stored(r, Inserted(View(r), NextKey(r), r), Len(View(r).rows) + 1)
       ELSE Fail(r)

\* The tags written are the tags read, with the claim's own.
Update(r) ==
  /\ req[r].pc = "write"
  /\ req[r].found # 0
  /\ writer \subseteq {r}
  /\ Stored(r, Updated(View(r), req[r].found, req[r].tags \cup {r}), req[r].found)

\* SQLITE_BUSY after the connection's timeout, or any other error.
StatementFails(r) ==
  /\ req[r].pc \in Open
  /\ Fail(r)

\* Mutant: the ids are returned and nothing is committed.
ReturnUncommitted(r) ==
  /\ req[r].pc = "commit"
  /\ req' = [req EXCEPT ![r].pc = "respond"]
  /\ writer' = {}
  /\ UNCHANGED <<db, work>>

Commit(r) ==
  /\ req[r].pc = "commit"
  /\ db' = work
  /\ writer' = {}
  /\ req' = [req EXCEPT ![r].pc = "respond"]
  /\ UNCHANGED work

\* The ids are the response, unless the client has gone or does not get it.
Respond(r) ==
  /\ req[r].pc = "respond"
  /\ \E pc \in {"ok", "lost"} : req' = [req EXCEPT ![r].pc = pc]
  /\ UNCHANGED <<db, work, writer>>

\* DELETE /v1/memories/{id}: one statement and its commit.
Tombstone(id) ==
  /\ writer = {}
  /\ id \in DOMAIN db.rows
  /\ db.rows[id].active
  /\ db' = [db EXCEPT !.rows[id].active = FALSE]
  /\ UNCHANGED <<work, writer, req>>

\* The process dies and is started again by systemd: only commits survive.
Crash ==
  /\ req' = [r \in Request |->
               CASE req[r].pc \in Open      -> [req[r] EXCEPT !.pc = "failed"]
                 [] req[r].pc = "respond"   -> [req[r] EXCEPT !.pc = "lost"]
                 [] OTHER                   -> req[r]]
  /\ writer' = {}
  /\ UNCHANGED <<db, work>>

Init ==
  /\ db = Empty
  /\ work = Empty
  /\ writer = {}
  /\ req = [r \in Request |-> NewRequest]

RequestStep(r) ==
  \/ Receive(r) \/ Select(r) \/ Insert(r) \/ Update(r) \/ StatementFails(r)
  \/ Commit(r) \/ Respond(r)

Next ==
  \/ \E r \in Request : RequestStep(r)
  \/ \E id \in DOMAIN db.rows : Tombstone(id)
  \/ Crash

Spec == Init /\ [][Next]_vars
-----------------------------------------------------------------------------
(* Properties *)

TypeOK ==
  /\ db \in Database
  /\ work \in Database
  /\ writer \subseteq Request
  /\ req \in [Request -> State]

\* Active claims deduplicate on their normalised content, also when two requests
\* bring the same new claim at the same time.
OneActive(d) ==
  \A i, j \in DOMAIN d.rows :
    d.rows[i].key = d.rows[j].key /\ d.rows[i].active /\ d.rows[j].active => i = j
OneActivePerKey == OneActive(db)

\* A request that was answered with its ids is stored, all of it: each id is a claim
\* of that content with the request among its sources, whatever other requests,
\* tombstones and crashes came in between.
HoldsClaim(d, id, key, r) ==
  /\ id \in DOMAIN d.rows
  /\ d.rows[id].key = key
  /\ <<id, r>> \in d.sources
HoldsAll(d, r) ==
  \A j \in DOMAIN req[r].ids : HoldsClaim(d, req[r].ids[j], req[r].batch[j], r)
IsWhole(d, r) == Len(req[r].ids) = Len(req[r].batch) /\ HoldsAll(d, r)
AcknowledgedIsStored == \A r \in Request : req[r].pc = "ok" => IsWhole(db, r)

\* A request that was refused, or cut off before its commit, has left nothing: none of
\* its claims, not even those written before the one that failed, and no source.  One
\* whose answer was lost after the commit has left the whole batch, so that a client
\* without an answer has stored all or nothing.
NoTrace(d, r) ==
  \A id \in DOMAIN d.rows : <<id, r>> \notin d.sources /\ r \notin d.rows[id].tags
FailedLeavesNothing ==
  \A r \in Request :
    /\ req[r].pc \notin Committed => NoTrace(db, r)
    /\ NoTrace(db, r) \/ IsWhole(db, r)

\* Every claim can be found, and told where it is from: it has its full-text row and
\* at least one source.
Findable(d) ==
  /\ d.indexed = DOMAIN d.rows
  /\ \A id \in DOMAIN d.rows : \E r \in Request : <<id, r>> \in d.sources
EveryClaimIsFindable == Findable(db)

\* An id given out stays what it was: its claim keeps its content and its sources, and
\* a tombstone is final, even for a request that read the claim while it was active.
Extends(d, e) ==
  /\ Len(d.rows) <= Len(e.rows)
  /\ d.sources \subseteq e.sources
  /\ \A id \in DOMAIN d.rows :
       /\ e.rows[id].key = d.rows[id].key
       /\ e.rows[id].active => d.rows[id].active
IdsAreStable == [][Extends(db, db')]_db

\* What the README says of repeated claims, that they merge their tags: the tag of
\* every answered request is on the claims it named.
TagsAreMerged ==
  \A r \in Request :
    req[r].pc = "ok" => \A j \in DOMAIN req[r].ids : r \in db.rows[req[r].ids[j]].tags

\* The inductive strengthening: the working copy extends the committed tables, is as
\* sound as they are and holds no trace of any other unfinished request; a request
\* that has written holds the lock; the claim an upsert has found is still there.
Good(d) ==
  /\ OneActive(d)
  /\ Findable(d)
  /\ d.sources \subseteq (DOMAIN d.rows) \X Request
WriterInv(r) ==
  /\ writer = {r}
  /\ Good(work)
  /\ Extends(db, work)
  /\ req[r].pc \in Open
  /\ HoldsAll(work, r)
  /\ \A q \in Request : q # r /\ req[q].pc \notin Committed => NoTrace(work, q)
RequestInv(r) ==
  /\ req[r].pc \in {"select", "write"} => Len(req[r].ids) < Len(req[r].batch)
  /\ req[r].pc \in {"commit"} \cup Committed => Len(req[r].ids) = Len(req[r].batch)
  /\ req[r].pc = "commit" => r \in writer
  /\ req[r].pc \in Open /\ req[r].ids # <<>> => r \in writer
  /\ req[r].pc = "idle" => req[r] = NewRequest
  /\ req[r].pc = "write" /\ req[r].found # 0 =>
       /\ req[r].found \in DOMAIN View(r).rows
       /\ View(r).rows[req[r].found].key = NextKey(r)
       /\ req[r].tags \subseteq Request
       /\ \A q \in req[r].tags : q = r \/ req[q].pc \in Committed
OutcomeInv(r) == IF req[r].pc \in Committed THEN IsWhole(db, r) ELSE NoTrace(db, r)
MemoryInv ==
  /\ TypeOK
  /\ Good(db)
  /\ \A r \in Request : OutcomeInv(r)
  /\ \A r \in writer : WriterInv(r)
  /\ \A r \in Request : RequestInv(r)
==============================================================================
