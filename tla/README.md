# ChimeraDB: TLA+ models, checks and proofs

ChimeraDB's plugin `chimera_mongo` (src/chimera/plugin/chimera_mongo) makes a
MariaDB server answer MongoDB's wire protocol. Documents are rows of ordinary
InnoDB tables; triggers mirror every write, from either protocol, into an oplog
table that MongoDB clients tail and open change streams on. This project models
the plugin's own logic: what it does between SQL statements, and what other
sessions, the pruner and crashes do in between. InnoDB itself is external and
modelled by what the plugin relies on.

## 1. Inventory

| Component | State | Operations | What is hard |
|---|---|---|---|
| Oplog (oplog.cc) | clock row, oplog table, history row, pruner's plan | `oplog_append` in triggers, `prune_oplog`, `install_oplog_schema`, `signal_oplog_write` | every writer and the pruner meet on one row lock; rollbacks leave gaps; crash between any two statements |
| Change streams and tails (changestream.cc, commands.cc) | cursor position, batch being read, client's token | open at head / time / token, `tail_batch`, `find_oplog` | statements of one getMore interleave with commits and deletions; lost replies; lost wake-ups |
| Document writes (collection.cc, commands.cc, update.cpp) | rows, row locks, open transactions; a batch's errors, counters and stamp | insert, update, upsert, delete, findAndModify through `run_atomically`, one transaction per element | read-modify-write without a lock; counters from stale reads; row lock and clock lock; a COMMIT that fails after its stamp was read |
| Listener (listener.cc) | `stopping_`, `live_fds_`, connection threads | accept, serve, `stop` | shutdown against threads anywhere in their loops; descriptor reuse |
| Cursor registry (cursor.cc) | map of cursors, last use | open, `next_batch`, `advance_tail`, expire, kill | a getMore is two registry calls; threads of broken connections; expiry only on open; `kill_all` against running commands |
| Collections and catalog (collection.cc) | tables, triggers, catalog rows | create, drop, indexes | sequences of DDL that commit one by one |
| Schema installation (oplog.cc) | schema, history row | `install_oplog_schema` | two installers; migration of an old oplog |
| Projections (projection.cc) | columns, BEFORE triggers, catalog rows | `chimera_add_projection`, writes of either protocol | which side wins; installation statement by statement; order of triggers |
| SQL gateway (sqlgateway.cc, sqlguard.cpp) | the connection's session, `chimera_mongo_sql_writes` | one SQL statement | two defences against writes, a flag that flips, a session that is used again |
| `mongo()` gateway (mongogateway.cc, mongosh.cpp) | a session | parse a mongosh call, dispatch, drain the cursor | optional arguments; a loop that must end |
| Wire codec (wire.cc) | none | OP_MSG to sections to a command | lengths from the client |
| Translator (translator/src) | none | filters to SQL, update operators, sort, projection, pipelines, row keys, tokens | three-valued logic, numbers of several types, nested paths |
| Handshake, CLI, packaging, chimera-lite | none of interest | | |

How they interact: a connection thread (Listener) dispatches a command; a write
runs as one transaction per batch element, whose row triggers take the clock row
and append to the oplog; after COMMIT the command signals parked getMores. A
getMore reads the oplog in autocommit statements and parks up to
`kOplogPollMs` at a time. The pruner thread plans in autocommit, then deletes
and raises the history watermarks in one transaction under the clock row.
Streams compare their position with the watermarks after every read.

What makes each component correct:

- oplog: commit order is seq order; nothing rolled back is visible; the history
  row tells exactly what was deleted; the newest row is never deleted;
- streams: every event of the namespace after the start is delivered once and in
  order, or the client is told 286 (`ChangeStreamHistoryLost`), and it is told so
  only if something really is gone;
- writes: no update is lost, replies tell what happened, the oplog replays to the
  table; among single-document writes only inserts of one taken key can deadlock;
- listener: `stop()` returns, leaves nothing behind and touches nobody else's
  descriptors;
- catalog: a table without its mirror is one a session is still installing it on,
  or died at; catalog rows describe the table;
- projections: column and document agree, whichever was written, and the oplog
  has what the table has;
- cursors: a result is complete, in order and its client's own, or an error; what
  nobody reads goes;
- batches: the reply accounts for every element, and its operationTime is one a
  fence can wait on;
- SQL gateway: nothing is written while writes are off, and the session is left
  as it was found;
- translator and codec: operators do what MongoDB's do, on the path they name;
  equal numbers have equal keys; what is accepted is read whole.

## 2. Modules

| Module | Models | Composition |
|---|---|---|
| `Oplog` | clock, oplog, history row, writers' transactions, pruner, crash | |
| `ChangeStream` | streams and raw tails | EXTENDS `Oplog`; implements `EventFeed` |
| `EventFeed` | what a change stream promises | abstract specification |
| `Documents` | commands writing documents of one collection | stands alone: the oplog is reduced to its clock lock and entries |
| `Listener` | accept and connection threads, `stop()` | stands alone |
| `Catalog` | the life of one collection: table, triggers, indexes, catalog rows | stands alone |
| `Cursors` | the cursor registry, its wire clients and the drain loop of `mongo()` | stands alone |
| `WriteBatch` | one insert, update or delete command over its elements | stands alone: an element is how its transaction ends |
| `SqlGateway` | `run_sql_gateway` on a connection's session | stands alone |
| `Projection` | projected columns of one row | stands alone |
| `Bson` | BSON values and their equality | operators |
| `Paths` | reading and writing along paths, the stored form | EXTENDS `Bson` |
| `Updates` | update operators, replacements and upserts on a table | EXTENDS `Paths` |
| `Where` | filters: the WHERE clause and what MongoDB answers | EXTENDS `Bson` |
| `Queries` | sort, pages, groups, projections, pipelines | EXTENDS `Where` and `Paths` |
| `Keys` | the row key of an `_id`, resume tokens, options of `$changeStream` | operators |
| `Wire` | OP_MSG parsing and folding | operators |
| `Shell` | mongosh calls to commands | operators |
| `OplogProofs`, `ChangeStreamProofs`, `DocumentsProofs`, `ListenerProofs`, `CursorsProofs` | theorems | each EXTENDS the module it is named after; `ChangeStreamProofs` also `OplogProofs` |
| `CommandProofs` | theorems | EXTENDS `WriteBatch` and `SqlGateway` |
| `TableProofs` | theorems | EXTENDS `Catalog` and `Projection` |
| `TranslatorProofs` | theorems | EXTENDS `Keys`, `Wire`, `Where` and `Updates` |
| `MCOplog`, `MCChangeStream`, `MCStream`, `MCDocuments`, `MCCatalog` | values and cases for TLC | |
| `MCTables` | `Catalog` and `Projection` side by side | |
| `MCCommands` | `Cursors`, `WriteBatch` and `SqlGateway` side by side | |
| `MCTranslator` | `Updates`, `Queries`, `Keys`, `Wire` and `Shell` side by side | |

The last three put parts into one run that have no state in common: a variable
`part`, fixed in the first state, says which of them a behaviour is about, so a
run is as large as the sum of its parts and not their product. `Queries` and
`Shell` use RECURSIVE operators and are for TLC only; elsewhere a loop of the
code is a function of its rounds, and a recursion a function of the depth or of
the place on the path.

Definitions named "Mutant" are deliberately broken variants of the definition
below them; nothing uses them. They are substituted one at a time to see that a
property notices.

### Oplog

One variable per table (`oplog`, `clock`, `hist`), the AUTO_INCREMENT counter
`next`, the owner of the clock row's lock, and what that owner's open transaction
has written (`pend`, `pclock`). `log` is a history variable: every row ever
committed, where `oplog` forgets pruned rows. A writer's transaction is
`StartStatement` (which fixes UNIX_TIMESTAMP()), any number of `OplogAppend` (one
per row trigger), `ReadStamp` (wire clients only, as in `run_atomically`), and
`Commit` or `Rollback`; `SignalWrite` follows the commit of a wire client, and
plain SQL clients never signal. `prune_oplog` is one action per statement
(`PruneHead` ... `PruneLock`); what it does while it owns the clock row
(`PruneDelete`) is one action, because nobody else can touch those rows
meanwhile and a crash undoes all of it. `CrashOplog` undoes open transactions and may move
AUTO_INCREMENT back to just above the committed rows.

Init ranges over the databases `install_oplog_schema` can find: a fresh one, one
an older version pruned, and one whose first seq was lost to a rollback.

### ChangeStream

A consumer is a client and its server cursor. The client's part (`token`,
`origin`, `since`, `got`) survives a broken connection and a server crash, the
cursor (`after`, and a getMore's `head`, `batch`, `nextAfter`) does not. The
program counter `cpc` walks through the statements of an open and of a getMore:
`SampleHead`, `ReadBatch`, `CheckHistory`, then `Park`/`Wake` or
`AdvanceTail`/`Receive`. Sorting by seq with LIMIT n is `Lowest(S, n)`. Event
bodies and token text are abstracted to the seq. A raw tail takes the same steps
without the history check; `find_oplog` is `FindHead` and then a read in either
direction. `Disconnect` stands for a lost connection, a killed cursor and a
cursor that expired.

`EventFeed` has no cursors or statements: events are published in order,
subscribers move forward and receive what they pass, and are cut off only if
something ahead of them was forgotten. The refinement maps `log`, `oplog`,
`token` and `got`, so it hides everything the server does.

### Documents

An operation is one transaction: it reads a snapshot (`Load`, `LoadToRemove`,
`LoadUpsert`) or not (`StartStatement`), then per document takes the row lock and
writes (`WriteRow`) or finds the row gone (`MissRow`), then its trigger takes the
clock and appends the entry (`Trigger`), then `Commit`; `Fail` is every error
path. An INSERT that finds a record of its key, a committed row, another's
uncommitted one or a deleted one not yet purged, first asks for a shared lock on
it to check for a duplicate (`AskShared`); once the exclusive lock is gone every
one who asked gets it (`GrantShared`, `dup`), and the exclusive lock it then needs
waits for the others' shared ones. Two inserts of one `_id` that waited for a
delete or a rollback so wait for each other, which the run reaches, and `Fail` is
the victim's end. The gap a shared lock also covers is taken to be as wide as
possible: in `Waits` an insert of any absent document waits for it. Locks of
unique secondary indexes are left out. A document is the set of updates it carries, which is what tells a lost
update from a kept one. `isolated` is the one difference between the two
supported servers: MariaDB 11.8 has innodb_snapshot_isolation on and fails a
statement that locks a row changed after the snapshot, 10.11 does not have it on.

### Listener

The kernel's descriptor table is part of the state, and the rest of the server
opens and closes descriptors at any time (`OtherFile`). Messages arriving and
replies being taken are the client's steps; a thread in recv or send leaves it
only through them or once its socket is shut down; what was sent before can still
be read after that.

### Catalog

One collection: whether its table exists, which of its three oplog triggers and
which indexes it has, and its rows in `chimera_meta`. A command is a walk
through its statements (`pc`), each of which commits by itself; `Exists` is the
check create(), drop() and require_exists() begin with. `Fail` is a statement
the server refuses (`Refused`) and, if `Aborts`, a session that dies anywhere.
`unmirrored` and `torn` are history: a document written without an entry, and a
table whose installer died. A command on several indexes is its elements, one
after the other.

### Cursors

The registry is a function from ids to entries (namespace, owner, length and
offset of the result, seconds since its last use). A registry call holds the
mutex and is one action; a getMore is two, `GetMore` (tail_state) and then
`NextBatch` or `TailBatch`, so another connection can kill, expire or serve the
cursor in between. `LoseReply` breaks a client's connection: the thread goes on
as an orphan and takes a batch nobody will see (`OrphanBatch`). `KillAll` is
`Listener::stop`. A SQL caller runs the same actions through `collect_cursor`.
next_id_ only grows; the model hands out an id again once nobody has a record of
it, which is the same to every user and keeps the state space finite.

### WriteBatch

`Receives`, `OpensCollection`, then per element `Malformed`, or `Begins`,
`BodyFails` / `BodyRuns`, `Commits` / `CommitFails`, then `Replies`. What the
transaction itself does is Documents'; here an element is how it ends. The stamp
is read inside the transaction and overwrites the one before, as in
`run_atomically`. Other sessions move the clock whenever this one does not hold
it.

### SqlGateway

`Call` looks at the exposure, the flag and the keyword once; `StartReadOnly`,
`Query` / `QueryFails` and `CommitReadOnly` follow on a session that the next
call finds as it is. START and COMMIT may fail too (`StartReadOnlyFails`,
`CommitReadOnlyFails`), outside the try: that a failed COMMIT still ends its
transaction is the server's part. A statement is its keyword, what it really does and whether
the server fails it, so a SELECT that writes through a function is one of them.
`SetFlag` may come anywhere.

### Projection

`chimera_add_projection` walks through its statements (catalog row, column, backfill,
insert trigger, update trigger) while clients insert, update and delete the
row. A field's value sits in its extended JSON wrapper, which is what the read
expression (`Read`), the patch (`Patched`) and the two triggers work on; `Cast`
is what a column of the type holds. `RunBefore` runs an event's triggers in the
order of their creation, each on what the one before it left, however many there
are; `AddTrigger` takes the trigger of the same name out of that order and puts
the new one last. `raced` says that a client wrote between the backfill and the
triggers.

### Translator, codec and shell

Functions of their input, checked against an independent definition over every
input of a bounded set: one action asks a question, and the property compares the
code's answer with what it ought to be.

- `Paths` takes set_in and unset_in from the end of the path back to the document.
  A stored document is what extended JSON brings back (`StoredValue`), where an
  array's elements are numbered afresh; `MaxDepth` is the nesting a JSON column
  takes (32 in MariaDB), and a deeper document is an error. Only containers are
  counted: a type wrapper such as $numberLong is one more level of the text.
- `Updates` keeps a table, so that commands follow each other. load() has no ORDER
  BY: a command takes its rows in any order (`Orders`), and an updateOne any of
  them. An error undoes the command (`RolledBack`). The argument of $push and
  $addToSet may be a document with $each; an $each that is no array and any other
  modifier are refused (`EachOk`).
- `Where` has the WHERE clause in SQL's three truth values (`Sql`) and MongoDB's
  meaning (`Mongo`), for filters written as sequences of nodes, each after the
  ones it joins; `Trusted` says where they agree, and it is the negations of null,
  missing fields, arrays and documents where they do not. Of what bind() takes the
  fields hold numbers, strings and null; booleans, dates, timestamps and object
  ids are not among them.
- `Keys` has integers and doubles with the code's layout (sign, biased exponent,
  mantissa, infinities and NaN) and tokens, of any sizes: `Width` 64, `ExpBits` 11,
  `ManBits` 52, `Bias` 1023, `Base` 16, `Digits` 16 are the code's.
- `Wire` has cells for bytes, lengths in cells, and one length cell for four.
  Sections and the documents of a sequence are read in rounds, of which there are
  never more than cells.
- `Shell` has tokens for text. build_shell_command's result is a record with the
  field names the code gives them (`filter`, `projection`, `q`, `u`, `multi`,
  `limit`, `documents`, `pipeline`), each holding the argument that was put there.
  `Effect` is what the handlers then read from it by those names, with their
  defaults (a missing filter is the empty one): what is done, to the documents
  that fit which filter, how many, and with what. `Means` says the same of the
  call itself, by the places mongosh gives its arguments, and the two must agree,
  with every argument arriving somewhere. `MongoshRefuses` lists the calls that
  mongosh rejects and the gateway does not (a write without a filter, operators
  given to replaceOne or a plain document to updateOne, a list with something that
  is no document); for these no meaning is stated, but an insertMany that inserts
  less than its list must say so. An array passes for a document, as as_view lets
  it.

## 3. Runs

| Run | Checks | Shows |
|---|---|---|
| `oplog` (`MCOplog.cfg`) | `OplogTypeOK`, `NewestSurvives`, `WatermarkExact`, `StampsAreTrue`, `CommitsAboveHead`, `PrunesOnlyExcess` | the oplog with one wire and one SQL writer, all databases, four retention settings |
| `stream` (`MCStream.cfg`) | `ConsumersInv`, `NoSilentGap`, `DeliversOnce`, `StartTimeInclusiveIfOrdered`, `LostOnlyWhenPruned`, `ImplementsEventFeed` | a stream or a tail of local.oplog.rs against commits, pruning by rows and by age, lost replies, resumes, restarts |
| `delivery` (`MCLive.cfg`) | `EventuallyDelivered` | events get out, signalled or not |
| `documents` (`MCDocuments.cfg`) | `DocumentsInv`, `UpdatesAccumulateIfIsolated`, `RepliesAreTrueIfIsolated`, `OnlyInsertsWaitInCircle` | three concurrent commands of any kind, on a server with and on one without snapshot isolation |
| `listener` (`MCListener.cfg`) | `ListenerTypeOK`, `LiveFdsAreOurs`, `NothingOutlivesStop`, `StopReturns` | two connections, two descriptors, stop at any time |
| `tables` (`MCTables.cfg`) | `CatalogTypeOK`, `MirrorOrInProgress`, `ProjectionInv`, `ColumnAgrees`, `WriteThrough` | two sessions running any operation on one collection, dying anywhere; two projections installed over a row that clients write |
| `commands` (`MCCommands.cfg`) | `CursorsInv`, `GatewayReturns`, `AbandonedCursorsGo`, `ReplyAccountsForBatch`, `FenceHolds`, `SessionLeftClean`, `ReadOnlyNeverWrites` | a wire client and a SQL caller on the registry; every batch of up to three elements; any sequence of SQL calls |
| `translator` (`MCTranslator.cfg`) | `KeysAndIdsAgree`, `UpdatesDoWhatTheySay`, `FilterAgrees`, `ResultsAreShaped`, `EncodingsAreFaithful`, `RequestsReadWhole`, `StatementsMeanWhatTheySay` | the translator, the codec and the shell parser against reference definitions |
| `start_time_skew`, `tail_twice`, `lost_update`, `unmirrored_write` | one property each, violated | the findings below |

Some of these are conjunctions of named parts, and for each part there is a
mutant that breaks it:

| Property | Parts |
|---|---|
| `StampsAreTrue` | `ClockIsNewestEntry`, `StampIsOwnEntry` |
| `ConsumersInv` | `StreamTypeOK`, `TailSkipsOnlyPruned` |
| `DocumentsInv` | `DocumentsTypeOK`, `ReplayMatchesTable` |
| `ProjectionInv` | `ProjectionTypeOK`, `OneWrapper`, `EntryIsMerged` |
| `CursorsInv` | `CursorsTypeOK`, `WholeResult`, `OwnDocumentsInOrder` |
| `FenceHolds` | `FenceCoversBatch`, `FenceEnds` |
| `UpdatesDoWhatTheySay` | `ModifiedIsTrue`, `NothingBesideThePath`, `SetReadsBack`, `SetsStaySets` |
| `ResultsAreShaped` | `SortOrderIsStrictWeak`, `PagesAgree`, `GroupsAreDistinctValues`, `ProjectionsDivide`, `PipelinesMeanTheirStages` |
| `EncodingsAreFaithful` | `KeysAreNumbers`, `KeysReadBack`, `TokensReadBack`, `OptionsInAnyOrder` |
| `RequestsReadWhole` | `AcceptsOnlyEncodings`, `NoDocumentLost` |
| `StatementsMeanWhatTheySay` | `StatementsReadWhole`, `CallsMeanWhatTheySay` |

Bounds. `MaxSeq` 3 or 4 allows a deleted row, a rollback gap, the survivor and a
new row at once; `MaxTime` 2 or 3 allows two statements in different seconds and
an age cut between them. Batch sizes 1 and 2 make both full and short batches
happen. One consumer is enough because consumers share no state with one another
(the action constraint `Focus` of `MCStream` lets one move at a time, keeps the
second namespace and the row limit to the first second, where they are all that
matters, and the third second to two rows, which is where an age limit first
deletes one); the theorems cover any number. Three operations on
two documents allow a reader, a writer it races with and a third party that
deletes or re-inserts; a cycle of waits needs two operations. Two descriptors and
two connections allow reuse of a closed one. Two sessions on a collection allow
one that creates and one that drops what it made and makes it again. Namespaces
are two where filtering matters.

In `tables`, two columns on two fields may share a field or have one each, and
`MaxCalls` 2 allows a second projection while the first is in use; values are a
word, an integer and a fraction, which no integer column holds as it is. In
`commands`, results of up to two documents in batches of none or one take up to
three replies; two ids are one in use and one abandoned; an idle timeout of 0
makes every tick count; batches of three elements have one before and one after
a failure; two writes of others (`MaxClock`) suffice to be ahead of a stamp. In
`translator`, two updates in a row (`MaxUpdates`) let an operator meet what
another one left, and one of the paths makes a document deeper than `MaxDepth` 3
allows; filters join up to two comparisons, on two fields that may be missing,
null, scalars, arrays (one of them empty) or a document; three records
(`MaxRecords`) are what transitivity and a page in the middle need, and
pipelines have up to three stages; integers of 6 bits and doubles with 3 bits of
exponent and 2 of mantissa (`Bias` 1) include fractions, numbers beyond the
integers and every special value; tokens have 3 digits in base 3, and a stage up
to three options (`MaxOptions`); messages are all of up to 8 cells over {0, 1,
2, 3}, and statements all of up to 6 tokens.

Deadlock is checked in `oplog`, `stream`, `delivery` and `listener`. In
`documents` each operation runs once, and in `tables`, `commands` and
`translator` a part may come to its end (all calls made, the batch answered, the
question asked): those runs do not check for it. There, that nobody waits for
ever is `GatewayReturns`, and `OnlyInsertsWaitInCircle` says what InnoDB's
detector is needed for.

Fairness. `FairSpec` of ChangeStream has weak fairness of each getMore: a server
thread keeps running, the parked wait is capped by `kOplogPollMs` (commands.cc:392),
and a client that has its reply asks again, which is what a change-stream driver
does. No fairness is assumed of writers, of the pruner or of the signal.
`FairSpec` of Listener has weak fairness of the accept thread (its poll is capped
by `kAcceptPollMs`), of `stop()` and of each connection thread's own steps; a
command ends because awaitData has a deadline and lock waits time out. Clients
owe nothing. `CursorsFairness` is weak fairness of time and of each SQL session
that is inside mongo(): its loop is code of the server. Wire clients may stop
anywhere. Nothing makes anybody open a cursor, and only opening expires others,
so `AbandonedCursorsGo` is conditional on cursors being opened again and again.

## 4. Findings

1. `start_time_skew`: seq order is not ts order. UNIX_TIMESTAMP() is the start
   time of the triggering statement, which may then wait for the clock row, while
   oplog.cc:33 says seq, ts and commit order are the same order. So a stream
   opened at an operation time can start after an event at that time (`StartTimeInclusive`);
   changestream-plan.md:246 says events at or after the time are delivered. It
   does hold when timestamps follow seqs (`StartTimeInclusiveIfOrdered`, run
   `stream`).
2. `tail_twice`: `find_oplog` opens a tail at the head it sampled before its
   read; a row committed in between is in the first batch and again in the first
   getMore (`TailDeliversOnce`). `tail_batch` has the same race and takes the maximum to avoid it.
3. `lost_update`: chimeraDB-plan.md D6 says the document is locked FOR UPDATE;
   `Collection::load` is a plain SELECT. On 10.11 a concurrent update is
   overwritten (`UpdatesAccumulate`), on 11.8 the server's snapshot isolation fails the second one
   instead (run `documents`).
4. `unmirrored_write`: create() makes the table and then its triggers;
   collection.cc:92 says they are the same step, so that a table can never exist
   without its mirror. A second insert that finds the table writes before the
   triggers are there, and its document never reaches the oplog
   (`EveryWriteMirrored`). If the creating
   session dies in between, exists() keeps every later create() from repairing
   it (`torn` in `MirrorOrInProgress`); chimera_adopt_table by hand does.

Not findings of a run, but worth knowing; the models have these states, and the
properties say in their comments where they stop:

- drop_index() alters the table and then deletes the row that create_index() asks
  "Already there?" (collection.cc:218), and create_index() works in the opposite
  order. A session that dies in between, or three that interleave, leave a row
  without an index or an index without a row, and createIndexes then succeeds
  without an index or fails for good.
- A document written between a projection's backfill and its triggers keeps a
  column that does not show it, and columns that share their first 20 characters
  replace each other's triggers (`raced` and `Apart` in `ColumnAgrees`).
- An operationTime whose COMMIT failed is still sent, and the clock need not have
  reached it (`FenceEnds`).
- `$set` and `$unset` of `_id` are applied and part a document from its key
  (`KeysAndIdsAgree`); a path below an array that names no element adds one
  (`Misnames`).
- Negations, null and arrays in filters differ from MongoDB's (`Trusted`), regular
  expressions break the sort order, and count takes a negative limit for none where
  find takes its magnitude.
- A mongo() call that opens a tail never returns; one whose write had writeErrors
  returns the reply, where chimera/README.md:236 says a failed write raises a SQL
  error.

## 5. Proofs

All theorems hold for every value of the constants that satisfies the modules'
assumptions: any number of writers, consumers, connections, sessions, documents,
operations, columns, triggers, fields and nested levels. The bounds (`MaxSeq`,
`MaxTime`, `MaxBatch`...) are constants too, so they hold for any bound. Prover:
TLAPS with SMT, Zenon and PTL. Every safety property of the runs on state machines is a theorem; each
inductive invariant was checked by TLC on the run's instance before it was
proved.

| Theorem | States | Inductive invariant |
|---|---|---|
| `OplogTypeCorrect` | `OplogSpec => []OplogTypeOK` | `OplogInd` |
| `PrunerKeepsNewest` | `OplogSpec => []NewestSurvives` | `OplogInd` |
| `WatermarksAreExact` | `OplogSpec => []WatermarkExact` | `OplogInd` |
| `CommitOrderIsSeqOrder` | `OplogSpec => CommitsAboveHead` | `OplogInd` |
| `StampsAreTrueAlways` | `OplogSpec => []StampsAreTrue` | `OplogInd`, `StampInv` |
| `PrunerTakesOnlyExcess` | `OplogSpec => PrunesOnlyExcess` | `OplogInd` |
| `StreamsMissNothing` | `Spec => []NoSilentGap` | `StreamInd` |
| `StreamsNeverRepeat` | `Spec => []DeliversOnce` | `StreamInd` |
| `LossIsReal` | `Spec => LostOnlyWhenPruned` | `StreamInd` |
| `TailsSkipOnlyPruned` | `Spec => []ConsumersInv` | `TailInd` |
| `StartTimesInclusive` | `Spec => []StartTimeInclusiveIfOrdered` | `StartInd`, `BaselineInv` |
| `StreamsImplementFeed` | `Spec => ImplementsEventFeed` | `StreamInd` |
| `ReplayGivesCollection` | `Spec => []DocumentsInv` | `DocumentsInductive` |
| `IsolationKeepsUpdates` | `Spec => []UpdatesAccumulateIfIsolated` | `DocumentsInductive` |
| `IsolationMakesRepliesTrue` | `Spec => []RepliesAreTrueIfIsolated` | `DocumentsInductive` |
| `CirclesOfOneDocumentCommandsAreInserts` | `Spec => []OnlyInsertsWaitInCircle` | `DocumentsInductive` |
| `ListenerTypeCorrect` | `Spec => []ListenerTypeOK` | `ListenerInd` |
| `ShutdownHitsOnlyOurs` | `Spec => []LiveFdsAreOurs` | `ListenerInd` |
| `StopIsComplete` | `Spec => []NothingOutlivesStop` | `ListenerInd` |
| `CatalogTypeCorrect` | `Spec => []CatalogTypeOK` | with `OperationsOK` |
| `MirrorIsInstalled` | `Spec => []MirrorOrInProgress` | with `OperationsOK` |
| `CursorsCorrect` | `CursorsSpec => []CursorsInv` | `CursorsInductive` |
| `RepliesAccountForBatches` | `BatchSpec => []ReplyAccountsForBatch` | `BatchInductive` |
| `FencesHold` | `BatchSpec => []FenceHolds` | `BatchInductive` |
| `GatewayLeavesSessionClean` | `GatewaySpec => []SessionLeftClean` | `GatewayInductive` |
| `GatewayReadOnlyCallsNeverWrite` | `GatewaySpec => ReadOnlyNeverWrites` | `GatewayInductive` |
| `ProjectionsKeepDocumentsWhole` | `ProjectionSpec => []ProjectionInv` | `ProjectionInd` |
| `ColumnsAgree` | `ProjectionSpec => []ColumnAgrees` | `ProjectionInd` |
| `WritesReachBoth` | `ProjectionSpec => []WriteThrough` | `ProjectionInd` |
| `EncodingsFaithful` | `KeysSpec => []EncodingsAreFaithful` | `Asked` |
| `RequestsRead` | `WireSpec => []RequestsReadWhole` | `Received` |
| `FiltersAgree` | `WhereSpec => []FilterAgrees` | `FilterAsked` |
| `KeysAndIdsStayTogether` | `UpdatesSpec => []KeysAndIdsAgree` | `UpdatesInv` |
| `ModifiedCountsTrue` | `UpdatesSpec => [][ModifiedIsTrue]_updateVars` | `UpdatesInv` |

`OplogProofs`. Besides the properties `OplogInd` needs `RowsInv` (seqs are unique
and uncommitted rows lie above all committed ones), `LockInv` (only the owner of
the clock row has uncommitted rows, and the pruner owns it exactly while
deleting), `HistoryInv` (the legacy baseline is below every row), and `PlanInv`
(what a pruning pass has read is still true when it deletes: its head is still
there, its newest row and timestamp are the maxima of what its WHERE clause
selects, though writers commit in between; the argument is that new rows lie
above the head and rows only go through the pruner). `StampInv` adds that the
clock is the newest entry's time, committed or inside its owner's transaction,
and that a writer which has appended owns the clock until it ends. That the
pruner takes only excess rows is a count: the rows its row limit keeps are still
in the table when it deletes, because only the pruner deletes.

`ChangeStreamProofs` first carries `OplogInd` over to the composed
specification (`OplogInvariantWithStreams`: consumers only read) and proves
`StreamInd`: a stream's token is a settled position (at or below a committed
row, so that no later commit can slip under it, by `CommitsAboveHead`), its
cursor stands at the token until it advances, and a batch that was read is
complete up to `nextAfter` unless the history check that follows is going to
fail. That disjunct is the heart of it: the pruner may have deleted rows before
the read, but then the watermark is above the position and the check sees it. A
raw tail has no check; `TailInd` says of it that rows still in the table at or
below its position were sent, and pruning can only make that weaker. `StartInd`
says nothing at or below the start of a stream opened at a time has that time; it
needs that a baseline other than zero kept the timestamp of a row above it
(`BaselineInv`), and that a log in timestamp order always was in order, since
commits land on top. The refinement of `EventFeed` takes the steps one by one:
commits publish, the pruner forgets, an open subscribes, a received reply moves a
subscriber forward over exactly what it got (`NoSilentGap` and `StreamInd`), and
286 cuts it off (`LossIsReal`); everything else leaves the feed as it is.

`DocumentsProofs`. `DocumentsInductive` says what an open transaction owes the
table: the rows it wrote are locked by it, each but the one in its trigger has
its entry, its entries belong to the owner of the clock and are newer than all
committed ones, and the committed table is the newest entry of each document.
With snapshot isolation a document without an entry after the snapshot is as
`load` read it, and a row about to be committed carries what the committed one
does: that is where 11.8 differs from 10.11. For `OnlyInsertsWaitInCircle` it says
that a command on one document locks its row, then the clock, then nothing, and
that only inserts share a lock. Whoever has the clock then waits for nobody, and
whoever has a row's exclusive lock only for the clock; so a circle has neither,
and its members wait for shared locks or the gaps these cover: the one waited for
is such an insert itself, and so is the one it waits for
(`OnlySharersWaitInACircle`).

`ListenerProofs`. A connection has at most one descriptor and only between accept
and close, live descriptors belong to running threads that have not forgotten
them, and what `stop()` has waited for stays true.

`TableProofs`, the catalog: its properties are proved together with `OperationsOK` (where a
session can be in its command, given its kind: index steps have an index, and
only commands that install triggers create tables). That a session installs the
triggers in a fixed order, and that a drop takes them all, is what makes it
inductive: whoever made the table last still has every missing trigger ahead of
it.

`CursorsProofs`. `CursorsInductive` adds that an id has at most one user with a
record of it, that its entry is that user's, that the entry's offset is at or
above everything the user was sent and exactly there as long as no reply was
lost, and that a thread left behind by a broken connection serves only a user who
knows of the loss.

`CommandProofs`. `BatchInductive` says at every step of the loop what the reply
says at its end: the elements passed so far are stored, in the errors, or did
nothing; and the stamp is on the clock, about to come true with the COMMIT, or
that of an element that lost it. `GatewayInductive`: a call that decided on read-only keeps to
it, its statement passed the keyword guard, and it is in a READ ONLY transaction
from start to end.

`TableProofs`, projections: `ProjectionInd` says that rows are well formed and typed,
trigger names are distinct, a call past its ALTER TABLE installs a column that is
there, an installed column that is apart from all others has both its triggers,
and it agrees with its field from its backfill on unless a client raced it. What
the triggers of one statement do together is shown for any number of them
(`RunResult`): `Stage` says what holds of the row after the first k, `StageStep`
takes one more, and the induction is the absence of a least k that fails
(`LeastNatural`). Writing that proof found three places where the model was
narrower or looser than it read, which were put right: `RunBefore` stopped after
two triggers, `AddTrigger` filtered the list where the server takes out one
trigger, and `Cast`, like some operators of the translator, had CASE arms that
overlapped and so did not say which of them counts.

`TranslatorProofs`. These modules compute more than they interleave, so the
invariants are short (what has been asked is one of the questions there are) and
the work is in the functions. A loop of the code is a function of its rounds, and
what it gives is shown by induction over them: a set that has zero and every
successor is Nat (`Induction`, from `LeastNatural`). A recursive function is first
shown to exist (`NestedIs`, `RoundsExist`, `StagesExist`...), since it is a CHOOSE.

- Keys and tokens, at the code's own sizes too: an integer's key is the integer
  moved up by `Half`; of two magnitudes the larger is the larger value, whether it
  is the exponent or the mantissa that differs, so doubles' keys sort as doubles;
  and a double whose value is an integer's is that integer, so tags never part
  equal numbers. A token is the digits of its position, cut at one place after
  another. Swapping two neighbours among the options changes neither whether there
  is an error nor the start.
- Wire, in two halves. Of any cells, what the loops have read encodes what they
  have passed, so a message that is accepted is an encoding and nothing was cut
  off. Of a driver's message, each part stands where the ones before it end, so
  every round takes one whole; and since no part is empty there are rounds enough.
- Filters by induction over the nodes. The statement carried along is in three
  values: without a negation the clause is "T" exactly where MongoDB answers yes;
  under one it must also be "F", not NULL, for the rest. `Trusted` is what makes
  each leaf do that.
- Updates. `IdIs` says which value stands first under `_id`, and that is kept by
  appending, setting, removing (each operator on another path), by a replacement,
  and, if it is a scalar, by the stored form, at any depth. A round of
  Collection::update then writes a document under the key it was read from
  (`RewriteRound`), rows are visited once each whatever their order, so the rounds
  together count the changed rows (`AllRounds`). Filters look into documents and
  writes go by key: this is why a row that was matched is the row that is written.

Proving these found places where the model read right and said too little or too
much, since put right against the code: a command took its rows in key order,
which load() does not ask for; an `_id` without a key failed an update that had
nothing to write, where only a changed document's is encoded; rows began as given
and not as extended JSON brings them back; a document could be nested without
end, where the column takes no more than `MaxDepth`; and paths and the stored form
were RECURSIVE operators that only TLC could read.

Assumptions. `OplogAssumption` describes the databases `install_oplog_schema` can
find; the others give constants their types (finite bounds are naturals, values
are storable; rows to begin with are documents that insert would take; filters are
ones compile_filter does not refuse; requests are ones a driver makes). None of
them restricts how many there are of anything.

Only model-checked:

- liveness (`EventuallyDelivered`, `StopReturns`, `GatewayReturns`,
  `AbandonedCursorsGo`), which is out of this prover's reach;
- `ResultsAreShaped` and `StatementsMeanWhatTheySay`: a document's place in the sort
  order and a shell statement's value are recursive in both width and depth
  (`Compare`, `Value`, `Items`), and are written with RECURSIVE operators, which
  the prover does not handle;
- of `UpdatesDoWhatTheySay`, the parts about what operators do at and beside their
  paths (`NothingBesideThePath`, `SetReadsBack`, `SetsStaySets`): they relate two paths
  through set_in and the stored form at every depth. `ModifiedIsTrue` is proved.

The run `translator` checks these over every input of bounded sets.

## 6. Not modelled, and the plan

Not modelled, and why:

- text: SQL text and the binding of its parameters, extended JSON, the tokenizer
  of mongosh strings and numbers, the comments and quotes sqlguard skips (so no
  statement hidden in an executable comment). The models start where the text has
  been read;
- `$regex`, `$elemMatch` and `$sum` of a field; the rounding of `$inc` beyond 2^53;
  NaN in documents (in keys it is modelled);
- the legacy OP_QUERY handshake, the layout of replies, stateless replies (hello,
  buildInfo), the UDF's glue, the CLI, packaging;
- overlapping `install_oplog_schema`: its statements may all be repeated (IF NOT
  EXISTS, OR REPLACE, INSERT IGNORE), and what is left is the server's DDL;
- chimera-lite, a separate experiment.

InnoDB, the kernel and client drivers are external: actions marked so in the map.

Where the models are coarser than the code:

- `Documents` and `WriteBatch` divide a write command between them: one has the
  rows and locks of a transaction, the other the loop around it.
- `Projection` has one row. The run has two columns, INT and TEXT; the module has
  any number, also BIGINT and DOUBLE.
- An upsert that needs a fresh ObjectId is not asked in `Updates`: the id would be
  one more value nobody compares.
- `Cursors` has one orphaned getMore at a time.

What is left to prove is the list at the end of section 5. The sort order and the
shell's values could be written as functions of a depth, as `StoredAt` is, and
then proved about in the way of `StoredKeepsId`.
