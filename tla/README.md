# A TLA+ model of the Point iPad restaurant application

Point IPad is an Objective-C point-of-sale application for a restaurant: a
waiter picks items from a menu, chooses modifiers for them, sees the bill, and
clocks in and out. Everything it knows about items, prices, taxes and
employees is in a PostgreSQL database that it reads through PGSQLKit, which
calls libpq of the PostgreSQL 9.1.1 sources kept under `src/pqtouch`. This
directory holds TLA+ modules for its logic, TLC configurations that check them
on small instances, and proofs checked by TLAPS.

Paths below are relative to `src/Point IPad/Point IPad/` unless they start
with `src/`, or are files of
`src/pqtouch/postgresql/versions/postgresql-9.1.1/src/`: `fe-*.c` are in its
`interfaces/libpq/`, `postgres.c`, `copy.c` and `async.c` in its `backend/`.

## Inventory

| Component | State | Operations | Talks to |
|---|---|---|---|
| Order (`Model/Orders.m`) | two parallel arrays of ids and quantities, a dictionary of modifier strings, totals, tax percentages and names | `addToOrder`, `updateTotals`, `updateDictionaryWithModifierString`, `nameInKey` | its own `DatabaseAccess` |
| QuickServe screen (`QuickServe/QuickServeController.m`) | the order, the selected item, labels, the menu and its three stacks | taps, Back, stepper, row selection, Mods, Confirm | order, home screen's `DatabaseAccess`, modifiers screen (delegate) |
| Modifiers screen (`QuickServe/QuickModifierController.m`) | the cells to show, the strings of this visit, the switches | `viewDidLoad`, `switchChanged`, `cellForRowAtIndexPath` | order, through the QuickServe screen |
| Database queries (`Model/DatabaseAccess.m`) | one connection | menu, price, tax, modifier, employee and clock statements | `src/PGSQLKit` |
| Home and tables (`HomeViewController.m`, `Tables/`) | stored controllers by table number, list of free tables | pick a table, reopen an occupied one, Quick Serve | QuickServe screen |
| Payment (`OrderManagement/`) | none | none yet in the code | |
| Login and time clock (`Login/`, `Model/Time.m`) | logged-in employee, clocked-in list, rows of `tbl_salary` | login, logout, clock in, clock out | `DatabaseAccess` |
| PGSQLKit connection (`src/PGSQLKit/PGSQLConnection.m`) | settings, connection string, session, `lastError`, `lastCmdStatus`, the default connection | connect, close, clone, open, execute, asynchronous variants | libpq |
| PGSQLKit recordset (`src/PGSQLKit/PGSQLRecordset.m`) | the result, the current record, `isEOF` | moves, fields | libpq |
| libpq's query cycle (`fe-exec.c`, `fe-protocol3.c`, `fe-misc.c`) | `asyncStatus`, the query class, the result under construction, `errorMessage`, the input buffer, the notifications | `PQexec` and its siblings, `PQsendQuery`, `PQgetResult`, `PQconsumeInput`, the COPY calls | the backend, over a socket |
| libpq's connection start (`fe-connect.c`, `fe-secure.c`) | the address tried, the socket and its SSL session, the flags of four fallbacks | `PQconnectdb`, `PQreset`, `PQfinish`, `PQconnectPoll` | the postmaster |
| The backend's message loop (`postgres.c`, `copy.c`, `async.c`) | `ignore_till_sync`, `send_ready_for_query`, the transaction, the COPY in progress | reads a message, runs a statement, reports errors, notifies | libpq |
| Item data classes, cells, layouts, `src/ipsql`, the rest of `src/pqtouch` | none of interest | | |

What is hard in this code:

* UIKit runs every handler on the main thread, so handlers do not interleave
  inside one another. What varies is the order of touches over several
  screens that share one order, and state one screen keeps for later
  (`selectedItemId`, `subclassNameForDatabase`, tax percentages, label texts).
* Two connections, one of the home screen and one of each order, can fail
  independently and at any time. No caller looks at `lastError`: a failed
  query is a query without rows, and `nil` travels on.
* State is spread over parallel arrays and stacks that are updated one by one.
* An occupied table is reopened with a second controller that copies some
  fields of the first, shares others, and writes nothing back.
* The list of clocked-in employees is in memory, the open rows are in the
  database, and nothing keeps the two together over a restart or a failed
  statement.
* libpq and the backend run at the same time at the two ends of a socket. Either
  may be ahead of the other: a COPY the client still feeds has failed at the
  server, an answer nobody fetched is still on the way when the next command
  is given, a notification comes at any time.
* The server, or the link, may fail between any two messages, and what was sent
  may be lost or not; the client cannot know whether its command was committed.
* A connection attempt has four fallbacks (the next address, SSL or none,
  protocol 2.0, no `application_name`), each kept in a flag that outlives the
  attempt.
* PGSQLKit's asynchronous calls share a connection object between threads (the
  application does not use them).

The full list, with lines, is under `hazards` in `PROJECT.json`.

## Modules

| Module | Models |
|---|---|
| `OrderTables` | the tables an order is priced from and the queries that read them, as constants and operators |
| `Orders` | `Model/Orders.m`: one step or operator per method |
| `QuickServe` | the QuickServe and modifiers screens around one order, the alert and the payment screen; its `Next` is the complete ordering workflow of the home screen's Quick Serve entry |
| `OrderBook` | the abstract promise of an order: a quantity and a set of chosen modifiers per item, and a bill |
| `MenuNavigation` | the menu of the QuickServe screen and its queries |
| `TableService` | free and occupied tables around that menu: it extends `MenuNavigation` and composes it with the lists of the home screen and with one order per table |
| `TimeClock` | login, logout, clock in and clock out, with `tbl_salary` and `TBL_EMPLOYEE` |
| `Connection` | the objects of `PGSQLConnection.m` and the sessions of libpq |
| `Recordset` | the cursor of `PGSQLRecordset.m` and the loop every query reads it with |
| `Backend` | the server's side of a query cycle, and the two streams to and from the client |
| `LibpqExec` | the client's side: `PQexec` and the other calls, the parser, the reads and writes |
| `QueryCycle` | composes the two, with the failures of either end and of the link; its properties |
| `ExecPromise` | the abstract promise of `PQexec`: what it reports is what the database has |
| `LibpqConnect` | `PQconnectPoll` and the calls that start, reset and finish a connection |
| `SequenceLemmas` | what removing, popping and pushing do to a sequence; least numbers; folds as loops, and induction over a loop; used by the proofs |
| `QuickServeProofs`, `TableServiceProofs`, `TimeClockProofs`, `ConnectionProofs`, `RecordsetProofs`, `LibpqConnectProofs`, `QueryCycleProofs` | the theorems; those of `MenuNavigation` are in `TableServiceProofs`, which needs them |
| `MCQuickServe`, `MCMenuNavigation`, `MCTableService`, `MCTimeClock`, `MCQueryCycle` | small instances for TLC; `Connection`, `Recordset` and `LibpqConnect` need no definitions and are run directly |

The screens share the home screen's connection as one boolean, the part of a
connection they can see. `Connection` is the whole of it, and shows why one
boolean is enough: `isConnected` tells who holds a session
(`SessionsAreHeld`), and nothing connects again unless asked to.

### Orders and QuickServe

`currentItemIds`, `currentQtys`, `dictionary`, `taxNames`, `totals` and
`taxPercentage` are the properties of the same names in `Orders.m` (the totals
and the pairs for the two taxes are grouped). An action is a whole handler:
`stepperValueChanged`, for instance, writes the quantity or removes the row
and then recomputes the totals and labels. `OpenQuickServe` is the segue with
`initWithCoder`, `viewDidLoad` and `viewWillAppear` of the new controller.
`OpenRaises` is the same segue when `itemExtras` raises for the test item 74.
`Crash` is an exception that nobody catches: `addObject:nil` for an unknown
item, `setObject:nil` for a switch toggled for an item that is not in the
order. `LoseConnection` takes away one of the two connections; PGSQLKit never
reconnects, so only a new order (its own connection) or a relaunch brings one
back.

Abstractions:

* A modifier string `"Modifier 3:M1:1"` is a record of category, choice and
  boolean. Names never contain a colon, because they result from splitting at
  colons. Names within one column are distinct.
* A NULL column reads as the name `Blank` (`asString` returns `""`) and equals
  nothing in a query.
* Money is exact: cents for amounts, hundredths of a cent for prices with tax.
  What the code does to a number on purpose (`intValue`, the formatter's three
  decimals) is modelled; the rounding of `float` and `double` is not.
* A connection is lost between handlers, not in the middle of one. A loss
  within `updateTotals` would give a total that is part 0, which the screen
  shows until the next refresh; no property here speaks of the labels of an
  order whose connection is down.
* The menu is abstracted in `QuickServe` to the id its lookup returns, or to a
  lookup without rows; `MenuNavigation` models when which happens.

### MenuNavigation

The variables are the properties of `QuickServeController.h` lines 22 to 33,
with a menu as the set of its texts, and the history variable `path`, the
names tapped on the way to the present menu. A tap on a class makes two
queries, and the connection may be lost between them (`homeDB'` in
`TapClass`). A tap beside the cells has no index path, so its row is 0: it is
a tap on the first cell, or `TapNothing` on an empty menu.

A text does not come back to the database as it left. A field is read as Mac
Roman (`src/PGSQLKit/PGSQLConnection.m` 57, 371), a query is sent as UTF-8
(351), and the text stands in it between quotes, unescaped
(`DatabaseAccess.m` 214 to 263). So `MacRoman` gives the text a column is shown
as, and `Literal` the column a text stands for in a query, which is undefined
for a text whose apostrophe makes the query an error; `Matches` compares a
column with what the text stands for. Both are constants: the properties need
no more of an encoding than which texts are lost on the way (`LostTexts`) and,
for `OrderedIsTapped`, that none is taken for another column
(`UnmistakenTexts`), as the bytes of an accented name read as two letters and
sent back are the name of no other item.

`viewDidLoadRaises` is the end of the app in `viewDidLoad`
(`QuickServeController.m` 131), where `itemExtras` reads a third column of rows
that have two, if the item 74 has any (`testItemExtras`). Its query goes over a
connection of its own, which may fail, so that the menu may open all the same:
`Open` and `OpenRaises` are both possible. `MenuRaises` is the same on each of
the three ways to a menu in `TableService`.

`ItemsAt` and `MenuAt` say what the user means by a path. `TapsFailForCause`
says why a tap may end the app while the connection is up, and that it does so
for no other reason: the items table is empty; a text on the way is lost (NULL,
changed, or with an apostrophe); the subclass is one of another class as well;
or a subclass was left over from another class. The last two are of the code's
own making, and the first is a menu without a cell. The code checks none of
them.

### TableService

`quickServeDictionary` and `listOfTables` are the home screen's; the variables
of `MenuNavigation` are the controller on screen. `SelectFreeTable` makes a
controller and keeps it in the dictionary; `SelectOccupiedTable` makes another
one, with `CopyMenu` for the fields that are copied, `shareStacks` and
`shareOrder` for the objects that are shared. When the menu is left, a kept
controller stays as it is, and of another one only what it shared stays
(`LeaveMenu`). An order is the set of the items tapped into it; its quantities
and totals are those of `QuickServe`.

A table's number is a text in the list and a number in the dictionary, so the
model keeps the two apart (`TextOf`, `integerValue`). The history variables
`serving` and `tapped` say which table the user opened and what they tapped
for it, without looking at any controller.

The tax labels of a reopened table (`OccupiedTableCollectionViewController.m`
109 to 112) are not modelled here, nor is the modifiers screen: it changes
nothing of the menu.

### TimeClock

One action per choice of the login screen, each with all of
`addOrRemoveEmployeeFromList` and the statements it sends. `Statements` lets
either statement of a clock in or out be lost with the connection, and
`Relaunch` ends the application at any moment. An employee object is its id
and the clock-in time set in it; an object is in a list at most once, so its
place in the list is its identity (`removeObjectIdenticalTo`). Passwords are a
choice: right, or wrong and cancelled. The date column, `driver_status` and
the flags nobody reads are left out. Hours are differences of the clock, not
divided by 3600.

`careful` is a history variable: nothing was lost for the employee, the
application did not end while they were in the list, and they never clocked in
while clocked in. The properties that the code keeps are those of careful
employees: they say of the others only that what happens to them stays with
them. What happens to the others is the run `clocked_in_twice`.

### Connection and Recordset

A connection's five settings are one value, a place. libpq hands out sessions
by number; `PQfinish` takes one away. The status of the last command and the
log, which the application does not read, are left out. `Answers` are the kinds of results that
`open` and `execCommand` distinguish. Calls come one after another, as the
application makes them.

In `Recordset` a record is the number of its row. libpq answers a field of a
row that does not exist with a null pointer; the model does not read fields,
and says of `moveLast` only which row it is at.

### Backend, LibpqExec and QueryCycle

`PGSQLConnection` sends every statement with `PQexec`. `Connection` takes its
answer as given; these modules are about how it comes about.

In `Backend` an action of the message loop reads one message (`ReadQuery`,
`ReadExecute`, `ReadParseBindDescribe`, `ReadSync`, `ReadCopyLeftover`) and
`ReadyForQuery` is the top of the loop. A statement runs in `RunStatement`, or
in `ReceiveCopyBegin`, `CopyGetData` and `CopyFails` for a COPY FROM STDIN,
which reads messages of its own. `Fails` is the error recovery of
`PostgresMain`. In `LibpqExec`, `call` says which function has not returned; a
call is then a sequence of `ParseMessage` (one turn of `pqParseInput3`),
`GetResultReads` or `GetResultFails` (`pqWait` and `pqReadData`) and of what
the caller of `PQgetResult` does with the result: `ExecStartDiscards` for
`PQexecStart`, `FinishHandles` for `PQexecFinish`. Between two of these steps
the server, the network or a failure may act. `QueryCycle` is their
interleaving.

Abstractions:

* A message is its type and the number of the command it is about. The number
  is not on the wire; the properties need it. A result is its status, its
  errors and the commands whose messages it was made of.
* libpq reads one message at a time, whole. A failure of the server or of the
  link loses all that is on a stream or none of it: that a part arrives is the
  same as a failure after the part was read.
* What libpq writes reaches the stream at once, or the write fails. The
  connection is blocking.
* The database is the set of commands whose transaction is committed. Every
  command is a transaction: transaction blocks are not modelled.
* A result of rows has one row. Notices and parameter reports are left out; so
  are the errors of a garbled stream (`handleSyncLoss`) and of memory.

`returned` and `answer` are history variables: what `PQexec` returned last,
and what it made of each command. `ExecPromise` is stated over `answer` and
`committed` alone, and `QueryCycle` implements it with these two variables as
they are.

### LibpqConnect

`status` goes through the states of `PQconnectPoll`, one action for each way
out of a state. The settings (`sslmode`, whether the address is a Unix socket,
`application_name`, the number of addresses, whether the server takes SSL)
are chosen at the start and never change. `Connect` is `connectDBStart`, for
the first call and for a reset, which differ in nothing but what is left in
the flags. `Retry` is the closing of the socket that each fallback does by
itself. `open` is the kernel's: the descriptors that are open. `tries` and
`startups` are history: the addresses tried in this call and the kinds of
startup packets sent in it.

Abstractions: `verify-ca` and `verify-full` go through the states as `require`
does. The startup packet, the password and the queries that set up a
connection of protocol 2.0 are one step each, and a server asks for a password
once per socket. Any system call may fail at any time (`GiveUp`, `ReadsEof`).

## Runs

| Run | Shows |
|---|---|
| `quickserve` | `TypeOK`, `OrderConsistent`, `BillShownIsCurrent`, `TaxNamesShown`, `OneStringPerChoice`, `SwitchesMatchOrder`, and `ImplementsOrderBook` (refinement), on two items and three modifiers |
| `menu` | `TypeOK`, `MenuFollowsPath`, `OrderedIsTapped` and `TapsFailForCause` on a table with every irregularity: one and several subclasses, shared ones, NULLs, a name with an apostrophe and one with an accent |
| `tables` | `TablesTypeOK`, `FreeOrOccupied` and `TableKeepsItsOrder` with two tables that are seated, left and reopened in any order beside a Quick Serve, on a menu whose classes have one subclass each |
| `reopened_menus` | `MenuReadAsShown` and `ItemsAreOfTheirNames` on a menu of two levels reopened at any depth |
| `time_clock` | `TypeOK`, `CarefulIsAccounted`, `CarefulHoursAreOwn`, `OneLoggedIn` and `ClosedRowsStay` with two employees, restarts and lost statements |
| `connections` | `SessionsAreHeld` and `ErrorIsOfLastCall` with two connections and every answer of the server |
| `recordset` | `LoopReadsEveryRow` and `NotEofHasRecord` on results of up to eight rows |
| `query_cycle` | `TypeOK`, `AnswerIsOwn`, `ErrorMessageAgrees`, `NotifiedInOrder`, `InSync` and `KeepsPromise` (refinement) for every two commands, by `PQexec` or by `PQsendQuery`, with COPY calls and reads in any order, against a server that fails, dies, notifies twice or is cut off at any point |
| `query_cycle_live` | `CallReturns`: every call into libpq returns, over a COPY in either direction that nobody ends and over a connection that is lost |
| `libpq_connect` | `TypeOK`, `SocketIsHeld`, `FewTries`, `ModeIsKept`, `TestsAreRedundant` and `CallReturns` for every `sslmode` and up to three addresses, connected, lost and reset in any order |
| `clocked_in_twice` | violated: one clock out closes two rows with the hours of one |
| `extended_copy` | violated: after a COPY of the extended protocol that the server refuses at once, `PQexec` gives NULL for a query that was sent |

Each violated property states a comment of the code, quoted above it and under
`findings` in `PROJECT.json`.

`extended_copy` in steps: `PQexecParams` with `COPY ... FROM STDIN` sends
Parse, Bind, Describe, Execute and Sync. The server says CopyInResponse and
fails before it reads from the client, so it skips to that Sync and says
ReadyForQuery. libpq knows of the COPY only; the next `PQexec` ends it with
CopyFail and, the query being extended, another Sync (`fe-exec.c` 1740 to
1750, 2111). The server drops the CopyFail and answers the Sync with a second
ReadyForQuery. The first one ends the COPY for libpq, the query is sent, and
the second one ends the query before its answer has come: `PQexecFinish` has
no result to return. Nothing of this needs a failure of the connection.

Other places where the models, as they stand, do what a comment does not say.
They have no run of their own:

* Mods opens for the item selected last, also when its row was removed; a
  switch toggled there raises (`QuickServeController.m` 265, 266).
* The tax label counts the tax of the amount without its cents
  (`QuickServeController.m` 282; `Orders.h` 14, 15).
* An item of a class without subclasses has no id after a class with
  subclasses was visited (`QuickServeController.m` 230). In `menu` these taps
  are a step that ends the application, and `LeftOverSubclass` the cause.
* A name that is not ASCII, or has an apostrophe, is shown and cannot be
  ordered: its lookup finds no row and the tap ends the application
  (`src/PGSQLKit/PGSQLConnection.m` 57, 351; `DatabaseAccess.m` 247).
* A clone is connected with the settings as they are now, its original with
  the string of its first connect (`PGSQLConnection.m` 143, 211;
  `PGSQLConnection.h` 146).
* When `PQconsumeInput` has read a result and then the end of the stream, the
  next `PQexec` discards the result, clears the error message with it, sees
  that the connection is lost and returns NULL with an empty `PQerrorMessage`
  (`fe-exec.c` 747 to 773, 1775).
* A loop that calls `PQgetResult` until NULL never ends when the connection is
  lost during a COPY: the state stays `PGASYNC_COPY_IN` or `COPY_OUT`
  (`fe-exec.c` 1570 to 1592). `PQexec` has its own way out, hence
  `CallReturns`.
* A read that fails with an error other than a reset leaves the connection
  `CONNECTION_OK` (`fe-misc.c` 650, 743).
* An SSL session that failed, or was refused, for one address is not tried for
  the next one, nor after `PQreset` (`fe-connect.c` 2048, 2097, 2303;
  `doc/src/sgml/libpq.sgml` 409 to 416 speaks of the connection). So with
  `prefer` a connection once made in the clear stays in the clear.
* A name that could not be resolved makes every later `PQreset` fail, because
  `options_valid` stays false (`fe-connect.c` 1345).
* A postmaster that cannot fork answers in the form of protocol 2.0, so the
  retry is one with protocol 2.0, and if it succeeds the connection stays at it
  (`fe-connect.c` 2183).

* A quantity modifier is charged without its cents (`intValue`, `Orders.m`
  135), and a modifier from a column that lists several is not charged at all
  (`DatabaseAccess.m` 392 compares one name with the whole column).
* Two categories that offer the same name share one modifier string
  (`Orders.m` 183).
* Taps on the menu bring a quantity to the stepper's maximum without removing
  the row (`QuickServeController.m` 392, 450).
* Items of a subclass that two classes share are listed under both, and have
  an id under one (`DatabaseAccess.m` 263).
* Back in a reopened table pops stacks the kept controller shares. Reopened
  again, the table is below the classes and Back does nothing
  (`OccupiedTableCollectionViewController.m` 100), or it looks up an item
  under the class or subclass of another visit (line 106). No tap of a
  reopened table is therefore promised to succeed; what holds is that each
  level is read as it is shown (`MenuReadAsShown`), and that items on show are
  of a name the table has (`ItemsAreOfTheirNames`).
* `moveLast` makes the record of row `rowCount`, the row after the last
  (`PGSQLRecordset.m` 158).
* The default connection is the first object made, whether or not it connects
  (`PGSQLConnection.m` 74).

Bounds. `StepperMax = 3` stands for the code's 20: with the minimum 1 it leaves
one value at neither end, so that a press can wrap, step and remove.
`QtyBound = 4` lets taps raise a quantity above the stepper's maximum, which is
where the clamp matters; taps do not raise it further. Two items are enough
for a row before and after the one that is touched. The menu tables need no
bound: the menu is two levels deep. No symmetry is used there, because the
items have different prices.

`Tables` has two tables where one table's steps might touch the other
(`tables`) and one where a table's own history matters (`reopened_menus`);
tables are symmetric. `StackBound` limits how deep taps are followed: a
reopened table can be tapped down again and again, and its shared stacks grow.
In both runs they hold one level more than the menu has.

`MaxNow`, `MaxRows` and `MaxEntries` limit the time clock: three times tell a
clock in, a second one and a clock out apart, three rows hold two open ones
beside a closed one. The two employees are symmetric.

`Sessions` has one session more than there are connections, so that a
forgotten one shows. `MaxRows` of `Recordset` is beyond every edge the moves
test.

Two commands, `MaxCommands`, are the one whose remains might disturb and the
one that might be disturbed. `EveryCycle` has a query of several results, a
COPY in each direction, and a command of each shape of the extended protocol;
`EveryLoop`, for liveness, has a command for each loop of libpq: a query of
several results, a COPY in each direction, and the extended protocol with
nothing to run. One CopyData message is enough to be early and late. There are
two notifications, the least that have an order (`MaxNotify`).
`CopyInExtended` is false in the passing runs, because of `extended_copy`; it
is the only combination of commands they leave out. `MaxAddresses = 3` gives an
address before, at and after a fallback. `Sockets` has one descriptor more
than a connection holds, so that a leak shows.

Fairness. The application's modules assume none: every step there is a touch
of the user, a call of a program or a failure, and none is bound to happen. For
libpq the code justifies more. `WF_vars(LibpqStep)`: a call that has begun
goes on, because it is a loop in one thread that ends only by returning, and
its wait ends when the socket is readable; on a dead link the kernel reports
that at last (the server's end closes the socket, keepalives time out).
`WF_vars(Server)`: the backend is a process that goes on with the messages it
has. The steps of the application, CopyData and its end among them, the
failures and the notifications have no fairness. `WF_vars(Poll)` in
`LibpqConnect`: `connectDBComplete` calls `PQconnectPoll` until it succeeds or
fails, and its wait ends with the socket's readiness or with
`connect_timeout`.

Deadlock is checked in every run except those of `MCQueryCycle`, where it is
off: there the number of commands is bounded, and after the last one the
application may have nothing left to call. A crashed application can be
relaunched.

## Proofs

TLAPS checks, for every table and every stepper range:

* `OrderStaysConsistent`: `OrderConsistent`. The inductive invariant is
  `RowInv`, the property with the types of the rows. `NextIsRowStep` reduces
  the handlers to what they do to the rows (a new order, an item added, a row
  removed, a quantity written, a dictionary entry replaced, nothing), and one
  lemma per kind shows that it keeps the invariant. Removal needs that the
  sequence without its row-th element has exactly the other elements, once.
* `TypesHold`: `TypeOK`. `ControlInv` (rows, flags, screens and the cells of the
  modifiers screen) is inductive by itself; `DictInv` adds that the dictionary
  holds modifier strings, and `MoneyInv` that totals and labels are numbers.
  The last two are about results of folds, see below.
* `StringsStayDistinct`: `OneStringPerChoice`. One change of a modifier keeps
  a list of strings without two of one choice (`ChangeKeepsOneEach`), and so
  does a list of changes (`ChangesKeepOneEach`).
* `SwitchesFollowOrder`: `SwitchesMatchOrder`, for tables with `UniqueNames`: no
  item offers one name in two categories. The code finds the string of a cell by
  its name alone, so without it two switches would share one string; NULL
  columns of two categories, both read as `Blank`, are such a case.
  `MCQuickServe` assumes `UniqueNames` of its tables, so TLC evaluates it.
  `SwitchInv` relates three places that say what is on: the order, the strings
  of this visit, and the switches. The handler sends all strings of the visit at
  each toggle, so `ChangesReplace` has to say that sending again what was
  already sent changes nothing.
* `BillStaysCurrent`: `BillShownIsCurrent`. Whatever a total is, the one on
  the screen was taken of the order that is on the screen. The sums are not
  expanded.
* `TaxNamesStayShown`: `TaxNamesShown`. The invariant relates three places
  that hold the names, the order, the labels and the flag `taxNameChanged`.
* `MenuTypesHold` and `MenuStaysOnPath`: `MenuFollowsPath` is inductive
  together with the types. It speaks of every saved menu, because Back makes a
  saved menu the present one.
* `TapOrdersWhatItNames`: `OrderedIsTapped`. It needs, besides
  `MenuFollowsPath`, that no items are on show before a menu is open,
  `MenuAssumption`, that no text is `nil`, and the hypothesis `UnmistakenTexts`.
  `MCMenuNavigation` assumes that of its texts, so TLC evaluates it.
* `FailuresHaveCauses`: `TapsFailForCause`, for every table and all texts, with
  no hypothesis. `PathOnShow` says that the path leads through cells that were
  on show, and that a subclass that is kept was on show under a class with
  several. `ItemsFound` then shows, depth by depth, that without a cause the
  menu has cells and each of its items is found.

* `TablesAreFreeOrOccupied` and `TablesKeepTheirOrders`: for every set of
  tables and every menu. `TableInv` adds to the two properties that the
  controllers in the dictionary have the orders of their tables
  (`OrdersFollowTables`) and that the orders have what was tapped
  (`OrdersFollowTaps`): the order of a table is never another table's, also
  while it is served by a copy.
* `TableTypesHold`: `TablesTypeOK`, for every set of tables and every menu.
  `TypeInv` adds that the three stacks of a controller have one depth, which
  the last level of a stack needs to be one of the others too.
* `MenusAreReadAsShown`: `MenuReadAsShown`. `ReadInv` says it of the controller
  on screen and of every kept one, and of less while a kept one is served: its
  stacks are then ahead of its record, so only its own menu is known to be read
  as shown, and leaving the menu completes it. `ReadInv` also follows `pickMenu`,
  the classes a new table starts from, below a menu that was opened from the
  list.
* `ItemsKeepTheirNames`: `ItemsAreOfTheirNames`. `NamesInv` says it of the
  controller on screen and of all kept ones, and that no saved level is a menu
  of items: so Back, over whatever shared stacks, shows none, and items on
  show are always those of the tap that kept their name.
* `ClockTypesHold`, `CarefulStaysAccounted`, `CarefulHoursStayOwn`,
  `ClosedRowsNeverChange` and `OneStaysLoggedIn`: all properties of `TimeClock`, for every set of
  employees. Types are needed first, since a clock out subtracts the time in
  an object. `CarefulIsAccounted` needs a case for a step of the same employee
  and one for a step of another, in which the rows of this one do not change.
* `SessionsAreAlwaysHeld`: for every set of connections. The invariant
  `HeldInv` is the property with the types of the two variables it relates.
* `ErrorsAreOfTheLastCall`: `ErrorIsOfLastCall`, with the types of the
  connections; one lemma for the steps that end a call and one for the others.
* `LoopsReadEveryRow` and `NotEofAlwaysHasRecord`: for results of any size;
  one invariant says where the cursor is for each of the two clients.
* `TypeCorrect` (of `LibpqConnectProofs`), `SocketAlwaysHeld`, `TriesAlwaysFew`, `ModeAlwaysKept` and
  `TestsAlwaysRedundant`: all safety properties of `LibpqConnect`, for any
  number of addresses and sockets. One inductive invariant, `IInv`, carries
  the five. Its idea is `TriesLeft`, the addresses still to come plus the
  fallbacks whose flag is not used up: each try uses one of them
  (`TriesAreBounded`). `FlagsFollowMode` says which flags an `sslmode` can
  have, `CallInProgress` what holds in each state of `PQconnectPoll`; together
  they give `ModeIsKept` over retries and resets, and that the tests the code
  marks "redundant?" are.
* `TypeCorrect` (of `QueryCycleProofs`): `TypeOK` of `QueryCycle`, for any number
  of commands, notifications and CopyData messages. `Typed` gives every
  message, result and call its type, and says of each message which commands it
  may be about.
* `IdleInSync`: `InSync`, under `~CopyInExtended`. `Round` is the
  protocol: as long as the connection lives, libpq is idle and the server rests
  (`Rests`), or both are in the round of the command sent last, which is being
  read (`Requested`), runs (`Runs`), is over but for ReadyForQuery (`Ends`) or
  over (`Ended`). Each form says what may be on either stream, which is
  why a ReadyForQuery that libpq parses is always the one of this round.
* `NotificationsInOrder`: `NotifiedInOrder`, with no hypothesis. `NotesInv`: the
  notifications on the way go on where the parsed ones ended.
* `AnswersAreOwn` and `MessagesAgree`: `AnswerIsOwn` and `ErrorMessageAgrees`,
  under `~CopyInExtended`. `AnswerInv` adds to `Round` what is on a dead
  connection (`BadEmpty`, `QuietEnd`), that a row finds a result that takes
  rows (`RowsFit`, and `ExecutesTold` at the server, since otherwise libpq makes
  an error of its own), that what comes is about the command that was sent
  (`OwnStream`) and that so is what `PQexecFinish` has collected (`Collects`).
* `PromiseKept`: `KeepsPromise`, the refinement of `ExecPromise`, under
  `~CopyInExtended`. `ExecPromise` has two steps, the database applies a
  command and `PQexec` reports on one, and every step of the two ends is one of
  them or changes neither variable. To `AnswerInv` the invariant adds three parts.
  `InOrder`: at most one command may still be applied, the last one sent, and
  it comes after all that were. `Finishes` follows what the server says of
  a command, on the wire, in the result being built and in what `PQexec` has
  collected: if it says failure the command is not applied and the
  server has given it up, and once ReadyForQuery is due it has been decided
  either way. `Settled`: what was reported on as done or failed, or as not sent,
  can no longer be applied.

The hypothesis `~CopyInExtended` leaves out one combination, a COPY FROM STDIN
sent by the extended protocol. It is needed: the run `extended_copy` is its
counterexample for the answers, and with such a command two ReadyForQuery
come and libpq is idle before the second. PGSQLKit sends every statement by the
simple protocol (`PGSQLConnection.m` 351), where the hypothesis says nothing.

Folds. `TotalsOf`, `priceOfEveryModUsing` and the changes of a dictionary are
folds, which the library defines by recursion over a CHOOSE.
`FoldExists` and `FoldValues` show that a fold over a sequence is the last value
of a loop (`FoldedTo`), and `InductionUpTo`, induction stated for a set of numbers, carries
a property along it. So what these folds do is proved for sequences of any
length: they keep types (`ModsPriceTyped`, `TotalsTyped`), and distinctness and
meaning of the modifier strings (`ChangesKeepOneEach`, `ChangesReplace`).

Assumptions: `CommandsAssumption` (what may be sent is a command: one statement
at most by the extended protocol), `MaxCommandsAssumption` (how many are sent is
a number), `ConnectAssumption` (`None` is no socket, there is an address),
`StepperAssumption` and both `TablesAssumption`s (types of the
tables, `nil` is no item and no table number, the stepper's range has two
values), `MenuAssumption`, `ClockAssumption`, `ConnectionAssumption` and
`RecordsetAssumption` (`nil` and NULL are none of the other values).

Every invariant and action property that a passing run checks is proved, and so
is the refinement `KeepsPromise`. Only model-checked: the refinement
`ImplementsOrderBook`, and `CallReturns` of `QueryCycle` and of `LibpqConnect`, which is liveness under
fairness and out of the prover's reach.

## Not modelled, and the plan

In this order:

1. The calls of `PQendcopy` and `PQfn`, and transaction blocks at the backend,
   in `QueryCycle`.
2. A proof of the refinement of `OrderBook`, its quantities first.
3. An abstract time clock, one open shift per employee, that `TimeClock`
   implements for employees to whom nothing happens.
4. The tax labels and the order's full state (quantities, modifiers) of a
   reopened table: `TableService` composed with `Orders`.
5. The item property queries, which fill objects that nothing reads yet, and
   the conversions of `PGSQLField`.

Of libpq and the backend, left out: a `PQputCopyData` that fails to write, a
`ProcessCompletedNotifies` that fails after the commit, the nonblocking mode, queries over protocol
2.0, notices and parameter reports, COPY BOTH, running out of memory, a stream
out of step (`handleSyncLoss`), `PQping`, cancel requests, a `PQconnectPoll`
that the application drives itself, GSS and Kerberos, named statements and
portals. Of the calls modelled here PGSQLKit makes `PQconnectdb`, `PQexec` and
`PQfinish` (`PGSQLConnection.m` 149, 168, 202, 272, 351); the other calls are modelled because
their remains are what `PQexec` has to cope with.

Left out for good: drawing code, the item data classes (property holders),
the duplicate of the table picker under `Pictures/`, and the demo `src/ipsql`.
The asynchronous calls of `PGSQLConnection` run on threads of their own over a
shared `lastError`; the application calls none of them, and what their
notifications carry is left to no property. The stepper's repeated events for a
cell that was recycled depend on UIKit internals.

The rest of `src/pqtouch`, nearly all the C of the repository, is the
PostgreSQL server with its storage, planner and tools, and contributed modules.
Only libpq of it is built into the application. The server is there because
the source archive has it, runs elsewhere, and is modelled as far as libpq
meets it. The application itself is Objective-C.
