------------------------------ MODULE Backend ------------------------------
(***************************************************************************)
(* The server's side of a query cycle of protocol 3: the message loop of   *)
(* PostgresMain (tcop/postgres.c) with the COPY sub-protocol of            *)
(* commands/copy.c, and the two streams that join it to libpq.             *)
(*                                                                         *)
(* A message is a record of its type byte and the number of the command it *)
(* belongs to.  The number is not on the wire: it is there for the         *)
(* properties.  It is Nobody for a message that answers no command, and    *)
(* the serial number of the notification for an 'A'.  What a command asks  *)
(* for is read from the history variable asked by that number.  Notices    *)
(* and parameter reports, which change nothing a property tells apart, are *)
(* left out.  The cluster's data are the set of commands whose transaction *)
(* is committed; transaction blocks are not modelled, so each command is a *)
(* transaction.                                                            *)
(***************************************************************************)
EXTENDS Naturals, Sequences

CONSTANTS
    MaxNotify,       \* the notifications other sessions send
    CopyInExtended   \* may COPY FROM STDIN come by the extended protocol

VARIABLES
    asked,           \* the commands libpq was given, in order
    toServer, toClient,
    link,            \* up, or cut
    srv,             \* main, query, copyin or exit
    todo,            \* the statements of the query still to run
    xact,            \* the command whose transaction is open, or Nobody
    ignore_till_sync,
    send_ready_for_query,
    committed,       \* the commands whose transaction is committed
    notified         \* the notifications sent so far

serverVars == <<srv, todo, xact, ignore_till_sync, send_ready_for_query, committed,
                notified>>
wireVars == <<toServer, toClient, link>>

Nobody == 0
Statements == {"rows", "command", "copyin", "copyout"}
Classes == {"SIMPLE", "EXTENDED", "PREPARE", "DESCRIBE"}

\* The extended protocol takes one statement, the simple one a list.
IsCommand(c) ==
    /\ c.class \in Classes
    /\ c.stmts \in Seq(Statements)
    /\ c.class # "SIMPLE" => Len(c.stmts) <= 1
    /\ ~CopyInExtended /\ c.class # "SIMPLE" =>
           \A i \in DOMAIN c.stmts : c.stmts[i] # "copyin"

Message(type, k) == [type |-> type, cmd |-> k]
Messages(types, k) == [i \in DOMAIN types |-> Message(types[i], k)]

\* A message sent on a cut link is lost.
Send(ms) == toClient' = IF link = "up" THEN toClient \o ms ELSE toClient
Answer(types, k) == Send(Messages(types, k))

BackendInit ==
    /\ asked = <<>>
    /\ toServer = <<>> /\ toClient = <<>>
    /\ link = "up"
    /\ srv = "main"
    /\ todo = <<>>
    /\ xact = Nobody
    /\ ignore_till_sync = FALSE
    /\ send_ready_for_query = FALSE
    /\ committed = {}
    /\ notified = 0

-----------------------------------------------------------------------------
(* Errors and ends of statements. *)

\* Slip: after an error the server is ready, whatever the protocol.
FailsReady(types, k, extended) ==
    /\ Answer(Append(types, "E"), k)
    /\ srv' = "main"
    /\ todo' = <<>>
    /\ xact' = Nobody
    /\ ignore_till_sync' = FALSE
    /\ send_ready_for_query' = TRUE
    /\ UNCHANGED committed

\* An error ends the query and its transaction and is reported.  While a
\* message of the extended protocol is processed, it makes the server skip to
\* the next Sync; otherwise the server is ready at once.
Fails(types, k, extended) ==
    /\ Answer(Append(types, "E"), k)
    /\ srv' = "main"
    /\ todo' = <<>>
    /\ xact' = Nobody
    /\ ignore_till_sync' = extended
    /\ send_ready_for_query' = ~extended
    /\ UNCHANGED committed

\* The statement that runs came by an Execute message.
doing_extended_query_message == asked[xact].class # "SIMPLE"

finish_xact_command ==
    /\ committed' = committed \cup ({xact} \ {Nobody})
    /\ xact' = Nobody

\* Slip: the transaction of a query is committed with its first statement.
CompletesEarly(types) ==
    /\ Answer(types, xact)
    /\ todo' = SubSeq(todo, 2, Len(todo))
    /\ committed' = committed \cup {xact}
    /\ IF doing_extended_query_message
       THEN srv' = "main" /\ UNCHANGED <<xact, send_ready_for_query>>
       ELSE IF Len(todo) <= 1
       THEN srv' = "main" /\ xact' = Nobody /\ send_ready_for_query' = TRUE
       ELSE srv' = "query" /\ UNCHANGED <<xact, send_ready_for_query>>
    /\ UNCHANGED ignore_till_sync

\* A statement ends.  By the simple protocol the last one commits before its
\* CommandComplete is sent; by the extended one only the Sync commits.
Completes(types) ==
    /\ Answer(types, xact)
    /\ todo' = SubSeq(todo, 2, Len(todo))
    /\ IF doing_extended_query_message
       THEN srv' = "main" /\ UNCHANGED <<committed, xact, send_ready_for_query>>
       ELSE IF Len(todo) <= 1
       THEN srv' = "main" /\ finish_xact_command /\ send_ready_for_query' = TRUE
       ELSE srv' = "query" /\ UNCHANGED <<committed, xact, send_ready_for_query>>
    /\ UNCHANGED ignore_till_sync

-----------------------------------------------------------------------------
(* The message loop. *)

\* SocketBackend: the next message is of one of these types.
Reads(types) ==
    /\ srv = "main" /\ ~send_ready_for_query
    /\ toServer # <<>>
    /\ Head(toServer).type \in types
    /\ toServer' = Tail(toServer)
    /\ UNCHANGED <<link, asked, notified>>

Skips == UNCHANGED <<toClient, srv, todo, xact, send_ready_for_query, committed,
                     ignore_till_sync>>

\* The command the message belongs to starts to run.
Starts(k) ==
    /\ srv' = "query"
    /\ todo' = asked[k].stmts
    /\ xact' = k
    /\ UNCHANGED <<toClient, committed, send_ready_for_query, ignore_till_sync>>

ReadQuery ==
    /\ Reads({"Q"})
    /\ IF ignore_till_sync THEN Skips ELSE Starts(Head(toServer).cmd)

ReadExecute ==
    /\ Reads({"E"})
    /\ IF ignore_till_sync THEN Skips ELSE Starts(Head(toServer).cmd)

\* The answers to Parse, Bind and Describe.
Reply(type, c) ==
    LET rows == c.stmts = <<"rows">>
    IN CASE type = "P" -> <<"1">>
         [] type = "B" -> <<"2">>
         [] type = "D" -> (IF c.class = "DESCRIBE" THEN <<"t">> ELSE <<>>)
                              \o (IF rows THEN <<"T">> ELSE <<"n">>)

ReadParseBindDescribe ==
    /\ Reads({"P", "B", "D"})
    /\ LET m == Head(toServer)
       IN IF ignore_till_sync THEN Skips
          ELSE \/ Fails(<<>>, m.cmd, TRUE)
               \/ /\ Answer(Reply(m.type, asked[m.cmd]), m.cmd)
                  /\ xact' = m.cmd
                  /\ UNCHANGED <<srv, todo, committed, send_ready_for_query,
                                 ignore_till_sync>>

\* The Sync ends the skipping and commits, which may still fail.
ReadSync ==
    /\ Reads({"S"})
    /\ \/ xact # Nobody /\ Fails(<<>>, xact, FALSE)
       \/ /\ finish_xact_command
          /\ send_ready_for_query' = TRUE
          /\ ignore_till_sync' = FALSE
          /\ UNCHANGED <<toClient, srv, todo>>

\* What is left of a COPY that failed is read and dropped.
ReadCopyLeftover ==
    /\ Reads({"d", "c", "f"})
    /\ Skips

ReadyForQuery ==
    /\ srv = "main" /\ send_ready_for_query
    /\ send_ready_for_query' = FALSE
    /\ Answer(<<"Z">>, Nobody)
    /\ UNCHANGED <<asked, toServer, link, srv, todo, xact, ignore_till_sync, committed,
                   notified>>

-----------------------------------------------------------------------------
(* Running a statement.  Its messages are put on the stream at once; that  *)
(* the client may see fewer of them, and a crash in between, is left to    *)
(* the reads and to the faults.                                            *)

Running == IF todo = <<>> THEN "nothing" ELSE Head(todo)

\* The messages of a statement, up to its CommandComplete.
Output ==
    CASE Running = "rows" -> IF doing_extended_query_message THEN <<"D">> ELSE <<"T", "D">>
      [] Running = "copyout" -> <<"H", "d", "c">>
      [] OTHER -> <<>>

RunStatement ==
    /\ UNCHANGED <<asked, toServer, link, notified>>
    /\ srv = "query"
    /\ Running # "copyin"
    /\ \/ \E n \in 0..Len(Output) : Fails(SubSeq(Output, 1, n), xact, doing_extended_query_message)
       \/ Completes(Append(Output, IF Running = "nothing" THEN "I" ELSE "C"))

ReceiveCopyBegin ==
    /\ UNCHANGED <<asked, toServer, link, notified>>
    /\ srv = "query"
    /\ Running = "copyin"
    /\ \/ Fails(<<>>, xact, doing_extended_query_message)
       \/ /\ Answer(<<"G">>, xact)
          /\ srv' = "copyin"
          /\ UNCHANGED <<todo, xact, ignore_till_sync, send_ready_for_query, committed>>

\* A COPY FROM STDIN reads its own messages: data, an end, an order to fail.
\* It overlooks a Sync and fails on anything else.
CopyGetData ==
    /\ UNCHANGED <<asked, link, notified>>
    /\ srv = "copyin"
    /\ toServer # <<>>
    /\ toServer' = Tail(toServer)
    /\ LET type == Head(toServer).type
       IN CASE type = "c" -> Completes(<<"C">>) \/ Fails(<<>>, xact, doing_extended_query_message)
            [] type \in {"d", "S"} ->
                   UNCHANGED <<toClient, srv, todo, xact, ignore_till_sync,
                               send_ready_for_query, committed>>
            [] OTHER -> Fails(<<>>, xact, doing_extended_query_message)

\* It may also fail between two reads, and before the first: a trigger, a
\* constraint, a cancel.
CopyFails ==
    /\ UNCHANGED <<asked, toServer, link, notified>>
    /\ srv = "copyin"
    /\ Fails(<<>>, xact, doing_extended_query_message)

-----------------------------------------------------------------------------
(* Events from outside. *)

\* A notification of another session, sent while the server is idle.
ProcessIncomingNotify ==
    /\ srv = "main" /\ xact = Nobody
    /\ notified < MaxNotify
    /\ notified' = notified + 1
    /\ Answer(<<"A">>, notified + 1)
    /\ UNCHANGED <<asked, toServer, link, srv, todo, xact, ignore_till_sync,
                   send_ready_for_query, committed>>

Dead == srv = "exit" \/ link = "cut"

\* The server ends, with the FATAL error of a shutdown or without a word; then
\* what it had not flushed, or its reset overtakes, may be lost.  That part of
\* it arrives is the same as an end after the part was read.
ServerExits ==
    /\ ~Dead
    /\ srv' = "exit"
    /\ todo' = <<>>
    /\ xact' = Nobody
    /\ ignore_till_sync' = FALSE
    /\ send_ready_for_query' = FALSE
    /\ toServer' = <<>>
    /\ \/ Answer(<<"E">>, Nobody)
       \/ toClient' \in {toClient, <<>>}
    /\ UNCHANGED <<asked, link, committed, notified>>

\* The network fails, and takes what is on the way or lets it arrive.
LinkCut ==
    /\ ~Dead
    /\ link' = "cut"
    /\ toClient' \in {toClient, <<>>}
    /\ toServer' \in {toServer, <<>>}
    /\ UNCHANGED <<asked, serverVars>>

ServerStep ==
    \/ ReadyForQuery
    \/ ReadQuery \/ ReadExecute \/ ReadParseBindDescribe \/ ReadSync
    \/ ReadCopyLeftover
    \/ RunStatement \/ ReceiveCopyBegin \/ CopyGetData

Event == CopyFails \/ ProcessIncomingNotify \/ ServerExits \/ LinkCut
=============================================================================
