-------------------------- MODULE QueryCycleProofs --------------------------
(***************************************************************************)
(* The query cycle, for any commands, any number of them, any failure and  *)
(* any interleaving of the two ends.                                       *)
(*                                                                         *)
(* Six results, each on an invariant that relates the two ends:            *)
(*   TypeCorrect           Typed;                                          *)
(*   IdleInSync            Round: from a request to its ReadyForQuery      *)
(*                         both ends are in the same round;                *)
(*   NotificationsInOrder  NotesInv: the stream tells the notifications    *)
(*                         that follow the ones parsed;                    *)
(*   AnswersAreOwn and MessagesAgree                                       *)
(*                         AnswerInv: in a round only its command is       *)
(*                         spoken of, rows come after their description,   *)
(*                         and what is left on a dead connection is quiet; *)
(*   PromiseKept           InOrder: the pending command comes after all    *)
(*                         that were applied; Finishes: what was said of   *)
(*                         PQexec's command, wherever that is by now, is   *)
(*                         what the server did; Settled: what PQexec       *)
(*                         reported stays so.                              *)
(* Those that rest on Round need that no COPY FROM STDIN comes by the      *)
(* extended protocol: with it the two ends do get out of step.             *)
(***************************************************************************)
EXTENDS QueryCycle, SequenceLemmas

-----------------------------------------------------------------------------

(* Types. *)

\* A message, and those that belong to a COPY or to no command.
Msg == [type : Types, cmd : Nat]
CopyTypes == {"d", "c", "f"}
Unowned == CopyTypes \cup {"S"}

\* What travels to the server, and back, when n commands were given.
Requests(n) == {m \in Msg : m.type \in Unowned \/ m.cmd \in 1..n}
Replies(n) == {m \in Msg : m.type = "A" \/ m.cmd \in 0..n}

\* The results that are made when n commands were given.
ResultStatuses ==
    {"none", "COMMAND_OK", "EMPTY_QUERY", "TUPLES_OK", "FATAL_ERROR", "COPY_IN", "COPY_OUT"}

Results(n) ==
    {res \in [status : ResultStatuses, err : Seq(Int), from : SUBSET (0..n)] :
        (res.err # <<>>) = (res.status = "FATAL_ERROR")}

\* The types of the server's variables and of what is on the way.
ServerTyped ==
    /\ asked \in Seq(Commands)
    /\ toServer \in Seq(Requests(Len(asked)))
    /\ toClient \in Seq(Replies(Len(asked)))
    /\ link \in {"up", "cut"}
    /\ srv \in {"main", "query", "copyin", "exit"}
    /\ todo \in Seq(Statements)
    /\ xact \in 0..Len(asked)
    /\ srv \in {"query", "copyin"} => xact # Nobody
    /\ srv = "copyin" => todo # <<>>
    /\ ignore_till_sync \in BOOLEAN /\ send_ready_for_query \in BOOLEAN
    /\ committed \in SUBSET (1..Len(asked))
    /\ notified \in Nat

-----------------------------------------------------------------------------
\* Messages that answer command k.
LEMMA MessagesTyped ==
    ASSUME NEW n \in Nat, NEW k \in 0..n, NEW types \in Seq(Types)
    PROVE  /\ Messages(types, k) \in Seq(Replies(n))
           /\ Len(Messages(types, k)) = Len(types)
           /\ \A i \in 1..Len(types) : Messages(types, k)[i] = Message(types[i], k)
<1>1. \A i \in 1..Len(types) : Message(types[i], k) \in Replies(n)
  BY DEF Message, Replies, Msg
<1> QED
  BY <1>1 DEF Messages

\* An answer is made of replies.
LEMMA AnswerTyped ==
    ASSUME ServerTyped, NEW types \in Seq(Types), NEW k \in 0..Len(asked), Answer(types, k)
    PROVE  toClient' \in Seq(Replies(Len(asked)))
<1>1. Messages(types, k) \in Seq(Replies(Len(asked)))
  BY MessagesTyped DEF ServerTyped
<1> QED
  BY <1>1 DEF Answer, Send, ServerTyped

\* A statement that fails leaves the variables with their types.
LEMMA FailsTyped ==
    ASSUME ServerTyped, NEW types \in Seq(Types), NEW k \in 0..Len(asked), NEW e \in BOOLEAN,
           Fails(types, k, e), UNCHANGED <<asked, link, notified>>,
           toServer' \in Seq(Requests(Len(asked)))
    PROVE  ServerTyped'
<1>1. Append(types, "E") \in Seq(Types)
  BY DEF Types
<1>2. toClient' \in Seq(Replies(Len(asked)))
  BY <1>1, AnswerTyped DEF Fails
<1> QED
  BY <1>2 DEF ServerTyped, Fails, Nobody

\* So does one that completes, the last of its command or not.
LEMMA CompletesTyped ==
    ASSUME ServerTyped, NEW types \in Seq(Types), srv \in {"query", "copyin"},
           Completes(types), UNCHANGED <<asked, link, notified>>,
           toServer' \in Seq(Requests(Len(asked)))
    PROVE  ServerTyped'
<1>1. toClient' \in Seq(Replies(Len(asked)))
  BY AnswerTyped DEF Completes, ServerTyped
<1>2. SubSeq(todo, 2, Len(todo)) \in Seq(Statements)
  BY DEF ServerTyped
<1>3. xact \in 1..Len(asked)
  BY DEF ServerTyped, Nobody
<1>4. committed' \in SUBSET (1..Len(asked))
  BY <1>3 DEF ServerTyped, Completes, finish_xact_command
<1>5. /\ todo' = SubSeq(todo, 2, Len(todo))
      /\ UNCHANGED ignore_till_sync
  BY DEF Completes
<1>6. \/ srv' = "main" /\ UNCHANGED <<xact, send_ready_for_query>>
      \/ srv' = "main" /\ xact' = Nobody /\ send_ready_for_query' = TRUE
      \/ srv' = "query" /\ UNCHANGED <<xact, send_ready_for_query>>
  BY DEF Completes, finish_xact_command
<1>7. send_ready_for_query' \in BOOLEAN
  BY <1>6 DEF ServerTyped
<1>8. Len(asked) \in Nat
  BY DEF ServerTyped
<1>9. /\ srv' \in {"main", "query"} /\ xact' \in 0..Len(asked)
      /\ srv' = "query" => xact' # Nobody
  BY <1>3, <1>6, <1>8 DEF Nobody
<1> QED
  BY <1>1, <1>2, <1>4, <1>5, <1>7, <1>9 DEF ServerTyped
\* Reading a message: it is one that was sent, and the others stay.
LEMMA ReadsTyped ==
    ASSUME ServerTyped, toServer # <<>>
    PROVE  /\ Tail(toServer) \in Seq(Requests(Len(asked)))
           /\ Head(toServer) \in Requests(Len(asked))
           /\ Head(toServer).type \notin Unowned => Head(toServer).cmd \in 1..Len(asked)
<1>1. Head(toServer) \in Requests(Len(asked)) /\ Tail(toServer) \in Seq(Requests(Len(asked)))
  BY DEF ServerTyped
<1> QED
  BY <1>1 DEF Requests

\* A command that was given is one of the application's.
LEMMA CommandsKnown ==
    ASSUME ServerTyped, NEW k \in 1..Len(asked)
    PROVE  IsCommand(asked[k])
<1>1. asked[k] \in Commands
  BY DEF ServerTyped
<1> QED
  BY <1>1, CommandsAssumption

\* Reading the message that starts a command, or skipping it.
LEMMA StartsTyped ==
    ASSUME ServerTyped, NEW types, Reads(types), types \cap Unowned = {},
           IF ignore_till_sync THEN Skips ELSE Starts(Head(toServer).cmd)
    PROVE  ServerTyped'
<1>1. /\ toServer' \in Seq(Requests(Len(asked))) /\ Head(toServer).cmd \in 1..Len(asked)
      /\ UNCHANGED <<link, asked, notified>>
  BY ReadsTyped DEF Reads
<1>2. CASE ignore_till_sync
  BY <1>1, <1>2 DEF Skips, ServerTyped
<1>3. CASE ~ignore_till_sync
  <2>1. asked[Head(toServer).cmd].stmts \in Seq(Statements)
    BY <1>1, CommandsKnown DEF IsCommand
  <2>2. /\ srv' = "query" /\ xact' \in 1..Len(asked) /\ todo' \in Seq(Statements)
        /\ UNCHANGED <<toClient, committed, send_ready_for_query, ignore_till_sync>>
    BY <1>1, <1>3, <2>1 DEF Starts
  <2>3. xact' # Nobody /\ xact' \in 0..Len(asked)
    BY <2>2 DEF Nobody, ServerTyped
  <2> QED
    BY <1>1, <2>2, <2>3 DEF ServerTyped
<1> QED
  BY <1>2, <1>3

\* What Parse, Bind and Describe are answered with.
LEMMA ReplyTyped ==
    ASSUME NEW c, NEW type \in {"P", "B", "D"} PROVE Reply(type, c) \in Seq(Types)
<1>1. CASE type = "P"
  BY <1>1 DEF Reply, Types
<1>2. CASE type = "B"
  BY <1>2 DEF Reply, Types
<1>3. CASE type = "D"
  <2>1. \A s, t : s \in Seq(Types) /\ t \in Seq(Types) => s \o t \in Seq(Types)
    OBVIOUS
  <2>2. <<"t">> \in Seq(Types) /\ <<>> \in Seq(Types) /\ <<"T">> \in Seq(Types)
        /\ <<"n">> \in Seq(Types)
    BY DEF Types
  <2>3. Reply(type, c) = (IF c.class = "DESCRIBE" THEN <<"t">> ELSE <<>>)
                            \o (IF c.stmts = <<"rows">> THEN <<"T">> ELSE <<"n">>)
    BY <1>3 DEF Reply
  <2> QED
    BY <2>1, <2>2, <2>3
<1> QED
  BY <1>1, <1>2, <1>3

\* PostgresMain, on Parse, Bind and Describe.
LEMMA ReadParseTyped == ASSUME ServerTyped, ReadParseBindDescribe PROVE ServerTyped'
<1> DEFINE m == Head(toServer)
<1>1. /\ toServer' \in Seq(Requests(Len(asked))) /\ m.cmd \in 1..Len(asked)
      /\ m.type \in {"P", "B", "D"}
      /\ UNCHANGED <<link, asked, notified>>
  BY ReadsTyped DEF ReadParseBindDescribe, Reads, Unowned, CopyTypes
<1>2. m.cmd \in 0..Len(asked) /\ <<>> \in Seq(Types)
  BY <1>1 DEF ServerTyped
<1>3. CASE Skips
  BY <1>1, <1>3 DEF Skips, ServerTyped
<1>4. CASE Fails(<<>>, m.cmd, TRUE)
  BY <1>1, <1>2, <1>4, FailsTyped
<1>5. CASE /\ Answer(Reply(m.type, asked[m.cmd]), m.cmd)
           /\ xact' = m.cmd
           /\ UNCHANGED <<srv, todo, committed, send_ready_for_query, ignore_till_sync>>
  <2>1. toClient' \in Seq(Replies(Len(asked)))
    BY <1>1, <1>2, <1>5, ReplyTyped, AnswerTyped
  <2>2. xact' # Nobody
    BY <1>1, <1>5 DEF Nobody
  <2> QED
    BY <1>1, <1>2, <1>5, <2>1, <2>2 DEF ServerTyped
<1> QED
  BY <1>3, <1>4, <1>5 DEF ReadParseBindDescribe

\* PostgresMain, on Sync.
LEMMA ReadSyncTyped == ASSUME ServerTyped, ReadSync PROVE ServerTyped'
<1>1. /\ toServer' \in Seq(Requests(Len(asked)))
      /\ UNCHANGED <<link, asked, notified>> /\ srv = "main"
  BY ReadsTyped DEF ReadSync, Reads
<1>2. xact \in 0..Len(asked) /\ <<>> \in Seq(Types) /\ Len(asked) \in Nat
  BY DEF ServerTyped
<1>3. CASE Fails(<<>>, xact, FALSE)
  BY <1>1, <1>2, <1>3, FailsTyped
<1>4. CASE /\ finish_xact_command
           /\ send_ready_for_query' = TRUE
           /\ ignore_till_sync' = FALSE
           /\ UNCHANGED <<toClient, srv, todo>>
  <2>1. committed' \in SUBSET (1..Len(asked))
    BY <1>2, <1>4 DEF finish_xact_command, ServerTyped, Nobody
  <2>2. xact' \in 0..Len(asked)
    BY <1>2, <1>4 DEF finish_xact_command, Nobody
  <2> QED
    BY <1>1, <1>4, <2>1, <2>2 DEF ServerTyped
<1> QED
  BY <1>3, <1>4 DEF ReadSync

\* The output of a statement, and a part of it.
LEMMA OutputTyped ==
    /\ Output \in Seq(Types)
    /\ \A n \in 0..Len(Output) : SubSeq(Output, 1, n) \in Seq(Types)
<1>1. /\ <<"D">> \in Seq(Types) /\ <<"T", "D">> \in Seq(Types) /\ <<>> \in Seq(Types)
      /\ <<"H", "d", "c">> \in Seq(Types)
  BY DEF Types
<1>2. Output \in Seq(Types)
  BY <1>1 DEF Output
<1>3. ASSUME NEW s \in Seq(Types), NEW n \in 0..Len(s) PROVE SubSeq(s, 1, n) \in Seq(Types)
  <2>1. n \in Int /\ \A i \in 1..n : s[i] \in Types
    BY <1>3
  <2> QED
    BY <2>1, SubSeqProperties
<1> QED
  BY <1>2, <1>3

\* A statement runs: it completes, fails, or starts a COPY.
LEMMA RunStatementTyped == ASSUME ServerTyped, RunStatement PROVE ServerTyped'
<1>1. /\ toServer' \in Seq(Requests(Len(asked))) /\ UNCHANGED <<asked, link, notified>>
      /\ srv = "query"
  BY DEF RunStatement, ServerTyped
<1>2. xact \in 0..Len(asked) /\ doing_extended_query_message \in BOOLEAN
  BY DEF ServerTyped, doing_extended_query_message
<1>3. ASSUME NEW n \in 0..Len(Output), 
             Fails(SubSeq(Output, 1, n), xact, doing_extended_query_message)
      PROVE  ServerTyped'
  BY <1>1, <1>2, <1>3, OutputTyped, FailsTyped
<1>4. CASE Completes(Append(Output, IF Running = "nothing" THEN "I" ELSE "C"))
  <2>1. \A s : s \in Seq(Types) => Append(s, "I") \in Seq(Types) /\ Append(s, "C") \in Seq(Types)
    BY DEF Types
  <2> QED
    BY <1>1, <1>4, <2>1, OutputTyped, CompletesTyped
<1> QED
  BY <1>3, <1>4 DEF RunStatement

\* The COPY FROM STDIN of copy.c.
LEMMA CopyTyped ==
    ASSUME ServerTyped, ReceiveCopyBegin \/ CopyGetData \/ CopyFails PROVE ServerTyped'
<1>1. /\ xact \in 0..Len(asked) /\ doing_extended_query_message \in BOOLEAN
      /\ <<>> \in Seq(Types) /\ <<"G">> \in Seq(Types) /\ <<"C">> \in Seq(Types)
  BY DEF ServerTyped, doing_extended_query_message, Types
<1>2. UNCHANGED <<asked, link, notified>> /\ srv \in {"query", "copyin"}
  BY DEF ReceiveCopyBegin, CopyGetData, CopyFails
<1>3. toServer' \in Seq(Requests(Len(asked)))
  BY ReadsTyped DEF ReceiveCopyBegin, CopyGetData, CopyFails, ServerTyped
<1>4. CASE Fails(<<>>, xact, doing_extended_query_message)
  BY <1>1, <1>2, <1>3, <1>4, FailsTyped
<1>5. CASE Completes(<<"C">>)
  BY <1>1, <1>2, <1>3, <1>5, CompletesTyped
<1>6. CASE /\ Running = "copyin" /\ Answer(<<"G">>, xact) /\ srv' = "copyin"
           /\ UNCHANGED <<todo, xact, ignore_till_sync, send_ready_for_query, committed>>
  <2>1. toClient' \in Seq(Replies(Len(asked)))
    BY <1>1, <1>6, AnswerTyped
  <2>2. todo # <<>>
    BY <1>6 DEF Running
  <2> QED
    BY <1>2, <1>3, <1>6, <2>1, <2>2 DEF ServerTyped
<1>7. CASE UNCHANGED <<toClient, srv, todo, xact, ignore_till_sync, send_ready_for_query,
                       committed>>
  BY <1>2, <1>3, <1>7 DEF ServerTyped
<1> QED
  <2>1. CASE ReceiveCopyBegin
    BY <1>4, <1>6, <2>1 DEF ReceiveCopyBegin
  <2>2. CASE CopyGetData
    BY <1>4, <1>5, <1>7, <2>2 DEF CopyGetData
  <2>3. CASE CopyFails
    BY <1>4, <2>3 DEF CopyFails
  <2> QED
    BY <2>1, <2>2, <2>3

\* Every step of the server, and every failure, keeps the server's types.
LEMMA ServerTypedStep ==
    ASSUME ServerTyped,
           ServerStep \/ CopyFails \/ ProcessIncomingNotify \/ ServerExits \/ LinkCut
    PROVE  ServerTyped'
<1>1. CASE ReadyForQuery
  <2>1. Nobody \in 0..Len(asked) /\ <<"Z">> \in Seq(Types)
    BY DEF ServerTyped, Nobody, Types
  <2>2. toClient' \in Seq(Replies(Len(asked)))
    BY <1>1, <2>1, AnswerTyped DEF ReadyForQuery
  <2> QED
    BY <1>1, <2>2 DEF ReadyForQuery, ServerTyped
<1>2. CASE ReadQuery \/ ReadExecute
  <2>1. {"Q"} \cap Unowned = {} /\ {"E"} \cap Unowned = {}
    BY DEF Unowned, CopyTypes
  <2> QED
    BY <1>2, <2>1, StartsTyped DEF ReadQuery, ReadExecute
<1>3. CASE ReadParseBindDescribe
  BY <1>3, ReadParseTyped
<1>4. CASE ReadSync
  BY <1>4, ReadSyncTyped
<1>5. CASE ReadCopyLeftover
  <2>1. toServer' \in Seq(Requests(Len(asked))) /\ UNCHANGED <<link, asked, notified>>
    BY <1>5, ReadsTyped DEF ReadCopyLeftover, Reads
  <2> QED
    BY <1>5, <2>1 DEF ReadCopyLeftover, Skips, ServerTyped
<1>6. CASE RunStatement
  BY <1>6, RunStatementTyped
<1>7. CASE ReceiveCopyBegin \/ CopyGetData \/ CopyFails
  BY <1>7, CopyTyped
<1>8. CASE ProcessIncomingNotify
  <2>1. notified + 1 \in Nat
    BY DEF ServerTyped
  <2>2. Message("A", notified + 1) \in Replies(Len(asked))
    BY <2>1 DEF Message, Replies, Msg, Types
  <2>3. Messages(<<"A">>, notified + 1) \in Seq(Replies(Len(asked)))
    BY <2>2 DEF Messages
  <2>4. toClient' \in Seq(Replies(Len(asked)))
    BY <1>8, <2>3 DEF ProcessIncomingNotify, Answer, Send, ServerTyped
  <2>5. notified' \in Nat
    BY <1>8, <2>1 DEF ProcessIncomingNotify
  <2> QED
    BY <1>8, <2>4, <2>5 DEF ProcessIncomingNotify, ServerTyped
<1>9. CASE ServerExits
  <2>1. Nobody \in 0..Len(asked) /\ <<"E">> \in Seq(Types) /\ <<>> \in Seq(Replies(Len(asked)))
        /\ <<>> \in Seq(Requests(Len(asked))) /\ <<>> \in Seq(Statements)
    BY DEF ServerTyped, Nobody, Types
  <2>2. Answer(<<"E">>, Nobody) \/ toClient' = toClient \/ toClient' = <<>>
    BY <1>9 DEF ServerExits
  <2>3. toClient' \in Seq(Replies(Len(asked)))
    BY <2>1, <2>2, AnswerTyped DEF ServerTyped
  <2>4. /\ srv' = "exit" /\ todo' = <<>> /\ xact' = Nobody /\ toServer' = <<>>
        /\ ignore_till_sync' = FALSE /\ send_ready_for_query' = FALSE
        /\ UNCHANGED <<asked, link, committed, notified>>
    BY <1>9 DEF ServerExits
  <2> QED
    BY <2>1, <2>3, <2>4 DEF ServerTyped
<1>10. CASE LinkCut
  <2>1. /\ link' = "cut"
        /\ toClient' = toClient \/ toClient' = <<>>
        /\ toServer' = toServer \/ toServer' = <<>>
    BY <1>10 DEF LinkCut
  <2>2. /\ toClient' \in Seq(Replies(Len(asked))) /\ toServer' \in Seq(Requests(Len(asked)))
        /\ link' \in {"up", "cut"}
    <3>1. <<>> \in Seq(Replies(Len(asked))) /\ <<>> \in Seq(Requests(Len(asked)))
      OBVIOUS
    <3> QED
      BY <2>1, <3>1 DEF ServerTyped
  <2>3. /\ UNCHANGED <<asked, srv, todo, xact>>
        /\ UNCHANGED <<ignore_till_sync, send_ready_for_query, committed, notified>>
    BY <1>10 DEF LinkCut, serverVars
  <2> QED
    BY <2>2, <2>3 DEF ServerTyped
<1> QED
  BY <1>1, <1>2, <1>3, <1>4, <1>5, <1>6, <1>7, <1>8, <1>9, <1>10 DEF ServerStep

-----------------------------------------------------------------------------
(* Types of the client. *)

\* The functions that may not have returned.
Calling == {"none", "PQexecStart", "PQexecFinish", "PQgetResult", "PQgetCopyData",
               "parseInput"}

\* The types of the client's variables, and what holds of them at every line:
\* a result is ready when the state says so, PQexec has a command, and a socket
\* is closed only when the connection is dead.
ClientTyped ==
    /\ status \in {"OK", "BAD"}
    /\ asyncStatus \in {"IDLE", "BUSY", "READY", "COPY_IN", "COPY_OUT"}
    /\ queryclass \in Classes
    /\ result \in Results(Len(asked))
    /\ errorMessage \in Seq(Int)
    /\ inBuffer \in Seq(Replies(Len(asked)))
    /\ notifies \in Seq(Nat)
    /\ call \in [fn : Calling, last : Results(Len(asked))]
    /\ returned \in [cmd : 0..Len(asked), res : Results(Len(asked)), null : BOOLEAN]
    /\ asyncStatus = "READY" => result # NoResult
    /\ call.fn \in {"PQexecStart", "PQexecFinish"} => Len(asked) > 0
    /\ status = "BAD" => Dead

Typed == ServerTyped /\ ClientTyped

\* A new command makes room for what is about it, and keeps what there was.
LEMMA TypesGrow ==
    ASSUME NEW n \in Nat, NEW m \in Nat, n <= m
    PROVE  /\ Seq(Replies(n)) \subseteq Seq(Replies(m))
           /\ Seq(Requests(n)) \subseteq Seq(Requests(m))
           /\ Results(n) \subseteq Results(m)
<1>1. 0..n \subseteq 0..m /\ 1..n \subseteq 1..m
  OBVIOUS
<1>2. Replies(n) \subseteq Replies(m) /\ Requests(n) \subseteq Requests(m)
  BY <1>1 DEF Replies, Requests
<1>3. \A S, T : S \subseteq T => Seq(S) \subseteq Seq(T)
  OBVIOUS
<1>4. ASSUME NEW res \in Results(n) PROVE res \in Results(m)
  <2>1. res \in [status : ResultStatuses, err : Seq(Int), from : SUBSET (0..m)]
    BY <1>1, <1>4 DEF Results
  <2> QED
    BY <1>4, <2>1 DEF Results
<1> QED
  BY <1>2, <1>3, <1>4

\* The client changes only what travels; and the commands, which grow.
LEMMA ServerKept ==
    ASSUME ServerTyped, asked' \in Seq(Commands), Len(asked') >= Len(asked),
           UNCHANGED <<serverVars, link>>,
           toServer' \in Seq(Requests(Len(asked'))), toClient' \in Seq(Replies(Len(asked')))
    PROVE  ServerTyped'
<1>1. Len(asked) \in Nat /\ Len(asked') \in Nat
  BY DEF ServerTyped
<1>2. 0..Len(asked) \subseteq 0..Len(asked') /\ 1..Len(asked) \subseteq 1..Len(asked')
  BY <1>1
<1>3. xact' \in 0..Len(asked') /\ committed' \in SUBSET (1..Len(asked'))
  BY <1>2 DEF serverVars, ServerTyped
<1> QED
  BY <1>3 DEF serverVars, ServerTyped

\* The results the client makes.
LEMMA ResultsMade ==
    ASSUME NEW n \in Nat
    PROVE  /\ NoResult \in Results(n)
           /\ \A s \in ResultStatuses \ {"FATAL_ERROR"}, from \in SUBSET (0..n) :
                  Result(s, from) \in Results(n)
           /\ \A err \in Seq(Int) : err # <<>> => FatalError(err) \in Results(n)
           /\ \A res \in Results(n), err \in Seq(Int), from \in SUBSET (0..n) :
                  res.status = "FATAL_ERROR" =>
                      [res EXCEPT !.err = @ \o err, !.from = @ \cup from] \in Results(n)
           /\ \A res \in Results(n), err \in Seq(Int) :
                  res.status = "FATAL_ERROR" => [res EXCEPT !.err = @ \o err] \in Results(n)
           /\ \A res \in Results(n), from \in SUBSET (0..n) :
                  [res EXCEPT !.from = @ \cup from] \in Results(n)
<1>1. <<>> \in Seq(Int) /\ {} \in SUBSET (0..n)
  OBVIOUS
<1>2. ASSUME NEW s \in ResultStatuses \ {"FATAL_ERROR"}, NEW from \in SUBSET (0..n)
      PROVE  Result(s, from) \in Results(n)
  BY <1>1 DEF Result, Results
<1>3. NoResult \in Results(n)
  BY <1>1, <1>2 DEF NoResult, ResultStatuses
<1>4. ASSUME NEW err \in Seq(Int), err # <<>> PROVE FatalError(err) \in Results(n)
  <2>1. Result("FATAL_ERROR", {}) \in [status : ResultStatuses, err : Seq(Int), from : SUBSET (0..n)]
    BY <1>1 DEF Result, ResultStatuses
  <2>2. /\ FatalError(err) \in [status : ResultStatuses, err : Seq(Int), from : SUBSET (0..n)]
        /\ FatalError(err).err = err
    BY <1>4, <2>1 DEF FatalError
  <2>3. FatalError(err).status = Result("FATAL_ERROR", {}).status
    BY <2>1 DEF FatalError
  <2>4. Result("FATAL_ERROR", {}).status = "FATAL_ERROR"
    BY DEF Result
  <2> QED
    BY <1>4, <2>2, <2>3, <2>4 DEF Results
<1>5. ASSUME NEW s \in Seq(Int), NEW t \in Seq(Int), s # <<>>
      PROVE  s \o t \in Seq(Int) /\ s \o t # <<>>
  BY <1>5
<1>6. ASSUME NEW res \in Results(n), NEW err \in Seq(Int), NEW from \in SUBSET (0..n),
             res.status = "FATAL_ERROR"
      PROVE  /\ [res EXCEPT !.err = @ \o err, !.from = @ \cup from] \in Results(n)
             /\ [res EXCEPT !.err = @ \o err] \in Results(n)
  <2>1. res.err \o err \in Seq(Int) /\ res.err \o err # <<>> /\ res.from \cup from \in SUBSET (0..n)
    BY <1>5, <1>6 DEF Results
  <2> QED
    BY <1>6, <2>1 DEF Results
<1>7. ASSUME NEW res \in Results(n), NEW from \in SUBSET (0..n)
      PROVE  [res EXCEPT !.from = @ \cup from] \in Results(n)
  BY DEF Results
<1> QED
  BY <1>2, <1>3, <1>4, <1>6, <1>7

\* A type holds of the buffer, and so of a message and of the rest.
LEMMA BufferTyped ==
    ASSUME Typed, inBuffer # <<>>
    PROVE  /\ Tail(inBuffer) \in Seq(Replies(Len(asked)))
           /\ Head(inBuffer).type \in Types /\ Head(inBuffer).cmd \in Nat
           /\ Head(inBuffer).type # "A" => Head(inBuffer).cmd \in 0..Len(asked)
<1>1. Head(inBuffer) \in Replies(Len(asked)) /\ Tail(inBuffer) \in Seq(Replies(Len(asked)))
  BY DEF Typed, ClientTyped
<1> QED
  BY <1>1 DEF Replies, Msg

\* The result under construction, after a message that adds to it.
LEMMA BuildTyped ==
    ASSUME Typed, NEW m, m.cmd \in 0..Len(asked), NEW s \in ResultStatuses \ {"FATAL_ERROR", "none"},
           Build(s, m)
    PROVE  result' \in Results(Len(asked)) /\ result' # NoResult
<1>1. Len(asked) \in Nat /\ {m.cmd} \in SUBSET (0..Len(asked)) /\ result \in Results(Len(asked))
  BY DEF Typed, ServerTyped, ClientTyped
<1>2. CASE result = NoResult
  <2>1. result' = Result(s, {m.cmd})
    BY <1>2 DEF Build
  <2> QED
    BY <1>1, <2>1, ResultsMade DEF Result, NoResult
<1>3. CASE result # NoResult
  <2>1. result' = [result EXCEPT !.from = @ \cup {m.cmd}]
    BY <1>3 DEF Build
  <2>2. m.cmd \in result'.from
    BY <1>1, <2>1 DEF Results
  <2> QED
    BY <1>1, <2>1, <2>2, ResultsMade DEF Result, NoResult
<1> QED
  BY <1>2, <1>3

\* Merging keeps results; a result of libpq's own that an error starts is one.
LEMMA SaveErrorTyped ==
    ASSUME Typed, NEW msg \in Seq(Int), msg # <<>>
    PROVE  pqSaveErrorResult(msg) \in Results(Len(asked))
<1>1. Len(asked) \in Nat /\ result \in Results(Len(asked))
  BY DEF Typed, ServerTyped, ClientTyped
<1> QED
  BY <1>1, ResultsMade DEF pqSaveErrorResult

\* PQexecFinish merges results into a result.
LEMMA MergedTyped ==
    ASSUME NEW n \in Nat, NEW last \in Results(n), NEW res \in Results(n)
    PROVE  Merged(last, res) \in Results(n)
<1>1. res.err \in Seq(Int) /\ res.from \in SUBSET (0..n)
  BY DEF Results
<1> QED
  BY <1>1, ResultsMade DEF Merged

\* Parsing leaves the rest of the client, and everything of the server, alone.
LEMMA ParseTyped == ASSUME Typed, ParseMessage PROVE Typed'
<1> DEFINE m == Head(inBuffer)
           n == Len(asked)
<1>1. UNCHANGED <<serverVars, wireVars, asked, status, queryclass, call, copied, historyVars>>
  BY DEF ParseMessage
<1>2. inBuffer # <<>> /\ (getNotify(m) \/ ParseIdle(m) \/ ParseBusy(m))
  BY DEF ParseMessage, CanParse
<1>3. /\ n \in Nat /\ Tail(inBuffer) \in Seq(Replies(n)) /\ m.cmd \in Nat
      /\ m.type # "A" => m.cmd \in 0..n
      /\ inBuffer \in Seq(Replies(n)) /\ result \in Results(n) /\ errorMessage \in Seq(Int)
      /\ notifies \in Seq(Nat)
  BY <1>2, BufferTyped DEF Typed, ServerTyped, ClientTyped
<1> DEFINE P == /\ inBuffer' \in Seq(Replies(n)) /\ notifies' \in Seq(Nat)
                /\ result' \in Results(n) /\ errorMessage' \in Seq(Int)
                /\ asyncStatus' \in {"IDLE", "BUSY", "READY", "COPY_IN", "COPY_OUT"}
                /\ asyncStatus' = "READY" => result' # NoResult
<1>7. SUFFICES P
  <2>1. ServerTyped'
    BY <1>1, <1>3, ServerKept DEF Typed, ServerTyped, wireVars, serverVars
  <2>2. UNCHANGED <<asked, link, srv, status, queryclass, call, returned>>
    BY <1>1 DEF historyVars, wireVars, serverVars
  <2>3. P => ClientTyped'
    BY <2>2 DEF Typed, ClientTyped, Dead
  <2> QED
    BY <2>1, <2>3 DEF Typed
<1>4. CASE getNotify(m)
  BY <1>3, <1>4 DEF getNotify, Consume, Typed, ClientTyped
<1>5. CASE ParseIdle(m)
  BY <1>3, <1>5 DEF ParseIdle, Consume, Typed, ClientTyped
<1>6. CASE ParseBusy(m)
  <2>1. m.cmd \in 0..n /\ UNCHANGED notifies /\ {m.cmd} \in SUBSET (0..n)
    BY <1>3, <1>6 DEF ParseBusy
  <2>2. CASE ParseEnd(m)
    <3>1. asyncStatus' = "READY" /\ inBuffer' = Tail(inBuffer)
      BY <2>2 DEF ParseEnd, Consume
    <3>2. \/ UNCHANGED errorMessage /\ (Build("COMMAND_OK", m) \/ Build("EMPTY_QUERY", m))
          \/ /\ result' = [FatalError(<<m.cmd>>) EXCEPT !.from = {m.cmd}]
             /\ errorMessage' = Append(errorMessage, m.cmd)
      BY <2>2 DEF ParseEnd
    <3>3. CASE UNCHANGED errorMessage /\ (Build("COMMAND_OK", m) \/ Build("EMPTY_QUERY", m))
      <4>1. result' \in Results(n) /\ result' # NoResult
        BY <2>1, <3>3, BuildTyped DEF ResultStatuses
      <4> QED
        BY <1>3, <2>1, <3>1, <3>3, <4>1
    <3>4. CASE /\ result' = [FatalError(<<m.cmd>>) EXCEPT !.from = {m.cmd}]
               /\ errorMessage' = Append(errorMessage, m.cmd)
      <4>1. <<m.cmd>> \in Seq(Int) /\ <<m.cmd>> # <<>> /\ m.cmd \in Int
        BY <2>1, <1>3
      <4>2. FatalError(<<m.cmd>>) \in Results(n) 
        BY <1>3, <4>1, ResultsMade
      <4>3. result' \in Results(n) /\ m.cmd \in result'.from
        BY <2>1, <3>4, <4>2 DEF Results
      <4>4. result' # NoResult
        BY <4>3 DEF NoResult, Result
      <4>5. errorMessage' \in Seq(Int)
        BY <1>3, <3>4, <4>1
      <4> QED
        BY <1>3, <2>1, <3>1, <4>3, <4>4, <4>5
    <3> QED
      BY <3>2, <3>3, <3>4
  <2>3. CASE ParseReadyForQuery(m)
    BY <1>3, <2>1, <2>3 DEF ParseReadyForQuery, Consume
  <2>4. CASE ParseRowDescription(m)
    <3>1. CASE result = NoResult
      <4>1. result' \in Results(n)
        BY <2>1, <2>4, <3>1, BuildTyped DEF ParseRowDescription, ResultStatuses
      <4> QED
        BY <1>3, <1>6, <2>1, <2>4, <3>1, <4>1 DEF ParseRowDescription, Consume, ParseBusy
    <3>2. CASE result # NoResult
      BY <1>3, <2>1, <2>4, <3>2 DEF ParseRowDescription
    <3> QED
      BY <3>1, <3>2
  <2>5. CASE ParseDataRow(m)
    <3>1. inBuffer' = Tail(inBuffer) /\ asyncStatus' = "BUSY"
      BY <1>6, <2>5 DEF ParseDataRow, Consume, ParseBusy
    <3>2. <<Garbled>> \in Seq(Int) /\ <<Garbled>> # <<>>
      BY DEF Garbled
    <3>3. \/ Build("TUPLES_OK", m) /\ UNCHANGED errorMessage
          \/ UNCHANGED <<result, errorMessage>>
          \/ errorMessage' = <<Garbled>> /\ result' = pqSaveErrorResult(<<Garbled>>)
      BY <2>5 DEF ParseDataRow
    <3>4. result' \in Results(n) /\ errorMessage' \in Seq(Int)
      BY <1>3, <2>1, <3>2, <3>3, BuildTyped, SaveErrorTyped DEF ResultStatuses
    <3> QED
      BY <1>3, <2>1, <3>1, <3>4
  <2>6. CASE getCopyStart(m)
    <3>1. PICK s \in {"COPY_IN", "COPY_OUT"} : result' = Result(s, {m.cmd}) /\ asyncStatus' = s
      BY <2>6 DEF getCopyStart
    <3>2. result' \in Results(n)
      BY <1>3, <2>1, <3>1, ResultsMade DEF ResultStatuses
    <3> QED
      BY <1>3, <2>1, <2>6, <3>1, <3>2 DEF getCopyStart, Consume
  <2>7. CASE ParseParameterDescription(m)
    <3>1. result' = Result("COMMAND_OK", {m.cmd})
      BY <2>7 DEF ParseParameterDescription
    <3>2. result' \in Results(n)
      BY <1>3, <2>1, <3>1, ResultsMade DEF ResultStatuses
    <3> QED
      BY <1>3, <1>6, <2>1, <2>7, <3>2 DEF ParseParameterDescription, Consume, ParseBusy
  <2>8. CASE ParseNothing(m)
    BY <1>3, <1>6, <2>1, <2>8 DEF ParseNothing, Consume, ParseBusy
  <2> QED
    BY <1>6, <2>2, <2>3, <2>4, <2>5, <2>6, <2>7, <2>8 DEF ParseBusy
<1> QED
  BY <1>2, <1>4, <1>5, <1>6

-----------------------------------------------------------------------------
(* Types over the calls of the client. *)

\* What a step of the client may leave of the server's state and the wire.
LEMMA ClientStepTyped ==
    ASSUME Typed, UNCHANGED <<serverVars, link, asked>>,
           toServer' \in Seq(Requests(Len(asked))), toClient' \in Seq(Replies(Len(asked))),
           ClientTyped'
    PROVE  Typed'
<1>1. asked' \in Seq(Commands) /\ Len(asked') >= Len(asked)
  BY DEF Typed, ServerTyped
<1> QED
  BY <1>1, ServerKept DEF Typed

\* Only over a dead connection does a read fail.
LEMMA ReadFailsTyped ==
    ASSUME Typed, ReadFails PROVE status' \in {"OK", "BAD"} /\ (status' = "BAD" => Dead)
BY DEF ReadFails, Typed, ClientTyped, Dead

\* A message that is read was one on the way.
LEMMA ArrivesTyped ==
    ASSUME Typed, Arrives
    PROVE  inBuffer' \in Seq(Replies(Len(asked))) /\ toClient' \in Seq(Replies(Len(asked)))
<1>1. Head(toClient) \in Replies(Len(asked)) /\ Tail(toClient) \in Seq(Replies(Len(asked)))
  BY DEF Typed, ServerTyped, Arrives
<1> QED
  BY <1>1 DEF Typed, ClientTyped, Arrives

\* The types of what a call leaves.
CallsTyped(n) ==
    /\ call' \in [fn : Calling, last : Results(n)]
    /\ call'.fn \in {"PQexecStart", "PQexecFinish"} => n > 0
    /\ returned' \in [cmd : 0..n, res : Results(n), null : BOOLEAN]

\* The values call and returned get.
LEMMA NoCallTyped ==
    ASSUME NEW n \in Nat
    PROVE  /\ NoCall \in [fn : Calling, last : Results(n)] /\ NoCall.fn = "none"
           /\ \A f \in Calling : /\ InCall(f) \in [fn : Calling, last : Results(n)]
                                    /\ InCall(f).fn = f /\ InCall(f).last = NoResult
           /\ NoReturn \in [cmd : 0..n, res : Results(n), null : BOOLEAN]
<1>1. NoResult \in Results(n)
  BY ResultsMade
<1>2. 0 \in 0..n
  OBVIOUS
<1> QED
  BY <1>1, <1>2 DEF NoCall, InCall, NoReturn, Calling, Nobody

\* PQexec returns.
LEMMA ExecReturnsTyped ==
    ASSUME Typed, NEW res \in Results(Len(asked)), NEW null \in BOOLEAN, ExecReturns(res, null)
    PROVE  CallsTyped(Len(asked)) /\ call' = NoCall
<1>1. Len(asked) \in 0..Len(asked) /\ Len(asked) \in Nat
  BY DEF Typed, ServerTyped
<1> QED
  BY <1>1, NoCallTyped DEF ExecReturns, CallsTyped, Current

\* The call goes on unchanged.
LEMMA CallKept ==
    ASSUME Typed, UNCHANGED <<call, historyVars>>
    PROVE  CallsTyped(Len(asked))
BY DEF CallsTyped, historyVars, Typed, ClientTyped

\* PQexecFinish takes a result.
LEMMA FinishTyped ==
    ASSUME Typed, NEW res \in Results(Len(asked)), FinishHandles(res), call.fn = "PQexecFinish"
    PROVE  CallsTyped(Len(asked)) /\ errorMessage' \in Seq(Int)
<1> DEFINE last == Merged(call.last, res)
<1>1. Len(asked) \in Nat /\ call.last \in Results(Len(asked))
  BY DEF Typed, ServerTyped, ClientTyped
<1>2. last \in Results(Len(asked))
  BY <1>1, MergedTyped
<1>3. errorMessage' \in Seq(Int)
  BY <1>2 DEF FinishHandles, Results
<1>4. ExecReturns(last, FALSE) \/ (call' = [call EXCEPT !.last = last] /\ UNCHANGED historyVars)
  BY DEF FinishHandles
<1>5. CASE ExecReturns(last, FALSE)
  BY <1>2, <1>3, <1>5, ExecReturnsTyped
<1>6. CASE call' = [call EXCEPT !.last = last] /\ UNCHANGED historyVars
  BY <1>2, <1>3, <1>6 DEF CallsTyped, historyVars, Typed, ClientTyped
<1> QED
  BY <1>4, <1>5, <1>6

\* pqPrepareAsyncResult: which result it is, and that it is one.
LEMMA PreparedTyped ==
    ASSUME Typed, asyncStatus \in {"READY", "COPY_IN", "COPY_OUT"}
    PROVE  /\ Prepared \in Results(Len(asked)) /\ PreparedMessage \in Seq(Int)
           /\ asyncStatus = "READY" => Prepared = result
           /\ asyncStatus # "READY" => Prepared.status = asyncStatus
<1>1. Len(asked) \in Nat /\ {} \in SUBSET (0..Len(asked))
  BY DEF Typed, ServerTyped
<1>2. result \in Results(Len(asked)) /\ (asyncStatus = "READY" => result # NoResult)
      /\ errorMessage \in Seq(Int)
  BY DEF Typed, ClientTyped
<1>3. CASE asyncStatus = "READY"
  <2>1. Prepared = result
    BY <1>2, <1>3 DEF Prepared
  <2>2. Prepared \in Results(Len(asked))
    BY <1>2, <2>1
  <2>3. Prepared.err \in Seq(Int)
    BY <2>2 DEF Results
  <2> QED
    BY <1>2, <1>3, <2>1, <2>2, <2>3 DEF PreparedMessage
<1>4. CASE asyncStatus # "READY"
  <2>1. Result(asyncStatus, {}) \in Results(Len(asked))
    BY <1>1, <1>4, ResultsMade DEF ResultStatuses
  <2>2. (Prepared = result /\ result.status = asyncStatus) \/ Prepared = Result(asyncStatus, {})
    BY <1>4 DEF Prepared
  <2>5. Result(asyncStatus, {}).status = asyncStatus
    BY DEF Result
  <2>3. Prepared \in Results(Len(asked)) /\ Prepared.status = asyncStatus
    BY <1>2, <2>1, <2>2, <2>5
  <2>4. Prepared.err \in Seq(Int)
    BY <2>3 DEF Results
  <2> QED
    BY <1>2, <1>4, <2>3, <2>4 DEF PreparedMessage
<1> QED
  BY <1>3, <1>4

\* PQgetResult, when its read fails.
LEMMA GetResultFailsTyped == ASSUME Typed, GetResultFails PROVE Typed'
<1> DEFINE res == pqSaveErrorResult(<<Lost>>)
           n == Len(asked)
<1>1. <<Lost>> \in Seq(Int) /\ <<Lost>> # <<>>
  BY DEF Lost
<1>0. n \in Nat
  BY DEF Typed, ServerTyped
<1>2. res \in Results(n) /\ NoResult \in Results(n) /\ n \in Nat
  BY <1>0, <1>1, SaveErrorTyped, ResultsMade
<1>3. res.err \in Seq(Int)
  BY <1>2 DEF Results
<1>4. /\ UNCHANGED <<serverVars, wireVars, asked, queryclass, inBuffer, notifies>>
      /\ asyncStatus' = "IDLE" /\ result' = NoResult /\ ReadFails
  BY DEF GetResultFails
<1>5. status' \in {"OK", "BAD"} /\ (status' = "BAD" => Dead)
  BY <1>4, ReadFailsTyped
<1> HIDE DEF res, n
<1>6. CallsTyped(n) /\ errorMessage' \in Seq(Int)
  <2>1. CASE call.fn = "PQexecFinish"
    BY <1>2, <2>1, FinishTyped DEF GetResultFails, res, n
  <2>2. CASE call.fn = "PQgetResult"
    <3>1. call' = NoCall /\ errorMessage' = res.err /\ UNCHANGED historyVars
      BY <2>2 DEF GetResultFails, res
    <3> QED
      BY <1>2, <1>3, <3>1, NoCallTyped DEF CallsTyped, historyVars, Typed, ClientTyped, n
  <2>3. CASE call.fn = "PQexecStart"
    <3>1. errorMessage' = res.err
      BY <2>3 DEF GetResultFails, res
    <3>2. ExecReturns(NoResult, TRUE) \/ UNCHANGED <<call, historyVars>>
      BY <2>3 DEF GetResultFails
    <3> QED
      BY <1>2, <1>3, <3>1, <3>2, ExecReturnsTyped, CallKept DEF n
  <2> QED
    BY <2>1, <2>2, <2>3 DEF GetResultFails, InGetResult
<1>7. ClientTyped'
  BY <1>2, <1>4, <1>5, <1>6 DEF Typed, ClientTyped, CallsTyped, Dead, serverVars, wireVars, n
<1> QED
  BY <1>4, <1>7, ClientStepTyped DEF wireVars, Typed, ServerTyped

\* PQgetResult, when it reads, returns a result or returns NULL.
LEMMA GetResultTyped ==
    ASSUME Typed, GetResultReads \/ GetResultReturns \/ GetResultNull PROVE Typed'
<1> DEFINE n == Len(asked)
<1>0. n \in Nat
  BY DEF Typed, ServerTyped
<1>1. n \in Nat /\ NoResult \in Results(n)
  BY <1>0, ResultsMade
<1>2. CASE GetResultReads
  <2>1. inBuffer' \in Seq(Replies(n)) /\ toClient' \in Seq(Replies(n))
    BY <1>2, ArrivesTyped DEF GetResultReads
  <2>2. ClientTyped'
    BY <1>2, <2>1 DEF GetResultReads, historyVars, Typed, ClientTyped, Dead, serverVars
  <2> QED
    BY <1>2, <2>1, <2>2, ClientStepTyped DEF GetResultReads, Typed, ServerTyped
<1>3. CASE GetResultReturns
  <2>1. asyncStatus \in {"READY", "COPY_IN", "COPY_OUT"}
    BY <1>3 DEF GetResultReturns, ResultReady, CopyStatuses
  <2>2. Prepared \in Results(n) /\ PreparedMessage \in Seq(Int)
    BY <2>1, PreparedTyped
  <2>3. CallsTyped(n) /\ errorMessage' \in Seq(Int)
    <3>1. CASE call.fn = "PQexecFinish"
      BY <1>3, <2>2, <3>1, FinishTyped DEF GetResultReturns
    <3>2. CASE call.fn = "PQgetResult"
      BY <1>1, <1>3, <2>2, <3>2, NoCallTyped
         DEF GetResultReturns, CallsTyped, historyVars, Typed, ClientTyped
    <3> QED
      BY <1>3, <3>1, <3>2 DEF GetResultReturns
  <2>4. /\ UNCHANGED <<serverVars, wireVars, asked, queryclass, inBuffer, notifies, status>>
        /\ result' = NoResult
        /\ asyncStatus' \in {"BUSY", "COPY_IN", "COPY_OUT"}
    BY <1>3, <2>1 DEF GetResultReturns
  <2>5. ClientTyped'
    BY <1>1, <2>3, <2>4 DEF Typed, ClientTyped, CallsTyped, Dead, serverVars, wireVars
  <2> QED
    BY <2>4, <2>5, ClientStepTyped DEF wireVars, Typed, ServerTyped
<1>4. CASE GetResultNull
  <2>1. ExecReturns(call.last, call.last = NoResult) \/ (call' = NoCall /\ UNCHANGED historyVars)
    BY <1>4 DEF GetResultNull
  <2>2. call.last \in Results(n) /\ (call.last = NoResult) \in BOOLEAN
    BY DEF Typed, ClientTyped
  <2>5. CallsTyped(n)
    <3>1. ASSUME call' = NoCall, UNCHANGED historyVars PROVE CallsTyped(n)
      BY <1>1, <3>1, NoCallTyped DEF CallsTyped, historyVars, Typed, ClientTyped
    <3> QED
      BY <2>1, <2>2, <3>1, ExecReturnsTyped
  <2>6. UNCHANGED <<serverVars, wireVars, asked, status, queryclass, copied, parserVars>>
    BY <1>4 DEF GetResultNull
  <2>7. ClientTyped'
    BY <2>5, <2>6 DEF Typed, ClientTyped, CallsTyped, Dead, serverVars, wireVars, parserVars
  <2> QED
    BY <2>6, <2>7, ClientStepTyped DEF wireVars, Typed, ServerTyped
<1> QED
  BY <1>2, <1>3, <1>4

\* What is written.
LEMMA RequestTyped ==
    ASSUME NEW n \in Nat, NEW k \in 1..n, NEW c \in Commands
    PROVE  Request(c, k) \in Seq(Requests(n)) /\ Request(c, k) # <<>>
<1>1. c.class \in Classes
  BY CommandsAssumption DEF IsCommand
<1>2. \A t \in Types : Message(t, k) \in Requests(n)
  BY DEF Message, Requests, Msg
<1>3. ASSUME NEW types \in Seq(Types), types # <<>>
      PROVE  Messages(types, k) \in Seq(Requests(n)) /\ Messages(types, k) # <<>>
  BY <1>2, <1>3 DEF Messages
<1>4. /\ <<"Q">> \in Seq(Types) /\ <<"P", "B", "D", "E", "S">> \in Seq(Types)
      /\ <<"P", "S">> \in Seq(Types) /\ <<"D", "S">> \in Seq(Types)
      /\ <<"Q">> # <<>> /\ <<"P", "B", "D", "E", "S">> # <<>>
      /\ <<"P", "S">> # <<>> /\ <<"D", "S">> # <<>>
  BY DEF Types
<1> QED
  BY <1>1, <1>3, <1>4 DEF Request, Classes

\* CopyData, CopyDone and CopyFail are requests of no command.
LEMMA CopyMessagesTyped ==
    ASSUME NEW n \in Nat, NEW type \in CopyTypes
    PROVE  CopyEnd(type) \in Seq(Requests(n)) /\ Messages(<<type>>, Nobody) \in Seq(Requests(n))
<1>1. \A t \in Unowned : Message(t, Nobody) \in Requests(n)
  BY DEF Message, Requests, Msg, Nobody, Unowned, CopyTypes, Types
<1>2. ASSUME NEW types \in Seq(Unowned)
      PROVE  Messages(types, Nobody) \in Seq(Requests(n))
  BY <1>1 DEF Messages
<1>3. <<type>> \in Seq(Unowned) /\ <<type, "S">> \in Seq(Unowned)
  BY DEF Unowned
<1> QED
  BY <1>2, <1>3 DEF CopyEnd

\* What is flushed is on the way, or lost.
LEMMA FlushTyped ==
    ASSUME NEW n \in Nat, toServer \in Seq(Requests(n)), NEW ms \in Seq(Requests(n)), Flush(ms)
    PROVE  toServer' \in Seq(Requests(n)) /\ status = "OK"
BY DEF Flush

\* Sending a command that was given as the last of those asked.
LEMMA SendTyped ==
    ASSUME Typed, NEW c \in Commands, asked' = asked \/ asked' = Append(asked, c), Len(asked') > 0,
           Sends(c) \/ SendFails(c) \/ (Refuses /\ asked' = asked), SendUnchanged, call' \in [fn : Calling, last : Results(Len(asked'))],
           returned' \in [cmd : 0..Len(asked'), res : Results(Len(asked')), null : BOOLEAN]
    PROVE  Typed'
<1> DEFINE n == Len(asked')
<1>1. /\ Len(asked) \in Nat /\ asked' \in Seq(Commands) /\ n \in Nat /\ n >= Len(asked)
      /\ n \in 1..n
  <2>1. asked \in Seq(Commands) /\ Len(asked) \in Nat
    BY DEF Typed, ServerTyped
  <2>2. asked' \in Seq(Commands) /\ (Len(asked') = Len(asked) \/ Len(asked') = Len(asked) + 1)
    BY <2>1
  <2> QED
    BY <2>1, <2>2
<1>2. /\ toServer \in Seq(Requests(n)) /\ toClient \in Seq(Replies(n))
      /\ inBuffer \in Seq(Replies(n)) /\ result \in Results(n)
  BY <1>1, TypesGrow DEF Typed, ServerTyped, ClientTyped
<1>3. c.class \in Classes /\ NoResult \in Results(n)
  BY <1>1, CommandsAssumption, ResultsMade DEF IsCommand
<1>4. UNCHANGED <<serverVars, link, notifies>>
  BY DEF SendUnchanged
<1> DEFINE P == /\ status' \in {"OK", "BAD"} /\ (status' = "BAD" => Dead)
                /\ asyncStatus' \in {"IDLE", "BUSY", "READY", "COPY_IN", "COPY_OUT"}
                /\ queryclass' \in Classes
                /\ result' \in Results(n) /\ (asyncStatus' = "READY" => result' # NoResult)
                /\ errorMessage' \in Seq(Int)
                /\ inBuffer' \in Seq(Replies(n))
                /\ toServer' \in Seq(Requests(n)) /\ toClient' \in Seq(Replies(n))
<1> HIDE DEF n
<1>5. ASSUME Sends(c) PROVE P
  <2>1. Request(c, n) \in Seq(Requests(n))
    BY <1>1, RequestTyped
  <2>2. toServer' \in Seq(Requests(n)) /\ status = "OK"
    BY <1>1, <1>2, <1>5, <2>1, FlushTyped DEF Sends, n
  <2> QED
    BY <1>2, <1>3, <1>5, <2>2 DEF Sends
<1>6. ASSUME SendFails(c) PROVE P
  <2>1. <<Lost>> \in Seq(Int) /\ inBuffer \o toClient \in Seq(Replies(n)) /\ <<>> \in Seq(Replies(n))
    BY <1>2 DEF Lost
  <2>2. status' \in {"OK", "BAD"} /\ (status' = "BAD" => Dead)
    BY <1>6 DEF SendFails, FlushFails, Typed, ClientTyped, Dead
  <2>3. toServer' = toServer /\ toClient' = <<>> /\ inBuffer' = inBuffer \o toClient
        /\ errorMessage' = <<Lost>> /\ asyncStatus' = "IDLE" /\ queryclass' = c.class
        /\ result' = NoResult
    BY <1>6 DEF SendFails, FlushFails
  <2> QED
    BY <1>2, <1>3, <2>1, <2>2, <2>3
<1>7. ASSUME Refuses, asked' = asked PROVE P
  <2>1. <<Refused>> \in Seq(Int)
    BY DEF Refused
  <2> QED
    BY <1>2, <1>7, <2>1 DEF Refuses, Typed, ClientTyped, n
<1>8. P
  BY <1>5, <1>6, <1>7
<1>9. ServerTyped'
  BY <1>1, <1>4, <1>8, ServerKept DEF Typed, n
<1>10. ClientTyped'
  BY <1>4, <1>8 DEF Typed, ClientTyped, Dead, serverVars, n
<1> QED
  BY <1>9, <1>10 DEF Typed

\* The two halves of PQexecStart: draining, and sending the command.
LEMMA ExecTyped ==
    ASSUME Typed, ExecStartDiscards \/ ExecSends PROVE Typed'
<1> DEFINE n == Len(asked)
<1>0. n \in Nat
  BY DEF Typed, ServerTyped
<1>1. NoResult \in Results(n) /\ TRUE \in BOOLEAN
  BY <1>0, ResultsMade
<1>2. CASE ExecStartDiscards
  <2>1. asyncStatus \in {"READY", "COPY_IN", "COPY_OUT"}
    BY <1>2 DEF ExecStartDiscards, ResultReady, CopyStatuses
  <2>2. PreparedMessage \in Seq(Int) /\ <<>> \in Seq(Int) /\ <<Lost>> \in Seq(Int)
    BY <2>1, PreparedTyped DEF Lost
  <2>3. errorMessage' \in Seq(Int)
    BY <1>2, <2>2 DEF ExecStartDiscards
  <2>4. CallsTyped(n)
    BY <1>1, <1>2, ExecReturnsTyped, CallKept DEF ExecStartDiscards
  <2>5. toServer' \in Seq(Requests(n))
    <3>1. CopyEnd("f") \in Seq(Requests(n)) /\ toServer \in Seq(Requests(n))
      BY <1>0, CopyMessagesTyped DEF CopyTypes, Typed, ServerTyped
    <3> QED
      BY <1>0, <1>2, <3>1, FlushTyped DEF ExecStartDiscards, FlushFails
  <2>6. /\ UNCHANGED <<serverVars, toClient, link, asked, status, queryclass, inBuffer, notifies>>
        /\ result' = NoResult /\ asyncStatus' = "BUSY"
    BY <1>2 DEF ExecStartDiscards
  <2>7. ClientTyped'
    BY <1>1, <2>3, <2>4, <2>6 DEF Typed, ClientTyped, CallsTyped, Dead, serverVars
  <2> QED
    BY <2>5, <2>6, <2>7, ClientStepTyped DEF Typed, ServerTyped
<1>3. CASE ExecSends
  <2>1. asked' = asked /\ n > 0 /\ SendUnchanged
    BY <1>3 DEF ExecSends, Typed, ClientTyped
  <2>2. asked[n] \in Commands
    BY <1>0, <2>1 DEF Typed, ServerTyped
  <2>3. Sends(asked[n]) \/ SendFails(asked[n]) \/ (Refuses /\ asked' = asked)
    BY <1>3, <2>1 DEF ExecSends, Current
  <2>4. CallsTyped(n)
    <3>1. ASSUME call' = InCall("PQexecFinish"), UNCHANGED historyVars PROVE CallsTyped(n)
      BY <1>0, <2>1, <3>1, NoCallTyped DEF CallsTyped, historyVars, Calling, Typed, ClientTyped
    <3> QED
      BY <1>1, <1>3, <3>1, ExecReturnsTyped DEF ExecSends
  <2> QED
    BY <2>1, <2>2, <2>3, <2>4, SendTyped DEF CallsTyped
<1> QED
  BY <1>2, <1>3

\* pqGetCopyData3.
LEMMA GetCopyDataTyped == ASSUME Typed, GetCopyDataStep PROVE Typed'
<1> DEFINE n == Len(asked)
<1>0. n \in Nat
  BY DEF Typed, ServerTyped
<1>1. UNCHANGED <<serverVars, toServer, link, asked, queryclass, result, historyVars>>
  BY DEF GetCopyDataStep
<1>2. call' = call \/ call' = NoCall
  BY DEF GetCopyDataStep
<1>3. CallsTyped(n)
  BY <1>0, <1>1, <1>2, NoCallTyped DEF CallsTyped, historyVars, Typed, ClientTyped
<1> DEFINE P == /\ status' \in {"OK", "BAD"} /\ (status' = "BAD" => Dead)
                /\ asyncStatus' = asyncStatus \/ asyncStatus' = "BUSY"
                /\ errorMessage' \in Seq(Int) /\ notifies' \in Seq(Nat)
                /\ inBuffer' \in Seq(Replies(n)) /\ toClient' \in Seq(Replies(n))
<1>4. P => Typed'
  <2>1. P => ClientTyped'
    BY <1>1, <1>3 DEF Typed, ClientTyped, CallsTyped, Dead, serverVars
  <2> QED
    BY <1>1, <2>1, ClientStepTyped DEF Typed, ServerTyped
<1>5. /\ status \in {"OK", "BAD"} /\ (status = "BAD" => Dead)
      /\ errorMessage \in Seq(Int) /\ notifies \in Seq(Nat)
      /\ inBuffer \in Seq(Replies(n)) /\ toClient \in Seq(Replies(n))
  BY DEF Typed, ClientTyped, ServerTyped
<1> HIDE DEF n
<1>6. ASSUME Arrives, UNCHANGED <<asyncStatus, notifies, call, status, errorMessage>> PROVE P
  BY <1>5, <1>6, ArrivesTyped DEF n
<1>7. ASSUME ReadFails, errorMessage' = <<Lost>>, UNCHANGED <<toClient, asyncStatus, inBuffer, notifies>>
      PROVE  P
  BY <1>5, <1>7, ReadFailsTyped DEF Lost
<1>8. ASSUME inBuffer # <<>>, UNCHANGED <<toClient, status, errorMessage>>,
             \/ /\ inBuffer' = Tail(inBuffer)
                /\ asyncStatus' = asyncStatus
                /\ notifies' = notifies \/ notifies' = Append(notifies, Head(inBuffer).cmd)
             \/ asyncStatus' = "BUSY" /\ UNCHANGED <<inBuffer, notifies>>
      PROVE  P
  <2>1. Tail(inBuffer) \in Seq(Replies(n)) /\ Head(inBuffer).cmd \in Nat
    BY <1>8, BufferTyped DEF n
  <2>2. Append(notifies, Head(inBuffer).cmd) \in Seq(Nat)
    BY <1>5, <2>1
  <2>3. notifies' \in Seq(Nat) /\ inBuffer' \in Seq(Replies(n))
    BY <1>5, <1>8, <2>1, <2>2
  <2> QED
    BY <1>5, <1>8, <2>3
<1>9. P
  BY <1>6, <1>7, <1>8 DEF GetCopyDataStep, Consume
<1> QED
  BY <1>4, <1>9

\* The application's calls start with the types in order.
LEMMA CallsMade ==
    ASSUME Typed, Calls, call' = call \/ \E f \in Calling \ {"PQexecStart", "PQexecFinish"} : call' = InCall(f)
    PROVE  CallsTyped(Len(asked))
<1>1. Len(asked) \in Nat
  BY DEF Typed, ServerTyped
<1>2. call' \in [fn : Calling, last : Results(Len(asked))]
      /\ call'.fn \notin {"PQexecStart", "PQexecFinish"}
  BY <1>1, NoCallTyped DEF Calls, Idle, Typed, ClientTyped
<1> QED
  BY <1>1, <1>2, NoCallTyped DEF Calls, CallsTyped

\* PQexec begins, and PQsendQuery.
LEMMA PQexecTyped ==
    ASSUME Typed, NEW c \in Commands, PQexec(c) \/ PQsendQuery(c) PROVE Typed'
<1> DEFINE n == Len(asked')
<1>1. asked \in Seq(Commands) /\ Len(asked) \in Nat
  BY DEF Typed, ServerTyped
<1>2. CASE PQexec(c)
  <2>1. /\ asked' \in Seq(Commands) /\ n \in Nat /\ n >= Len(asked) /\ n > 0
    BY <1>1, <1>2 DEF PQexec
  <2>2. UNCHANGED <<serverVars, wireVars, status, queryclass, copied, parserVars>>
        /\ call' = InCall("PQexecStart") /\ returned' = NoReturn
    BY <1>2 DEF PQexec, Calls
  <2>3. CallsTyped(n)
    BY <2>1, <2>2, NoCallTyped DEF CallsTyped, Calling
  <2>4. /\ toServer \in Seq(Requests(n)) /\ toClient \in Seq(Replies(n))
        /\ inBuffer \in Seq(Replies(n)) /\ result \in Results(n)
    BY <1>1, <2>1, TypesGrow DEF Typed, ServerTyped, ClientTyped
  <2> HIDE DEF n
  <2>5. ServerTyped'
    BY <2>1, <2>2, <2>4, ServerKept DEF Typed, wireVars, n
  <2>6. ClientTyped'
    BY <2>2, <2>3, <2>4 DEF Typed, ClientTyped, CallsTyped, Dead, serverVars, wireVars,
                            parserVars, n
  <2> QED
    BY <2>5, <2>6 DEF Typed
<1>3. CASE PQsendQuery(c)
  <2>1. returned' = NoReturn /\ call.fn = "none"
    BY <1>3 DEF PQsendQuery, Calls, Idle
  <2>2. /\ Sends(c) \/ SendFails(c) \/ (Refuses /\ asked' = asked)
        /\ asked' = asked \/ asked' = Append(asked, c)
        /\ SendUnchanged
        /\ call' = call \/ call' = InCall("parseInput")
    BY <1>3 DEF PQsendQuery
  <2>3. asked' \in Seq(Commands) /\ n \in Nat /\ n >= Len(asked)
    BY <1>1, <2>2
  <2>4. call \in [fn : Calling, last : Results(n)]
    BY <1>1, <2>3, TypesGrow DEF Typed, ClientTyped
  <2>5. /\ call' \in [fn : Calling, last : Results(n)]
        /\ returned' \in [cmd : 0..n, res : Results(n), null : BOOLEAN]
    BY <2>1, <2>2, <2>3, <2>4, NoCallTyped DEF Calling
  <2>6. CASE Len(asked') > 0
    BY <2>2, <2>5, <2>6, SendTyped
  <2>7. CASE ~(Len(asked') > 0)
    <3>1. asked' = asked /\ Refuses /\ call' = call
      BY <1>1, <1>3, <2>7 DEF PQsendQuery
    <3>2. UNCHANGED <<serverVars, link, notifies, toServer, toClient, status, asyncStatus,
                      queryclass, result, inBuffer>> /\ errorMessage' = <<Refused>>
      BY <2>2, <3>1 DEF Refuses, SendUnchanged
    <3>3. ClientTyped'
      BY <2>1, <2>5, <3>1, <3>2 DEF Typed, ClientTyped, Dead, serverVars, Refused
    <3> QED
      BY <3>1, <3>2, <3>3, ClientStepTyped DEF Typed, ServerTyped
  <2> QED
    BY <2>6, <2>7
<1> QED
  BY <1>2, <1>3

\* PQputCopyData and PQputCopyEnd.
LEMMA CopyCallsTyped ==
    ASSUME Typed, PQputCopyData \/ PQputCopyEnd PROVE Typed'
<1> DEFINE n == Len(asked)
<1>0. n \in Nat
  BY DEF Typed, ServerTyped
<1>1. toServer \in Seq(Requests(n))
  BY DEF Typed, ServerTyped
<1>2. CASE PQputCopyData
  <2>1. toServer' \in Seq(Requests(n))
    BY <1>0, <1>1, <1>2, CopyMessagesTyped, FlushTyped DEF PQputCopyData, CopyTypes
  <2>2. /\ UNCHANGED <<serverVars, toClient, link, asked, status, queryclass, parserVars>>
        /\ Calls /\ call' = InCall("parseInput")
    BY <1>2 DEF PQputCopyData
  <2>3. CallsTyped(n)
    BY <2>2, CallsMade DEF Calling
  <2>4. ClientTyped'
    BY <2>2, <2>3 DEF Typed, ClientTyped, CallsTyped, Dead, serverVars, parserVars
  <2> QED
    BY <2>1, <2>2, <2>4, ClientStepTyped DEF Typed, ServerTyped
<1>3. CASE PQputCopyEnd
  <2>1. toServer' \in Seq(Requests(n))
    BY <1>0, <1>1, <1>3, CopyMessagesTyped, FlushTyped DEF PQputCopyEnd, CopyTypes, FlushFails
  <2>2. /\ UNCHANGED <<serverVars, toClient, link, asked, status, queryclass, result, inBuffer,
                       notifies, call>>
        /\ Calls /\ asyncStatus' = "BUSY"
        /\ errorMessage' = <<>> \/ errorMessage' = <<Lost>>
    BY <1>3 DEF PQputCopyEnd
  <2>3. CallsTyped(n)
    BY <2>2, CallsMade
  <2>4. errorMessage' \in Seq(Int)
    <3>1. <<Lost>> \in Seq(Int) /\ <<>> \in Seq(Int)
      BY DEF Lost
    <3> QED
      BY <2>2, <3>1
  <2>5. ClientTyped'
    BY <2>2, <2>3, <2>4 DEF Typed, ClientTyped, CallsTyped, Dead, serverVars
  <2> QED
    BY <2>1, <2>2, <2>5, ClientStepTyped DEF Typed, ServerTyped
<1> QED
  BY <1>2, <1>3

\* The other calls of the application.
LEMMA OtherCallsTyped ==
    ASSUME Typed, PQgetResult \/ PQgetCopyData \/ PQconsumeInput \/ ParseInputReturns
    PROVE  Typed'
<1> DEFINE n == Len(asked)
<1>0. n \in Nat
  BY DEF Typed, ServerTyped
<1>1. CASE PQgetResult \/ PQgetCopyData
  <2>1. /\ UNCHANGED <<serverVars, wireVars, asked, status, queryclass, copied, parserVars>>
        /\ Calls /\ \E f \in Calling \ {"PQexecStart", "PQexecFinish"} : call' = InCall(f)
    BY <1>1 DEF PQgetResult, PQgetCopyData, Calling
  <2>2. CallsTyped(n)
    BY <2>1, CallsMade
  <2>3. ClientTyped'
    BY <2>1, <2>2 DEF Typed, ClientTyped, CallsTyped, Dead, serverVars, wireVars, parserVars
  <2> QED
    BY <2>1, <2>3, ClientStepTyped DEF Typed, ServerTyped, wireVars
<1>2. CASE PQconsumeInput
  <2>1. /\ UNCHANGED <<serverVars, toServer, link, asked, queryclass, asyncStatus, result, notifies>>
        /\ Calls /\ call' = InCall("parseInput")
    BY <1>2 DEF PQconsumeInput
  <2>2. CallsTyped(n)
    BY <2>1, CallsMade DEF Calling
  <2>3. \/ Arrives /\ UNCHANGED <<status, errorMessage>>
        \/ ReadFails /\ errorMessage' = <<Lost>> /\ UNCHANGED <<inBuffer, toClient>>
    BY <1>2 DEF PQconsumeInput
  <2>4. /\ inBuffer' \in Seq(Replies(n)) /\ toClient' \in Seq(Replies(n))
        /\ errorMessage' \in Seq(Int) /\ status' \in {"OK", "BAD"} /\ (status' = "BAD" => Dead)
    <3>1. <<Lost>> \in Seq(Int)
      BY DEF Lost
    <3>2. /\ inBuffer \in Seq(Replies(n)) /\ toClient \in Seq(Replies(n))
          /\ errorMessage \in Seq(Int) /\ status \in {"OK", "BAD"} /\ (status = "BAD" => Dead)
      BY DEF Typed, ServerTyped, ClientTyped
    <3>3. CASE Arrives /\ UNCHANGED <<status, errorMessage>>
      BY <3>2, <3>3, ArrivesTyped
    <3>4. CASE ReadFails /\ errorMessage' = <<Lost>> /\ UNCHANGED <<inBuffer, toClient>>
      BY <3>1, <3>2, <3>4, ReadFailsTyped
    <3> QED
      BY <2>3, <3>3, <3>4
  <2>5. ClientTyped'
    BY <2>1, <2>2, <2>4 DEF Typed, ClientTyped, CallsTyped, Dead, serverVars
  <2> QED
    BY <2>1, <2>4, <2>5, ClientStepTyped DEF Typed, ServerTyped
<1>3. CASE ParseInputReturns
  <2>1. /\ UNCHANGED <<serverVars, wireVars, asked, status, queryclass, historyVars, parserVars>>
        /\ call' = NoCall
    BY <1>3 DEF ParseInputReturns
  <2>2. CallsTyped(n)
    BY <1>0, <2>1, NoCallTyped DEF CallsTyped, historyVars, Typed, ClientTyped
  <2>3. ClientTyped'
    BY <2>1, <2>2 DEF Typed, ClientTyped, CallsTyped, Dead, serverVars, wireVars, parserVars
  <2> QED
    BY <2>1, <2>3, ClientStepTyped DEF Typed, ServerTyped, wireVars
<1> QED
  BY <1>1, <1>2, <1>3

\* The types hold of a new connection.
LEMMA TypedInit == ASSUME Init PROVE Typed
<1>1. asked = <<>> /\ Len(asked) = 0
  BY DEF Init, BackendInit
<1>2. ServerTyped
  <2>1. /\ asked = <<>> /\ toServer = <<>> /\ toClient = <<>> /\ todo = <<>>
        /\ committed = {} /\ xact = 0 /\ notified = 0 /\ link = "up" /\ srv = "main"
        /\ ignore_till_sync = FALSE /\ send_ready_for_query = FALSE
    BY DEF Init, BackendInit, Nobody
  <2>2. \A S : <<>> \in Seq(S)
    OBVIOUS
  <2>3. 0 \in 0..0 /\ 0 \in Nat /\ {} \in SUBSET (1..0)
    OBVIOUS
  <2> QED
    BY <1>1, <2>1, <2>2, <2>3 DEF ServerTyped
<1>3. NoResult \in Results(0)
  BY ResultsMade
<1>4. ClientTyped
  BY <1>1, <1>3, NoCallTyped DEF Init, ClientInit, ClientTyped, Classes
<1> QED
  BY <1>2, <1>4 DEF Typed

\* The server's own steps touch nothing of the client.
LEMMA ServerSideTyped ==
    ASSUME Typed, UNCHANGED clientVars,
           ServerStep \/ CopyFails \/ ProcessIncomingNotify \/ ServerExits \/ LinkCut
    PROVE  Typed'
<1>1. ServerTyped'
  BY ServerTypedStep DEF Typed
<1>2. UNCHANGED asked
  BY DEF ServerStep, ReadyForQuery, ReadQuery, ReadExecute, ReadParseBindDescribe, ReadSync,
         ReadCopyLeftover, RunStatement, ReceiveCopyBegin, CopyGetData, Reads, CopyFails,
         ProcessIncomingNotify, ServerExits, LinkCut
<1>3. Dead => Dead'
  BY DEF Dead, ServerStep, ReadyForQuery, ReadQuery, ReadExecute, ReadParseBindDescribe, ReadSync,
         ReadCopyLeftover, RunStatement, ReceiveCopyBegin, CopyGetData, Reads, CopyFails,
         ProcessIncomingNotify, ServerExits, LinkCut
<1>4. ClientTyped'
  BY <1>2, <1>3 DEF Typed, ClientTyped, clientVars, parserVars, historyVars
<1> QED
  BY <1>1, <1>4 DEF Typed

\* Every step of either end, and every failure, keeps the types.
LEMMA TypedStep == ASSUME Typed, [Next]_vars PROVE Typed'
<1>1. CASE Application
  BY <1>1, PQexecTyped, CopyCallsTyped, OtherCallsTyped DEF Application
<1>2. CASE LibpqStep
  BY <1>2, ParseTyped, GetResultFailsTyped, GetResultTyped, ExecTyped, GetCopyDataTyped,
     OtherCallsTyped DEF LibpqStep
<1>3. CASE \/ Server
           \/ CopyFails /\ UNCHANGED clientVars
           \/ ProcessIncomingNotify /\ UNCHANGED clientVars
           \/ ServerExits /\ UNCHANGED clientVars
           \/ LinkCut /\ UNCHANGED clientVars
  BY <1>3, ServerSideTyped DEF Server
<1>4. CASE UNCHANGED vars
  <2>1. UNCHANGED <<asked, toServer, toClient, link>>
    BY <1>4 DEF vars, wireVars
  <2>2. ClientTyped'
    BY <1>4 DEF vars, wireVars, serverVars, clientVars, parserVars, historyVars, Typed,
                ClientTyped, Dead
  <2> QED
    BY <1>4, <2>1, <2>2, ClientStepTyped DEF vars, Typed, ServerTyped
<1> QED
  BY <1>1, <1>2, <1>3, <1>4 DEF Next

\* They say more than the type invariant that is checked.
LEMMA TypedOK == ASSUME Typed PROVE TypeOK
<1> DEFINE n == Len(asked)
<1>1. /\ toServer \in Seq(Requests(n)) /\ toClient \in Seq(Replies(n)) /\ inBuffer \in Seq(Replies(n))
  BY DEF Typed, ServerTyped, ClientTyped
<1>2. Requests(n) \subseteq Msg /\ Replies(n) \subseteq Msg
  BY DEF Requests, Replies
<1>3. ASSUME NEW s \in Seq(Msg) PROVE MessagesOK(s)
  <2>1. \A i \in DOMAIN s : s[i] \in Msg
    OBVIOUS
  <2> QED
    BY <2>1 DEF MessagesOK, Msg
<1>4. MessagesOK(toServer) /\ MessagesOK(toClient) /\ MessagesOK(inBuffer)
  BY <1>1, <1>2, <1>3
<1>5. ASSUME NEW res \in Results(n) PROVE ResultOK(res)
  BY <1>5 DEF Results, ResultOK, ResultStatuses, CopyStatuses
<1>6. result \in Results(n) /\ call.last \in Results(n) /\ returned.res \in Results(n)
  BY DEF Typed, ClientTyped
<1>7. ResultOK(result) /\ ResultOK(call.last) /\ ResultOK(returned.res)
  BY <1>5, <1>6
<1> QED
  BY <1>4, <1>7 DEF Typed, ServerTyped, ClientTyped, TypeOK, CopyStatuses

\* At every step of PQexec and its siblings against PostgresMain, whatever
\* fails: messages and results are well formed, a result has an error message
\* exactly when it is an error and is about commands that were given, and the
\* server knows whose transaction is open.
THEOREM TypeCorrect == Spec => []TypeOK
<1>1. Spec => []Typed
  BY TypedInit, TypedStep, PTL DEF Spec
<1> QED
  BY <1>1, TypedOK, PTL

-----------------------------------------------------------------------------
(* Rounds. *)

\* All messages of s are of types T.
OfTypes(s, T) == \A i \in DOMAIN s : s[i].type \in T

\* s is messages of types T, and one that ends them.
EndsWith(s, type, T) ==
    /\ s # <<>>
    /\ s[Len(s)].type = type
    /\ \A i \in DOMAIN s : i # Len(s) => s[i].type \in T

\* s is messages of types T, a ReadyForQuery and then only notifications.
ReadyLast(s, T) ==
    \E n \in DOMAIN s :
        /\ s[n].type = "Z"
        /\ \A i \in DOMAIN s : i < n => s[i].type \in T
        /\ \A i \in DOMAIN s : i > n => s[i].type = "A"

\* The command sent last: PQexec has not sent its command while it drains.
Sent == IF call.fn = "PQexecStart" THEN Current - 1 ELSE Current

\* What the server may say within a round, what ends a request, and what comes
\* before that end.
Said == IF queryclass = "SIMPLE" THEN Types \ {"Z"} ELSE Types \ {"Z", "G"}
End == IF queryclass = "SIMPLE" THEN "Q" ELSE "S"
Asks == CopyTypes \cup (IF queryclass = "SIMPLE" THEN {} ELSE {"P", "B", "D"})
                  \cup (IF queryclass = "EXTENDED" THEN {"E"} ELSE {})

\* The server waits in its main loop for the next command.
Waits == srv = "main" /\ ~send_ready_for_query /\ ~ignore_till_sync /\ xact = Nobody

\* Part of the request is still on the way.
Requested ==
    /\ EndsWith(toServer, End, Asks)
    /\ OfTypes(Wire, Said)
    /\ ~send_ready_for_query
    /\ \/ srv = "main" /\ (ignore_till_sync => xact = Nobody)
       \/ /\ srv = "query" /\ ~ignore_till_sync /\ queryclass = "EXTENDED"
          /\ \A i \in DOMAIN todo : todo[i] # "copyin"
    /\ asyncStatus # "COPY_IN"
    /\ queryclass = "SIMPLE" => Waits /\ OfTypes(Wire, {"A"})

\* The whole request is read and its statements run: a simple query.
Runs ==
    /\ OfTypes(toServer, CopyTypes)
    /\ OfTypes(Wire, Said)
    /\ queryclass = "SIMPLE"
    /\ srv \in {"query", "copyin"} /\ ~send_ready_for_query /\ ~ignore_till_sync

\* The round is over but for ReadyForQuery.
Ends ==
    /\ OfTypes(toServer, CopyTypes)
    /\ OfTypes(Wire, Said)
    /\ srv = "main" /\ send_ready_for_query /\ ~ignore_till_sync /\ xact = Nobody

\* ReadyForQuery is said.
Ended ==
    /\ OfTypes(toServer, CopyTypes)
    /\ ReadyLast(Wire, Said)
    /\ Waits

\* No round: nothing is asked and nothing is said.
Rests ==
    /\ OfTypes(toServer, CopyTypes)
    /\ OfTypes(Wire, {"A"})
    /\ Waits

\* The round is that of the command sent last.
Asked ==
    /\ Sent \in 1..Len(asked)
    /\ queryclass = asked[Sent].class
    /\ xact \in {Nobody, Sent}
    /\ \A i \in DOMAIN toServer : toServer[i].type \notin CopyTypes => toServer[i].cmd = Sent
    /\ asyncStatus = "COPY_IN" => queryclass = "SIMPLE"

\* From its request to its ReadyForQuery, a query is a round of the two ends:
\* as long as the connection lives, the server is in the round libpq is in.
Round ==
    ~Dead => IF asyncStatus = "IDLE" THEN Rests
             ELSE Asked /\ (Requested \/ Runs \/ Ends \/ Ended)

-----------------------------------------------------------------------------
(* Sequences of messages. *)

\* Taking the head, appending, allowing more.
LEMMA OfTypesProperties ==
    ASSUME NEW S, NEW s \in Seq(S), NEW T
    PROVE  /\ OfTypes(s, T) /\ s # <<>> => OfTypes(Tail(s), T) /\ Head(s).type \in T
           /\ \A t \in Seq(S) : OfTypes(s, T) /\ OfTypes(t, T) => OfTypes(s \o t, T)
           /\ \A U : OfTypes(s, T) /\ T \subseteq U => OfTypes(s, U)
<1>1. ASSUME s # <<>>, OfTypes(s, T) PROVE OfTypes(Tail(s), T) /\ Head(s).type \in T
  <2>1. \A i \in DOMAIN Tail(s) : i + 1 \in DOMAIN s /\ Tail(s)[i] = s[i + 1]
    BY <1>1
  <2>2. 1 \in DOMAIN s /\ Head(s) = s[1]
    BY <1>1
  <2> QED
    BY <1>1, <2>1, <2>2 DEF OfTypes
<1>2. ASSUME NEW t \in Seq(S), OfTypes(s, T), OfTypes(t, T) PROVE OfTypes(s \o t, T)
  <2>1. ASSUME NEW i \in DOMAIN (s \o t) PROVE (s \o t)[i].type \in T
    <3>1. CASE i <= Len(s)
      <4>1. i \in DOMAIN s /\ (s \o t)[i] = s[i]
        BY <2>1, <3>1
      <4> QED
        BY <1>2, <4>1 DEF OfTypes
    <3>2. CASE ~(i <= Len(s))
      <4>1. i - Len(s) \in DOMAIN t /\ (s \o t)[i] = t[i - Len(s)]
        BY <2>1, <3>2
      <4> QED
        BY <1>2, <4>1 DEF OfTypes
    <3> QED
      BY <3>1, <3>2
  <2> QED
    BY <2>1 DEF OfTypes
<1> QED
  BY <1>1, <1>2 DEF OfTypes

\* Messages made of types have them.
LEMMA MessagesOfTypes ==
    ASSUME NEW T, NEW types \in Seq(T), NEW k
    PROVE  OfTypes(Messages(types, k), T)
BY DEF OfTypes, Messages, Message

\* The head is taken off a request: its last message stays last.
LEMMA EndsWithTail ==
    ASSUME NEW S, NEW s \in Seq(S), NEW e, NEW T, EndsWith(s, e, T)
    PROVE  /\ Head(s).type # e => EndsWith(Tail(s), e, T)
           /\ Head(s).type \notin T => Head(s).type = e /\ Tail(s) = <<>>
           /\ OfTypes(s, T \cup {e})
<1>1. s # <<>> /\ Len(s) \in Nat /\ Len(s) > 0 /\ Head(s) = s[1]
  BY DEF EndsWith
<1>2. ASSUME Head(s).type # e PROVE EndsWith(Tail(s), e, T)
  <2>1. Len(s) > 1
    BY <1>1, <1>2 DEF EndsWith
  <2>2. Len(Tail(s)) = Len(s) - 1 /\ \A i \in DOMAIN Tail(s) : i + 1 \in DOMAIN s /\ Tail(s)[i] = s[i + 1]
    BY <1>1
  <2>3. Tail(s) # <<>> /\ Tail(s)[Len(Tail(s))] = s[Len(s)]
    <3>1. Len(s) - 1 \in DOMAIN Tail(s) /\ (Len(s) - 1) + 1 = Len(s)
      BY <1>1, <2>1
    <3>2. Tail(s)[Len(s) - 1] = s[Len(s)]
      BY <2>2, <3>1
    <3> QED
      BY <2>2, <3>1, <3>2
  <2>4. \A i \in DOMAIN Tail(s) : i # Len(Tail(s)) => i + 1 # Len(s)
    BY <1>1, <2>2
  <2> QED
    BY <2>2, <2>3, <2>4 DEF EndsWith
<1>3. ASSUME Head(s).type \notin T PROVE Head(s).type = e /\ Tail(s) = <<>>
  <2>1. 1 \in DOMAIN s
    BY <1>1
  <2>2. 1 = Len(s)
    BY <1>1, <1>3, <2>1 DEF EndsWith
  <2>3. Head(s).type = e
    BY <1>1, <2>2 DEF EndsWith
  <2>4. Tail(s) = <<>>
    <3>1. Tail(s) \in Seq(S) /\ Len(Tail(s)) = 0
      BY <1>1, <2>2
    <3> QED
      BY <3>1, EmptySeq
  <2> QED
    BY <2>3, <2>4
<1>4. OfTypes(s, T \cup {e})
  BY DEF OfTypes, EndsWith
<1> QED
  BY <1>2, <1>3, <1>4

\* A request goes out behind leftovers that may come before it.
LEMMA EndsWithConcat ==
    ASSUME NEW S, NEW s \in Seq(S), NEW t \in Seq(S), NEW e, NEW T, OfTypes(s, T), EndsWith(t, e, T)
    PROVE  EndsWith(s \o t, e, T)
<1>1. Len(s) \in Nat /\ Len(t) \in Nat /\ Len(t) > 0 /\ Len(s \o t) = Len(s) + Len(t)
  BY DEF EndsWith
<1>2. s \o t # <<>> /\ (s \o t)[Len(s \o t)] = t[Len(t)]
  BY <1>1
<1>3. ASSUME NEW i \in DOMAIN (s \o t), i # Len(s \o t) PROVE (s \o t)[i].type \in T
  <2>1. CASE i <= Len(s)
    <3>1. i \in DOMAIN s /\ (s \o t)[i] = s[i]
      BY <1>3, <2>1
    <3> QED
      BY <3>1 DEF OfTypes
  <2>2. CASE ~(i <= Len(s))
    <3>1. i - Len(s) \in DOMAIN t /\ (s \o t)[i] = t[i - Len(s)] /\ i - Len(s) # Len(t)
      BY <1>1, <1>3, <2>2
    <3> QED
      BY <3>1 DEF EndsWith
  <2> QED
    BY <2>1, <2>2
<1> QED
  BY <1>2, <1>3 DEF EndsWith

\* The head is taken off an answer that is complete, a notification follows
\* it, and a ReadyForQuery makes it so.
LEMMA ReadyLastProperties ==
    ASSUME NEW S, NEW s \in Seq(S), NEW T, "Z" \notin T, "A" \in T
    PROVE  /\ ReadyLast(s, T) => s # <<>>
           /\ ReadyLast(s, T) /\ Head(s).type # "Z" => ReadyLast(Tail(s), T) /\ Head(s).type \in T
           /\ ReadyLast(s, T) /\ Head(s).type = "Z" => OfTypes(Tail(s), {"A"})
           /\ \A m \in S : ReadyLast(s, T) /\ m.type = "A" => ReadyLast(s \o <<m>>, T)
           /\ \A m \in S : OfTypes(s, T) /\ m.type = "Z" => ReadyLast(s \o <<m>>, T)
<1>1. ASSUME ReadyLast(s, T)
      PROVE  /\ s # <<>>
             /\ Head(s).type # "Z" => ReadyLast(Tail(s), T) /\ Head(s).type \in T
             /\ Head(s).type = "Z" => OfTypes(Tail(s), {"A"})
             /\ \A m \in S : m.type = "A" => ReadyLast(s \o <<m>>, T)
  <2>1. PICK n \in DOMAIN s : /\ s[n].type = "Z"
                              /\ \A i \in DOMAIN s : i < n => s[i].type \in T
                              /\ \A i \in DOMAIN s : i > n => s[i].type = "A"
    BY <1>1 DEF ReadyLast
  <2>2. n \in Int /\ n >= 1 /\ n <= Len(s) /\ Len(s) \in Nat /\ DOMAIN s = 1..Len(s)
    BY <2>1
  <2>3. s # <<>> /\ Head(s) = s[1] /\ 1 \in DOMAIN s
        /\ \A i \in DOMAIN Tail(s) : i + 1 \in DOMAIN s /\ Tail(s)[i] = s[i + 1]
    BY <2>2
  <2>4. ASSUME Head(s).type # "Z" PROVE ReadyLast(Tail(s), T) /\ Head(s).type \in T
    <3>1. n > 1
      BY <2>1, <2>2, <2>3, <2>4
    <3>2. n - 1 \in DOMAIN Tail(s) /\ Tail(s)[n - 1] = s[n]
      BY <2>2, <2>3, <3>1
    <3>3. \A i \in DOMAIN Tail(s) : i \in Int /\ (i < n - 1 => i + 1 < n) /\ (i > n - 1 => i + 1 > n)
      BY <2>2, <2>3
    <3>4. \A i \in DOMAIN Tail(s) : /\ i < n - 1 => Tail(s)[i].type \in T
                                    /\ i > n - 1 => Tail(s)[i].type = "A"
      BY <2>1, <2>3, <3>3
    <3> QED
      BY <2>1, <2>3, <3>1, <3>2, <3>4 DEF ReadyLast
  <2>5. ASSUME Head(s).type = "Z" PROVE OfTypes(Tail(s), {"A"})
    <3>1. n = 1
      BY <2>1, <2>2, <2>3, <2>5
    <3>2. \A i \in DOMAIN Tail(s) : i + 1 > n
      BY <2>2, <2>3, <3>1
    <3> QED
      BY <2>1, <2>3, <3>2 DEF OfTypes
  <2>6. ASSUME NEW m \in S, m.type = "A" PROVE ReadyLast(s \o <<m>>, T)
    <3>1. /\ DOMAIN (s \o <<m>>) = 1..(Len(s) + 1) /\ (s \o <<m>>)[Len(s) + 1] = m
          /\ \A i \in 1..Len(s) : (s \o <<m>>)[i] = s[i]
      OBVIOUS
    <3>2. n \in DOMAIN (s \o <<m>>) /\ (s \o <<m>>)[n].type = "Z"
      BY <2>1, <2>2, <3>1
    <3>3. ASSUME NEW i \in 1..(Len(s) + 1)
          PROVE  /\ i < n => (s \o <<m>>)[i].type \in T
                 /\ i > n => (s \o <<m>>)[i].type = "A"
      <4>1. CASE i = Len(s) + 1
        BY <2>2, <2>6, <3>1, <4>1
      <4>2. CASE i # Len(s) + 1
        BY <2>1, <2>2, <3>1, <3>3, <4>2
      <4> QED
        BY <4>1, <4>2
    <3> QED
      BY <3>1, <3>2, <3>3 DEF ReadyLast
  <2> QED
    BY <2>3, <2>4, <2>5, <2>6
<1>2. ASSUME NEW m \in S, OfTypes(s, T), m.type = "Z" PROVE ReadyLast(s \o <<m>>, T)
  <2>1. /\ DOMAIN (s \o <<m>>) = 1..(Len(s) + 1) /\ (s \o <<m>>)[Len(s) + 1] = m
        /\ \A i \in 1..Len(s) : (s \o <<m>>)[i] = s[i] /\ i \in DOMAIN s
        /\ Len(s) \in Nat
    OBVIOUS
  <2>2. Len(s) + 1 \in DOMAIN (s \o <<m>>) /\ (s \o <<m>>)[Len(s) + 1].type = "Z"
    BY <1>2, <2>1
  <2>3. \A i \in 1..(Len(s) + 1) : (i < Len(s) + 1 => i \in 1..Len(s)) /\ ~(i > Len(s) + 1)
    BY <2>1
  <2> QED
    BY <1>2, <2>1, <2>2, <2>3 DEF ReadyLast, OfTypes
<1> QED
  BY <1>1, <1>2

-----------------------------------------------------------------------------
(* A round: what the server still has to read and do for the command that  *)
(* was sent last, against what the client waits for.                       *)

\* What is on the way, in either direction, has its types.
LEMMA WireTyped ==
    ASSUME Typed
    PROVE  /\ Wire \in Seq(Replies(Len(asked))) /\ inBuffer \in Seq(Replies(Len(asked)))
           /\ toClient \in Seq(Replies(Len(asked))) /\ toServer \in Seq(Requests(Len(asked)))
           /\ \A m \in Replies(Len(asked)) : m.type \in Types
           /\ OfTypes(toServer, Types)
<1>1. /\ inBuffer \in Seq(Replies(Len(asked))) /\ toClient \in Seq(Replies(Len(asked)))
      /\ toServer \in Seq(Requests(Len(asked)))
  BY DEF Typed, ServerTyped, ClientTyped
<1>2. Wire \in Seq(Replies(Len(asked)))
  BY <1>1 DEF Wire
<1>3. \A i \in DOMAIN toServer : toServer[i] \in Requests(Len(asked))
  BY <1>1
<1> QED
  BY <1>1, <1>2, <1>3 DEF OfTypes, Replies, Requests, Msg

\* A read moves a message along the stream; parsing takes the first away.
LEMMA ArrivesWire == ASSUME Typed, Arrives PROVE Wire' = Wire
<1> DEFINE R == Replies(Len(asked))
<1>1. inBuffer \in Seq(R) /\ toClient \in Seq(R) /\ toClient # <<>>
  BY WireTyped DEF Arrives
<1> HIDE DEF R
<1>2. ASSUME NEW s \in Seq(R), NEW t \in Seq(R), t # <<>> PROVE Append(s, Head(t)) \o Tail(t) = s \o t
  <2> DEFINE u == Append(s, Head(t)) \o Tail(t)
             v == s \o t
  <2>1. Head(t) \in R /\ Tail(t) \in Seq(R) /\ Len(Tail(t)) = Len(t) - 1 /\ Len(t) > 0
    BY <1>2
  <2>2. Append(s, Head(t)) \in Seq(R) /\ Len(Append(s, Head(t))) = Len(s) + 1
    BY <2>1
  <2>3. u \in Seq(R) /\ v \in Seq(R) /\ Len(u) = Len(v)
    BY <1>2, <2>1, <2>2
  <2>4. ASSUME NEW i \in 1..Len(v) PROVE u[i] = v[i]
    <3>1. CASE i <= Len(s)
      <4>1. u[i] = Append(s, Head(t))[i] /\ v[i] = s[i]
        BY <2>1, <2>2, <2>4, <3>1
      <4> QED
        BY <2>1, <2>4, <3>1, <4>1
    <3>2. CASE i = Len(s) + 1
      <4>1. u[i] = Append(s, Head(t))[i] /\ v[i] = t[1]
        BY <1>2, <2>1, <2>2, <2>4, <3>2
      <4> QED
        BY <1>2, <2>1, <2>4, <3>2, <4>1
    <3>3. CASE i > Len(s) + 1
      <4>1. u[i] = Tail(t)[i - (Len(s) + 1)] /\ v[i] = t[i - Len(s)]
        BY <1>2, <2>1, <2>2, <2>4, <3>3
      <4>2. i - (Len(s) + 1) \in 1..Len(Tail(t)) /\ (i - (Len(s) + 1)) + 1 = i - Len(s)
        BY <1>2, <2>1, <2>4, <3>3
      <4> QED
        BY <1>2, <4>1, <4>2
    <3>4. i \in Nat /\ Len(s) \in Nat
      BY <1>2, <2>3, <2>4
    <3>5. i <= Len(s) \/ i = Len(s) + 1 \/ i > Len(s) + 1
      BY <3>4
    <3> QED
      BY <3>1, <3>2, <3>3, <3>5
  <2> HIDE DEF u, v
  <2>5. u = v
    BY <2>3, <2>4, SeqEqual
  <2> QED
    BY <2>5 DEF u, v
<1>3. inBuffer' = Append(inBuffer, Head(toClient)) /\ toClient' = Tail(toClient)
  BY DEF Arrives
<1> QED
  BY <1>1, <1>2, <1>3 DEF Wire

\* Parsing a message takes it off the stream.
LEMMA ConsumeWire ==
    ASSUME Typed, inBuffer # <<>>, Consume, UNCHANGED toClient
    PROVE  Wire # <<>> /\ Head(Wire) = Head(inBuffer) /\ Wire' = Tail(Wire)
<1> DEFINE R == Replies(Len(asked))
<1>1. inBuffer \in Seq(R) /\ toClient \in Seq(R)
  BY WireTyped
<1> HIDE DEF R
<1>2. ASSUME NEW s \in Seq(R), NEW t \in Seq(R), s # <<>>
      PROVE  s \o t # <<>> /\ Head(s \o t) = Head(s) /\ Tail(s) \o t = Tail(s \o t)
  <2> DEFINE u == Tail(s) \o t
             v == Tail(s \o t)
  <2>1. Tail(s) \in Seq(R) /\ Len(Tail(s)) = Len(s) - 1 /\ Len(s) > 0 /\ s \o t \in Seq(R)
        /\ Len(s \o t) = Len(s) + Len(t)
    BY <1>2
  <2>2. s \o t # <<>> /\ Head(s \o t) = Head(s)
    BY <1>2, <2>1
  <2>3. u \in Seq(R) /\ v \in Seq(R) /\ Len(u) = Len(v) /\ Len(v) = Len(s) + Len(t) - 1
    BY <1>2, <2>1, <2>2
  <2>4. ASSUME NEW i \in 1..Len(v) PROVE u[i] = v[i]
    <3>1. v[i] = (s \o t)[i + 1]
      BY <2>1, <2>2, <2>3, <2>4
    <3>2. CASE i <= Len(s) - 1
      BY <1>2, <2>1, <2>4, <3>1, <3>2
    <3>3. CASE i > Len(s) - 1
      <4>1. u[i] = t[i - (Len(s) - 1)] /\ v[i] = t[(i + 1) - Len(s)]
        BY <1>2, <2>1, <2>3, <2>4, <3>1, <3>3
      <4> QED
        BY <1>2, <2>3, <2>4, <4>1
    <3> QED
      BY <1>2, <2>3, <2>4, <3>2, <3>3
  <2> HIDE DEF u, v
  <2>5. u = v
    BY <2>3, <2>4, SeqEqual
  <2> QED
    BY <2>2, <2>5 DEF u, v
<1>3. inBuffer' = Tail(inBuffer) /\ toClient' = toClient
  BY DEF Consume
<1> QED
  BY <1>1, <1>2, <1>3 DEF Wire

\* The answer of a server that lives comes to the end of the stream.
LEMMA AnswerWire ==
    ASSUME Typed, link = "up", UNCHANGED inBuffer, NEW types \in Seq(Types), NEW k \in Nat,
           Answer(types, k)
    PROVE  /\ Wire' = Wire \o Messages(types, k)
           /\ Messages(types, k) \in Seq(Msg)
<1>1. Messages(types, k) \in Seq(Msg)
  <2>1. \A t \in Types : Message(t, k) \in Msg
    BY DEF Message, Msg
  <2> QED
    BY <2>1 DEF Messages
<1>2. toClient' = toClient \o Messages(types, k)
  BY DEF Answer, Send
<1>3. Replies(Len(asked)) \subseteq Msg
  BY DEF Replies
<1>4. inBuffer \in Seq(Msg) /\ toClient \in Seq(Msg)
  BY <1>3, WireTyped
<1> QED
  BY <1>1, <1>2, <1>4, ConcatAssociative DEF Wire

\* Which types are in Said, Asks and End.
LEMMA SaidTypes ==
    /\ "Z" \notin Said /\ "A" \in Said /\ {"A"} \subseteq Said /\ Said \subseteq Types
    /\ queryclass # "SIMPLE" => "G" \notin Said
    /\ "Z" \notin Asks /\ CopyTypes \subseteq Asks /\ End \notin Asks /\ End \notin CopyTypes
    /\ CopyTypes \cap {"Q", "P", "B", "D", "E", "S"} = {}
    /\ End \in {"Q", "S"} /\ (End = "Q" <=> queryclass = "SIMPLE")
    /\ Asks \ CopyTypes \subseteq {"P", "B", "D", "E"}
    /\ queryclass = "SIMPLE" => Asks = CopyTypes
    /\ "E" \in Asks => queryclass = "EXTENDED"
BY DEF Said, Types, Asks, CopyTypes, End

\* The client goes on within a round: it takes messages of the stream but the
\* ReadyForQuery, and writes nothing but the data of a COPY.
LEMMA RoundGoesOn ==
    ASSUME Typed, Round, ~Dead, UNCHANGED <<serverVars, link, queryclass>>,
           Sent' = Sent, \A i \in 1..Len(asked) : i \in 1..Len(asked') /\ asked'[i] = asked[i],
           (asyncStatus' = "IDLE") = (asyncStatus = "IDLE"),
           \/ toServer' = toServer
           \/ /\ asyncStatus = "COPY_IN"
              /\ \E ms \in Seq(Requests(Len(asked))) :
                    OfTypes(ms, CopyTypes) /\ toServer' = toServer \o ms,
           Wire' = Wire \/ (Wire # <<>> /\ Head(Wire).type # "Z" /\ Wire' = Tail(Wire)),
           asyncStatus' = "COPY_IN" =>
               asyncStatus = "COPY_IN" \/ (Wire # <<>> /\ Head(Wire).type = "G")
    PROVE  Round'
<1>1. /\ Said' = Said /\ End' = End /\ Asks' = Asks /\ (Waits' <=> Waits)
      /\ ~Dead' /\ UNCHANGED <<srv, todo, xact, send_ready_for_query, ignore_till_sync>>
  BY DEF Said, End, Asks, Waits, Dead, serverVars
<1>2. ASSUME NEW T, OfTypes(Wire, T) PROVE OfTypes(Wire', T)
  BY <1>2, WireTyped, OfTypesProperties
<1>3. ASSUME ReadyLast(Wire, Said) PROVE ReadyLast(Wire', Said)
  <2>1. CASE Wire' = Wire
    BY <1>3, <2>1
  <2>2. CASE Wire # <<>> /\ Head(Wire).type # "Z" /\ Wire' = Tail(Wire)
    <3>1. Wire \in Seq(Replies(Len(asked))) /\ "Z" \notin Said /\ "A" \in Said
      BY WireTyped, SaidTypes
    <3>2. ReadyLast(Tail(Wire), Said)
      BY <1>3, <2>2, <3>1, ReadyLastProperties
    <3> QED
      BY <2>2, <3>2
  <2> QED
    BY <2>1, <2>2
<1>4. ASSUME OfTypes(toServer, CopyTypes) PROVE OfTypes(toServer', CopyTypes)
  <2>1. toServer \in Seq(Requests(Len(asked)))
    BY WireTyped
  <2>2. ASSUME NEW ms \in Seq(Requests(Len(asked))), OfTypes(ms, CopyTypes)
        PROVE  OfTypes(toServer \o ms, CopyTypes)
    BY <1>4, <2>1, <2>2, OfTypesProperties
  <2> QED
    BY <1>4, <2>2
<1>5. CASE asyncStatus = "IDLE"
  BY <1>1, <1>2, <1>4, <1>5 DEF Round, Rests
<1>6. CASE asyncStatus # "IDLE"
  <2>1. Asked /\ (Requested \/ Runs \/ Ends \/ Ended)
    BY <1>6 DEF Round
  <2>2. Wire # <<>> /\ Head(Wire).type = "G" => queryclass = "SIMPLE" /\ ~Requested
    <3>1. SUFFICES ASSUME Wire # <<>>, Head(Wire).type = "G" PROVE queryclass = "SIMPLE" /\ ~Requested
      OBVIOUS
    <3>2. \A T : OfTypes(Wire, T) => "G" \in T
      BY <3>1, WireTyped, OfTypesProperties
    <3>3. ReadyLast(Wire, Said) => "G" \in Said
      BY <3>1, WireTyped, ReadyLastProperties, SaidTypes
    <3>4. queryclass = "SIMPLE"
      BY <2>1, <3>2, <3>3, SaidTypes DEF Requested, Runs, Ends, Ended
    <3> QED
      BY <3>2, <3>4 DEF Requested
  <2>3. /\ Sent' \in 1..Len(asked') /\ queryclass' = asked'[Sent'].class
        /\ xact' \in {Nobody, Sent'}
        /\ asyncStatus' = "COPY_IN" => queryclass' = "SIMPLE"
    BY <1>1, <2>1, <2>2 DEF Asked
  <2>4. \A i \in DOMAIN toServer' : toServer'[i].type \notin CopyTypes => toServer'[i].cmd = Sent'
    <3>1. CASE toServer' = toServer
      BY <2>1, <3>1 DEF Asked
    <3>2. ASSUME NEW ms \in Seq(Requests(Len(asked))), OfTypes(ms, CopyTypes),
                 toServer' = toServer \o ms
          PROVE  \A i \in DOMAIN toServer' : toServer'[i].type \notin CopyTypes
                     => toServer'[i].cmd = Sent'
      <4>1. SUFFICES ASSUME NEW i \in DOMAIN toServer', toServer'[i].type \notin CopyTypes
                     PROVE  toServer'[i].cmd = Sent'
        OBVIOUS
      <4>2. toServer \in Seq(Requests(Len(asked)))
        BY WireTyped
      <4>3. \/ i \in DOMAIN toServer /\ toServer'[i] = toServer[i]
            \/ i - Len(toServer) \in DOMAIN ms /\ toServer'[i] = ms[i - Len(toServer)]
        BY <3>2, <4>1, <4>2
      <4> QED
        BY <2>1, <3>2, <4>1, <4>3 DEF Asked, OfTypes
    <3> QED
      BY <3>1, <3>2
  <2>5. Requested => Requested'
    BY <1>1, <1>2, <2>2 DEF Requested
  <2>6. Runs => Runs'
    BY <1>1, <1>2, <1>4 DEF Runs
  <2>7. Ends => Ends'
    BY <1>1, <1>2, <1>4 DEF Ends
  <2>8. Ended => Ended'
    BY <1>1, <1>3, <1>4 DEF Ended
  <2> QED
    BY <1>6, <2>1, <2>3, <2>4, <2>5, <2>6, <2>7, <2>8 DEF Round, Asked
<1> QED
  BY <1>5, <1>6

\* The client parses the ReadyForQuery: the round is over.
LEMMA RoundIsOver ==
    ASSUME Typed, Round, ~Dead, UNCHANGED <<serverVars, toServer, link>>,
           asyncStatus' = "IDLE", asyncStatus # "IDLE",
           Wire # <<>>, Head(Wire).type = "Z", Wire' = Tail(Wire)
    PROVE  Round'
<1>1. Asked /\ (Requested \/ Runs \/ Ends \/ Ended)
  BY DEF Round
<1>2. \A T : OfTypes(Wire, T) => "Z" \in T
  BY WireTyped, OfTypesProperties
<1>3. Ended
  BY <1>1, <1>2, SaidTypes DEF Requested, Runs, Ends
<1>4. OfTypes(Wire', {"A"})
  BY <1>3, WireTyped, ReadyLastProperties, SaidTypes DEF Ended
<1> QED
  BY <1>3, <1>4 DEF Round, Ended, Rests, Waits, serverVars

\* A request ends with the message its class ends with.
LEMMA RequestEnds ==
    ASSUME NEW n \in Nat, NEW k \in 1..n, NEW c \in Commands, queryclass' = c.class
    PROVE  /\ EndsWith(Request(c, k), End', Asks')
           /\ \A i \in DOMAIN Request(c, k) : Request(c, k)[i].cmd = k
<1>1. c.class \in Classes
  BY CommandsAssumption DEF IsCommand
<1>2. CASE c.class = "SIMPLE"
  BY <1>2 DEF Request, Messages, Message, End, Asks, EndsWith
<1>3. CASE c.class = "EXTENDED"
  BY <1>3 DEF Request, Messages, Message, End, Asks, EndsWith
<1>4. CASE c.class = "PREPARE"
  BY <1>4 DEF Request, Messages, Message, End, Asks, EndsWith
<1>5. CASE c.class = "DESCRIBE"
  BY <1>5 DEF Request, Messages, Message, End, Asks, EndsWith
<1> QED
  BY <1>1, <1>2, <1>3, <1>4, <1>5 DEF Classes

\* A command is sent: a round starts.
LEMMA RoundStarts ==
    ASSUME Typed, Round, ~Dead, NEW c \in Commands, asyncStatus = "IDLE", Sends(c),
           UNCHANGED <<serverVars, link>>,
           Sent' \in 1..Len(asked'), Sent' = Len(asked'), asked'[Sent'] = c
    PROVE  Round'
<1> DEFINE req == Request(c, Len(asked'))
           n == Len(asked')
<1>1. Rests
  BY DEF Round
<1>2. /\ queryclass' = c.class /\ asyncStatus' = "BUSY" /\ toServer' = toServer \o req
      /\ UNCHANGED <<toClient, inBuffer>>
  BY DEF Sends, Flush
<1>3. n \in Nat /\ n \in 1..n
  OBVIOUS
<1> HIDE DEF n
<1>4. EndsWith(req, End', Asks') /\ \A i \in DOMAIN req : req[i].cmd = n
  BY <1>2, <1>3, RequestEnds DEF n
<1>5. req \in Seq(Requests(n))
  BY <1>3, RequestTyped DEF n
<1>6. toServer \in Seq(Msg) /\ req \in Seq(Msg)
  <2>1. \A k : Requests(k) \subseteq Msg
    BY DEF Requests
  <2> QED
    BY <1>5, <2>1, WireTyped
<1> HIDE DEF req
<1>7. CopyTypes \subseteq Asks'
  BY DEF Asks
<1>8. OfTypes(toServer, Asks')
  BY <1>1, <1>6, <1>7, OfTypesProperties DEF Rests
<1>9. EndsWith(toServer', End', Asks')
  BY <1>2, <1>4, <1>6, <1>8, EndsWithConcat
<1>10. Wire' = Wire /\ Waits' /\ OfTypes(Wire, {"A"})
  BY <1>1, <1>2 DEF Wire, Rests, Waits, serverVars
<1>11. OfTypes(Wire', Said')
  <2>1. {"A"} \subseteq Said'
    BY DEF Said, Types
  <2> QED
    BY <1>10, <2>1, WireTyped, OfTypesProperties
<1>12. Requested'
  BY <1>2, <1>9, <1>10, <1>11 DEF Requested, Waits
<1>13. Asked'
  <2>1. \A i \in DOMAIN toServer' : toServer'[i].type \notin CopyTypes => toServer'[i].cmd = n
    <3>1. SUFFICES ASSUME NEW i \in DOMAIN toServer', toServer'[i].type \notin CopyTypes
                   PROVE  toServer'[i].cmd = n
      OBVIOUS
    <3>2. \/ i \in DOMAIN toServer /\ toServer'[i] = toServer[i]
          \/ i - Len(toServer) \in DOMAIN req /\ toServer'[i] = req[i - Len(toServer)]
      BY <1>2, <1>6, <3>1
    <3> QED
      BY <1>1, <1>4, <3>1, <3>2 DEF Rests, OfTypes
  <2>2. xact' \in {Nobody, Sent'}
    BY <1>10 DEF Waits
  <2> QED
    BY <1>2, <2>1, <2>2 DEF Asked, n
<1> QED
  BY <1>2, <1>12, <1>13 DEF Round

\* What the server does while the client waits.
LEMMA ServerSilent ==
    ASSUME Typed, Round, ~Dead, UNCHANGED <<clientVars, asked>>
    PROVE  /\ Said' = Said /\ End' = End /\ Asks' = Asks /\ Sent' = Sent
           /\ UNCHANGED <<queryclass, asyncStatus, inBuffer>>
BY DEF Said, End, Asks, Sent, Current, clientVars, parserVars

\* The server has read a message.
LEMMA ReadsRound ==
    ASSUME Typed, Round, ~Dead, toServer # <<>>, toServer' = Tail(toServer)
    PROVE  /\ OfTypes(toServer, CopyTypes) => OfTypes(toServer', CopyTypes) /\ Head(toServer).type \in CopyTypes
           /\ Asked => \A i \in DOMAIN toServer' :
                          toServer'[i].type \notin CopyTypes => toServer'[i].cmd = Sent
           /\ Asked /\ Head(toServer).type \notin CopyTypes => Head(toServer).cmd = Sent
           /\ EndsWith(toServer, End, Asks) =>
                  /\ Head(toServer).type = End => OfTypes(toServer', CopyTypes)
                  /\ Head(toServer).type # End => EndsWith(toServer', End, Asks)
                  /\ Head(toServer).type \in Asks \cup {End}
<1>1. toServer \in Seq(Requests(Len(asked)))
  BY WireTyped
<1>2. OfTypes(toServer, CopyTypes) => OfTypes(toServer', CopyTypes) /\ Head(toServer).type \in CopyTypes
  BY <1>1, OfTypesProperties
<1>3. /\ \A i \in DOMAIN toServer' : i + 1 \in DOMAIN toServer /\ toServer'[i] = toServer[i + 1]
      /\ 1 \in DOMAIN toServer /\ Head(toServer) = toServer[1]
  BY <1>1
<1>4. ASSUME EndsWith(toServer, End, Asks)
      PROVE  /\ Head(toServer).type = End => OfTypes(toServer', CopyTypes)
             /\ Head(toServer).type # End => EndsWith(toServer', End, Asks)
             /\ Head(toServer).type \in Asks \cup {End}
  <2>1. Head(toServer).type = End => Tail(toServer) = <<>>
    <3>1. End \notin Asks
      BY SaidTypes
    <3> QED
      BY <1>1, <1>4, <3>1, EndsWithTail
  <2>2. OfTypes(<<>>, CopyTypes)
    BY DEF OfTypes
  <2> QED
    BY <1>1, <1>4, <2>1, <2>2, EndsWithTail
<1> QED
  BY <1>2, <1>3, <1>4 DEF Asked

\* What it says stays within what the client may be told in this round.
LEMMA AnswerSaid ==
    ASSUME Typed, Round, ~Dead, UNCHANGED <<clientVars, asked>>, OfTypes(Wire, Said),
           NEW types \in Seq(Said), NEW k \in Nat, Answer(types, k)
    PROVE  OfTypes(Wire', Said')
<1>1. link = "up" /\ UNCHANGED inBuffer /\ Said' = Said
  BY ServerSilent DEF Dead, Typed, ServerTyped
<1>2. types \in Seq(Types)
  BY SaidTypes
<1>3. Wire' = Wire \o Messages(types, k) /\ Messages(types, k) \in Seq(Msg)
  BY <1>1, <1>2, AnswerWire
<1>4. OfTypes(Messages(types, k), Said)
  BY MessagesOfTypes
<1>5. Wire \in Seq(Msg)
  BY WireTyped DEF Replies
<1> QED
  BY <1>1, <1>3, <1>4, <1>5, OfTypesProperties

\* The server's part of a round ends: it will be ready.
LEMMA RoundEnds ==
    ASSUME Typed, Round, ~Dead, UNCHANGED <<clientVars, asked>>, Asked, asyncStatus # "IDLE",
           OfTypes(toServer', CopyTypes), OfTypes(Wire', Said),
           srv' = "main", send_ready_for_query' = TRUE, ignore_till_sync' = FALSE, xact' = Nobody
    PROVE  Round'
<1>1. /\ Said' = Said /\ Sent' = Sent /\ UNCHANGED <<queryclass, asyncStatus, asked>>
  BY ServerSilent
<1>2. Ends'
  BY <1>1 DEF Ends
<1>3. Asked'
  BY <1>1 DEF Asked, OfTypes
<1> QED
  BY <1>1, <1>2, <1>3 DEF Round

\* It goes on reading the request.
LEMMA RoundReads ==
    ASSUME Typed, Round, ~Dead, UNCHANGED <<clientVars, asked>>, Asked, asyncStatus # "IDLE",
           queryclass # "SIMPLE",
           EndsWith(toServer', End, Asks), OfTypes(Wire', Said),
           \A i \in DOMAIN toServer' : toServer'[i].type \notin CopyTypes => toServer'[i].cmd = Sent,
           send_ready_for_query' = FALSE, xact' \in {Nobody, Sent}, ignore_till_sync' \in BOOLEAN,
           \/ srv' = "main" /\ (ignore_till_sync' => xact' = Nobody)
           \/ /\ srv' = "query" /\ ~ignore_till_sync' /\ queryclass = "EXTENDED"
              /\ \A i \in DOMAIN todo' : todo'[i] # "copyin"
    PROVE  Round'
<1>1. /\ Said' = Said /\ Sent' = Sent /\ End' = End /\ Asks' = Asks
      /\ UNCHANGED <<queryclass, asyncStatus, asked>>
  BY ServerSilent
<1>2. Requested'
  BY <1>1 DEF Requested, Asked
<1>3. Asked'
  BY <1>1 DEF Asked
<1> QED
  BY <1>1, <1>2, <1>3 DEF Round

\* It runs the statements of a simple query.
LEMMA RoundRuns ==
    ASSUME Typed, Round, ~Dead, UNCHANGED <<clientVars, asked>>, Asked, asyncStatus # "IDLE",
           queryclass = "SIMPLE", OfTypes(toServer', CopyTypes), OfTypes(Wire', Said),
           srv' \in {"query", "copyin"}, ~send_ready_for_query', ~ignore_till_sync',
           xact' \in {Nobody, Sent}
    PROVE  Round'
<1>1. /\ Said' = Said /\ Sent' = Sent /\ UNCHANGED <<queryclass, asyncStatus, asked>>
  BY ServerSilent
<1>2. Runs'
  BY <1>1 DEF Runs
<1>3. Asked'
  BY <1>1 DEF Asked, OfTypes
<1> QED
  BY <1>1, <1>2, <1>3 DEF Round

\* An error, while the server runs or reads.
LEMMA FailsRound ==
    ASSUME Typed, Round, ~Dead, UNCHANGED <<clientVars, asked>>, Asked, asyncStatus # "IDLE",
           OfTypes(Wire, Said), NEW types \in Seq(Said), NEW k \in Nat,
           Fails(types, k, queryclass # "SIMPLE"),
           queryclass = "SIMPLE" => OfTypes(toServer', CopyTypes),
           queryclass # "SIMPLE" =>
               /\ EndsWith(toServer', End, Asks)
               /\ \A i \in DOMAIN toServer' :
                      toServer'[i].type \notin CopyTypes => toServer'[i].cmd = Sent
    PROVE  Round'
<1>1. OfTypes(Wire', Said)
  <2>1. Append(types, "E") \in Seq(Said)
    BY DEF Said, Types
  <2> QED
    BY <2>1, AnswerSaid, ServerSilent DEF Fails
<1>2. srv' = "main" /\ xact' = Nobody
      /\ ignore_till_sync' = (queryclass # "SIMPLE")
      /\ send_ready_for_query' = (queryclass = "SIMPLE")
  BY DEF Fails
<1>3. CASE queryclass = "SIMPLE"
  BY <1>1, <1>2, <1>3, RoundEnds
<1>4. CASE queryclass # "SIMPLE"
  BY <1>1, <1>2, <1>4, RoundReads
<1> QED
  BY <1>3, <1>4

\* The phases in which a statement runs, and how its messages are asked for.
LEMMA RunningRound ==
    ASSUME Typed, Round, ~Dead, srv \in {"query", "copyin"}
    PROVE  /\ asyncStatus # "IDLE" /\ Asked /\ OfTypes(Wire, Said) /\ xact = Sent
           /\ doing_extended_query_message = (queryclass # "SIMPLE")
           /\ ~send_ready_for_query /\ ~ignore_till_sync
           /\ queryclass = "SIMPLE" => OfTypes(toServer, CopyTypes)
           /\ queryclass # "SIMPLE" =>
                 /\ EndsWith(toServer, End, Asks) /\ srv = "query"
                 /\ \A i \in DOMAIN todo : todo[i] # "copyin"
<1>1. asyncStatus # "IDLE"
  BY DEF Round, Rests, Waits
<1>2. Asked /\ (Requested \/ Runs)
  BY <1>1 DEF Round, Ends, Ended, Waits
<1>3. xact = Sent
  BY <1>2 DEF Asked, Typed, ServerTyped
<1>4. doing_extended_query_message = (queryclass # "SIMPLE")
  BY <1>2, <1>3 DEF Asked, doing_extended_query_message
<1> QED
  BY <1>1, <1>2, <1>3, <1>4 DEF Requested, Runs, Waits

\* A statement that completes goes on in the round, or ends it.
LEMMA CompletesRound ==
    ASSUME Typed, Round, ~Dead, UNCHANGED <<clientVars, asked>>, srv \in {"query", "copyin"},
           NEW types \in Seq(Said), Completes(types),
           queryclass = "SIMPLE" => OfTypes(toServer', CopyTypes),
           queryclass # "SIMPLE" => UNCHANGED toServer
    PROVE  Round'
<1>1. /\ asyncStatus # "IDLE" /\ Asked /\ OfTypes(Wire, Said) /\ xact = Sent
      /\ doing_extended_query_message = (queryclass # "SIMPLE")
      /\ ~send_ready_for_query /\ ~ignore_till_sync
      /\ queryclass # "SIMPLE" => EndsWith(toServer, End, Asks)
  BY RunningRound
<1>2. xact \in Nat
  BY DEF Typed, ServerTyped
<1>3. OfTypes(Wire', Said)
  BY <1>1, <1>2, AnswerSaid, ServerSilent DEF Completes
<1>4. ~ignore_till_sync'
  BY <1>1 DEF Completes
<1>5. CASE queryclass # "SIMPLE"
  <2>1. srv' = "main" /\ UNCHANGED <<xact, send_ready_for_query>>
    BY <1>1, <1>5 DEF Completes
  <2>2. \A i \in DOMAIN toServer' : toServer'[i].type \notin CopyTypes => toServer'[i].cmd = Sent
    BY <1>1, <1>5 DEF Asked
  <2>3. send_ready_for_query' = FALSE /\ ignore_till_sync' \in BOOLEAN
    BY <1>1, <2>1 DEF Completes, Typed, ServerTyped
  <2>4. EndsWith(toServer', End, Asks)
    BY <1>1, <1>5
  <2> QED
    BY <1>1, <1>3, <1>4, <1>5, <2>1, <2>2, <2>3, <2>4, RoundReads
<1>6. CASE queryclass = "SIMPLE"
  <2>1. \/ srv' = "main" /\ xact' = Nobody /\ send_ready_for_query' = TRUE
        \/ srv' = "query" /\ UNCHANGED <<xact, send_ready_for_query>>
    BY <1>1, <1>6 DEF Completes, finish_xact_command
  <2>2. ignore_till_sync' = FALSE
    BY <1>1 DEF Completes, Typed, ServerTyped
  <2>3. CASE srv' = "main" /\ xact' = Nobody /\ send_ready_for_query' = TRUE
    BY <1>1, <1>3, <1>6, <2>2, <2>3, RoundEnds
  <2>4. CASE srv' = "query" /\ UNCHANGED <<xact, send_ready_for_query>>
    <3>1. ~send_ready_for_query' /\ xact' \in {Nobody, Sent}
      BY <1>1, <2>4
    <3> QED
      BY <1>1, <1>3, <1>4, <1>6, <2>4, <3>1, RoundRuns
  <2> QED
    BY <2>1, <2>3, <2>4
<1> QED
  BY <1>5, <1>6

\* Where the server is when it reads a message in its main loop.
LEMMA ReadingRound ==
    ASSUME Typed, Round, ~Dead, NEW types, Reads(types), UNCHANGED <<clientVars>>
    PROVE  /\ toServer # <<>> /\ toServer' = Tail(toServer) /\ Head(toServer).type \in types
           /\ srv = "main" /\ ~send_ready_for_query
           /\ UNCHANGED <<link, asked, notified>>
           /\ types \cap CopyTypes = {} => asyncStatus # "IDLE" /\ Asked /\ Requested
           /\ asyncStatus = "IDLE" => Rests
           /\ asyncStatus # "IDLE" => Asked /\ (Requested \/ Ended)
<1>1. /\ toServer # <<>> /\ toServer' = Tail(toServer) /\ Head(toServer).type \in types
      /\ srv = "main" /\ ~send_ready_for_query
      /\ UNCHANGED <<link, asked, notified>>
  BY DEF Reads
<1>2. asyncStatus = "IDLE" => Rests
  BY DEF Round
<1>3. asyncStatus # "IDLE" => Asked /\ (Requested \/ Ended)
  BY <1>1 DEF Round, Runs, Ends
<1>4. types \cap CopyTypes = {} => ~OfTypes(toServer, CopyTypes)
  BY <1>1, ReadsRound
<1> QED
  BY <1>1, <1>2, <1>3, <1>4 DEF Rests, Ended

\* A message is skipped.
LEMMA SkipsRound ==
    ASSUME Typed, Round, ~Dead, UNCHANGED clientVars, NEW types, Reads(types), Skips,
           Head(toServer).type # End
    PROVE  Round'
<1>1. /\ toServer # <<>> /\ toServer' = Tail(toServer)
      /\ UNCHANGED <<link, asked, notified>>
      /\ asyncStatus = "IDLE" => Rests
      /\ asyncStatus # "IDLE" => Asked /\ (Requested \/ Ended)
  BY ReadingRound
<1>2. UNCHANGED <<toClient, srv, todo, xact, send_ready_for_query, ignore_till_sync>>
  BY DEF Skips
<1>3. /\ Said' = Said /\ Sent' = Sent /\ End' = End /\ Asks' = Asks
      /\ UNCHANGED <<queryclass, asyncStatus, inBuffer>>
  BY <1>1, ServerSilent
<1>4. Wire' = Wire /\ (Waits' <=> Waits)
  BY <1>2, <1>3 DEF Wire, Waits
<1>5. CASE asyncStatus = "IDLE"
  <2>1. OfTypes(toServer', CopyTypes)
    BY <1>1, <1>5, ReadsRound DEF Rests
  <2> QED
    BY <1>1, <1>3, <1>4, <1>5, <2>1 DEF Round, Rests, OfTypes
<1>6. CASE asyncStatus # "IDLE"
  <2>1. Asked'
    BY <1>1, <1>2, <1>3, <1>6, ReadsRound DEF Asked
  <2>2. CASE Requested
    <3>1. EndsWith(toServer', End, Asks)
      BY <1>1, <2>2, ReadsRound DEF Requested
    <3>2. Requested'
      BY <1>2, <1>3, <1>4, <2>2, <3>1 DEF Requested, EndsWith, OfTypes
    <3> QED
      BY <1>3, <1>6, <2>1, <3>2 DEF Round
  <2>3. CASE Ended
    <3>1. OfTypes(toServer', CopyTypes)
      BY <1>1, <2>3, ReadsRound DEF Ended
    <3>2. Ended'
      BY <1>3, <1>4, <2>3, <3>1 DEF Ended, ReadyLast, OfTypes
    <3> QED
      BY <1>3, <1>6, <2>1, <3>2 DEF Round
  <2> QED
    BY <1>1, <1>6, <2>2, <2>3
<1> QED
  BY <1>5, <1>6

\* exec_simple_query begins.
LEMMA ReadQueryRound ==
    ASSUME Typed, Round, ~Dead, UNCHANGED clientVars, ReadQuery PROVE Round'
<1> DEFINE m == Head(toServer)
<1>1. /\ toServer # <<>> /\ toServer' = Tail(toServer) /\ m.type = "Q"
      /\ UNCHANGED <<asked, link>>
      /\ asyncStatus # "IDLE" /\ Asked /\ Requested
  <2>1. {"Q"} \cap CopyTypes = {}
    BY SaidTypes
  <2> QED
    BY <2>1, ReadingRound DEF ReadQuery
<1>2. queryclass = "SIMPLE" /\ OfTypes(toServer', CopyTypes)
  BY <1>1, ReadsRound, SaidTypes DEF Requested
<1>3. Starts(m.cmd) /\ m.cmd = Sent
  BY <1>1, <1>2, ReadsRound, SaidTypes DEF ReadQuery, Requested, Waits
<1>4. Wire' = Wire
  BY <1>1, <1>3, ServerSilent DEF Starts, Wire
<1>5. OfTypes(Wire', Said)
  BY <1>1, <1>4 DEF Requested
<1>6. srv' = "query" /\ ~send_ready_for_query' /\ ~ignore_till_sync' /\ xact' = Sent
  BY <1>1, <1>2, <1>3 DEF Starts, Requested, Waits
<1> QED
  BY <1>1, <1>2, <1>5, <1>6, RoundRuns

\* exec_execute_message begins.  This is where a COPY FROM STDIN would break
\* the round: the Sync after it would be taken for leftover of the COPY.
LEMMA ReadExecuteRound ==
    ASSUME ~CopyInExtended, Typed, Round, ~Dead, UNCHANGED clientVars, ReadExecute PROVE Round'
<1> DEFINE m == Head(toServer)
<1>1. /\ toServer # <<>> /\ toServer' = Tail(toServer) /\ m.type = "E" /\ Reads({"E"})
      /\ UNCHANGED <<asked, link>> /\ ~send_ready_for_query
      /\ asyncStatus # "IDLE" /\ Asked /\ Requested
  <2>1. {"E"} \cap CopyTypes = {}
    BY SaidTypes
  <2> QED
    BY <2>1, ReadingRound DEF ReadExecute
<1>2. m.type \notin CopyTypes /\ m.type # End
  BY <1>1, SaidTypes
<1>3. m.cmd = Sent
  BY <1>1, <1>2, ReadsRound
<1>4. m.type \in Asks
  BY <1>1, <1>2, ReadsRound DEF Requested
<1>5. queryclass = "EXTENDED" /\ EndsWith(toServer', End, Asks)
  BY <1>1, <1>2, <1>4, ReadsRound, SaidTypes DEF Requested
<1>6. CASE ignore_till_sync
  BY <1>1, <1>2, <1>6, SkipsRound DEF ReadExecute
<1>7. CASE ~ignore_till_sync
  <2>1. Starts(Sent)
    BY <1>3, <1>7 DEF ReadExecute
  <2>2. \A i \in DOMAIN todo' : todo'[i] # "copyin"
    <3>1. Sent \in 1..Len(asked) /\ asked[Sent].class = "EXTENDED"
      BY <1>1, <1>5 DEF Asked
    <3>2. IsCommand(asked[Sent])
      BY <3>1, CommandsKnown DEF Typed
    <3> QED
      BY <2>1, <3>1, <3>2 DEF Starts, IsCommand
  <2>3. Wire' = Wire
    BY <1>1, <2>1, ServerSilent DEF Starts, Wire
  <2>4. OfTypes(Wire', Said)
    BY <1>1, <2>3 DEF Requested
  <2>5. /\ srv' = "query" /\ send_ready_for_query' = FALSE /\ ~ignore_till_sync'
        /\ ignore_till_sync' \in BOOLEAN /\ xact' \in {Nobody, Sent}
    BY <1>1, <1>7, <2>1 DEF Starts, Typed, ServerTyped
  <2>6. \A i \in DOMAIN toServer' : toServer'[i].type \notin CopyTypes => toServer'[i].cmd = Sent
    BY <1>1, ReadsRound
  <2>7. queryclass # "SIMPLE"
    BY <1>5
  <2> QED
    BY <1>1, <1>5, <2>2, <2>4, <2>5, <2>6, <2>7, RoundReads
<1> QED
  BY <1>6, <1>7

\* The answers to Parse, Bind and Describe.
LEMMA ReplySaid == ASSUME NEW c, NEW type \in {"P", "B", "D"} PROVE Reply(type, c) \in Seq(Said)
<1>1. {"1", "2", "t", "T", "n"} \subseteq Said
  BY DEF Said, Types
<1>2. CASE type = "P"
  BY <1>1, <1>2 DEF Reply
<1>3. CASE type = "B"
  BY <1>1, <1>3 DEF Reply
<1>4. CASE type = "D"
  <2>1. \A s, t : s \in Seq(Said) /\ t \in Seq(Said) => s \o t \in Seq(Said)
    OBVIOUS
  <2>2. <<"t">> \in Seq(Said) /\ <<>> \in Seq(Said) /\ <<"T">> \in Seq(Said)
        /\ <<"n">> \in Seq(Said)
    BY <1>1
  <2>3. Reply(type, c) = (IF c.class = "DESCRIBE" THEN <<"t">> ELSE <<>>)
                            \o (IF c.stmts = <<"rows">> THEN <<"T">> ELSE <<"n">>)
    BY <1>4 DEF Reply
  <2> QED
    BY <2>1, <2>2, <2>3
<1> QED
  BY <1>2, <1>3, <1>4

\* Parse, Bind and Describe.
LEMMA ReadParseRound ==
    ASSUME Typed, Round, ~Dead, UNCHANGED clientVars, ReadParseBindDescribe PROVE Round'
<1> DEFINE m == Head(toServer)
<1>1. /\ toServer # <<>> /\ toServer' = Tail(toServer) /\ m.type \in {"P", "B", "D"}
      /\ Reads({"P", "B", "D"})
      /\ UNCHANGED <<asked, link>> /\ ~send_ready_for_query /\ srv = "main"
      /\ asyncStatus # "IDLE" /\ Asked /\ Requested
  <2>1. {"P", "B", "D"} \cap CopyTypes = {}
    BY SaidTypes
  <2> QED
    BY <2>1, ReadingRound DEF ReadParseBindDescribe
<1>2. m.type \notin CopyTypes /\ m.type # End
  BY <1>1, SaidTypes
<1>3. m.cmd = Sent /\ Sent \in Nat /\ <<>> \in Seq(Said)
  BY <1>1, <1>2, ReadsRound DEF Asked
<1>4. m.type \in Asks /\ EndsWith(toServer', End, Asks)
  BY <1>1, <1>2, ReadsRound DEF Requested
<1>5. queryclass # "SIMPLE"
  BY <1>2, <1>4, SaidTypes
<1>6. \A i \in DOMAIN toServer' : toServer'[i].type \notin CopyTypes => toServer'[i].cmd = Sent
  BY <1>1, ReadsRound
<1>7. CASE Skips
  BY <1>1, <1>2, <1>7, SkipsRound
<1>8. CASE Fails(<<>>, m.cmd, TRUE)
  <2>1. Fails(<<>>, Sent, queryclass # "SIMPLE")
    BY <1>3, <1>5, <1>8
  <2>2. OfTypes(Wire, Said)
    BY <1>1 DEF Requested
  <2> QED
    BY <1>1, <1>3, <1>4, <1>5, <1>6, <2>1, <2>2, FailsRound
<1>9. CASE /\ ~ignore_till_sync
           /\ Answer(Reply(m.type, asked[m.cmd]), m.cmd)
           /\ xact' = m.cmd
           /\ UNCHANGED <<srv, todo, committed, send_ready_for_query, ignore_till_sync>>
  <2>1. Reply(m.type, asked[m.cmd]) \in Seq(Said)
    BY <1>1, ReplySaid
  <2>2. OfTypes(Wire', Said)
    BY <1>1, <1>3, <1>9, <2>1, AnswerSaid, ServerSilent DEF Requested
  <2>3. /\ srv' = "main" /\ send_ready_for_query' = FALSE /\ ~ignore_till_sync'
        /\ ignore_till_sync' \in BOOLEAN /\ xact' \in {Nobody, Sent}
    BY <1>1, <1>3, <1>9 DEF Typed, ServerTyped
  <2> QED
    BY <1>1, <1>4, <1>5, <1>6, <2>2, <2>3, RoundReads
<1> QED
  BY <1>7, <1>8, <1>9 DEF ReadParseBindDescribe

\* Sync ends the round of an extended query.
LEMMA ReadSyncRound ==
    ASSUME Typed, Round, ~Dead, UNCHANGED clientVars, ReadSync PROVE Round'
<1> DEFINE m == Head(toServer)
<1>1. /\ toServer # <<>> /\ toServer' = Tail(toServer) /\ m.type = "S"
      /\ UNCHANGED <<asked, link>> /\ ~send_ready_for_query /\ srv = "main"
      /\ asyncStatus # "IDLE" /\ Asked /\ Requested
  <2>1. {"S"} \cap CopyTypes = {}
    BY SaidTypes
  <2> QED
    BY <2>1, ReadingRound DEF ReadSync
<1>2. OfTypes(Wire, Said) /\ m.type = End
  <2>1. m.type \in Asks \cup {End}
    BY <1>1, ReadsRound DEF Requested
  <2> QED
    BY <1>1, <2>1, SaidTypes DEF Requested
<1>3. OfTypes(toServer', CopyTypes)
  BY <1>1, <1>2, ReadsRound DEF Requested
<1>4. xact \in Nat
  BY DEF Typed, ServerTyped
<1>5. CASE Fails(<<>>, xact, FALSE)
  <2>1. OfTypes(Wire', Said)
    <3>0. "E" \in Said
      BY DEF Said, Types
    <3>1. Append(<<>>, "E") \in Seq(Said)
      BY <3>0
    <3> QED
      BY <1>1, <1>2, <1>4, <1>5, <3>1, AnswerSaid, ServerSilent DEF Fails
  <2>2. srv' = "main" /\ send_ready_for_query' = TRUE /\ ignore_till_sync' = FALSE /\ xact' = Nobody
    BY <1>5 DEF Fails
  <2> QED
    BY <1>1, <1>3, <2>1, <2>2, RoundEnds
<1>6. CASE /\ finish_xact_command
           /\ send_ready_for_query' = TRUE
           /\ ignore_till_sync' = FALSE
           /\ UNCHANGED <<toClient, srv, todo>>
  <2>1. Wire' = Wire
    BY <1>1, <1>6, ServerSilent DEF Wire
  <2>2. srv' = "main" /\ xact' = Nobody
    BY <1>1, <1>6 DEF finish_xact_command
  <2> QED
    BY <1>1, <1>2, <1>3, <1>6, <2>1, <2>2, RoundEnds
<1> QED
  BY <1>5, <1>6 DEF ReadSync

\* Leftovers of a COPY are ignored.
LEMMA ReadCopyRound ==
    ASSUME Typed, Round, ~Dead, UNCHANGED clientVars, ReadCopyLeftover PROVE Round'
<1>1. Reads({"d", "c", "f"}) /\ Skips /\ Head(toServer).type \in {"d", "c", "f"}
  BY DEF ReadCopyLeftover, Reads
<1>2. Head(toServer).type # End
  BY <1>1, SaidTypes DEF CopyTypes
<1> QED
  BY <1>1, <1>2, SkipsRound

\* ReadyForQuery completes the answer.
LEMMA ReadyForQueryRound ==
    ASSUME Typed, Round, ~Dead, UNCHANGED clientVars, ReadyForQuery PROVE Round'
<1> DEFINE z == Message("Z", Nobody)
<1>1. asyncStatus # "IDLE" /\ Asked /\ Ends
  BY DEF ReadyForQuery, Round, Rests, Requested, Runs, Ended, Waits
<1>2. UNCHANGED <<asked, toServer, link, srv, xact, ignore_till_sync>>
      /\ send_ready_for_query' = FALSE /\ Answer(<<"Z">>, Nobody)
  BY DEF ReadyForQuery
<1>3. /\ Said' = Said /\ Sent' = Sent /\ UNCHANGED <<queryclass, asyncStatus, inBuffer>>
  BY <1>2, ServerSilent
<1>4. Wire' = Wire \o Messages(<<"Z">>, Nobody)
  <2>1. <<"Z">> \in Seq(Types) /\ Nobody \in Nat /\ link = "up"
    BY DEF Types, Nobody, Dead, Typed, ServerTyped
  <2> QED
    BY <1>2, <1>3, <2>1, AnswerWire
<1>5. Messages(<<"Z">>, Nobody) = <<z>>
  BY DEF Messages
<1>6. z \in Msg /\ z.type = "Z" /\ Wire \in Seq(Msg)
  <2>1. z \in Msg /\ z.type = "Z"
    BY DEF Message, Msg, Types, Nobody
  <2> QED
    BY <2>1, WireTyped DEF Replies
<1> HIDE DEF z
<1>7. ReadyLast(Wire', Said)
  BY <1>1, <1>4, <1>5, <1>6, SaidTypes, ReadyLastProperties DEF Ends
<1>8. Ended'
  BY <1>1, <1>2, <1>3, <1>7 DEF Ends, Ended, Waits, OfTypes
<1>9. Asked'
  BY <1>1, <1>2, <1>3 DEF Asked
<1> QED
  BY <1>1, <1>3, <1>8, <1>9 DEF Round

\* A statement's output may be said in its round.
LEMMA OutputSaid ==
    /\ Output \in Seq(Said)
    /\ \A n \in 0..Len(Output) : SubSeq(Output, 1, n) \in Seq(Said)
<1>0. {"D", "T", "H", "d", "c"} \subseteq Said
  BY DEF Said, Types
<1>1. /\ <<"D">> \in Seq(Said) /\ <<"T", "D">> \in Seq(Said) /\ <<>> \in Seq(Said)
      /\ <<"H", "d", "c">> \in Seq(Said)
  BY <1>0
<1>2. Output \in Seq(Said)
  BY <1>1 DEF Output
<1>3. ASSUME NEW s \in Seq(Said), NEW n \in 0..Len(s) PROVE SubSeq(s, 1, n) \in Seq(Said)
  <2>1. n \in Int /\ \A i \in 1..n : s[i] \in Said
    BY <1>3
  <2> QED
    BY <2>1, SubSeqProperties
<1> QED
  BY <1>2, <1>3

\* A statement runs in its round.
LEMMA RunStatementRound ==
    ASSUME Typed, Round, ~Dead, UNCHANGED clientVars, RunStatement PROVE Round'
<1>1. UNCHANGED <<asked, toServer, link>> /\ srv = "query"
  BY DEF RunStatement
<1>2. /\ asyncStatus # "IDLE" /\ Asked /\ OfTypes(Wire, Said) /\ xact = Sent
      /\ doing_extended_query_message = (queryclass # "SIMPLE")
      /\ queryclass = "SIMPLE" => OfTypes(toServer', CopyTypes)
      /\ queryclass # "SIMPLE" => EndsWith(toServer', End, Asks)
      /\ \A i \in DOMAIN toServer' : toServer'[i].type \notin CopyTypes => toServer'[i].cmd = Sent
  <2>1. srv \in {"query", "copyin"}
    BY <1>1
  <2> QED
    BY <1>1, <2>1, RunningRound DEF Asked
<1>3. xact \in Nat
  BY DEF Typed, ServerTyped
<1>4. ASSUME NEW n \in 0..Len(Output),
             Fails(SubSeq(Output, 1, n), xact, doing_extended_query_message)
      PROVE  Round'
  <2>1. SubSeq(Output, 1, n) \in Seq(Said)
    BY OutputSaid
  <2>2. Fails(SubSeq(Output, 1, n), xact, queryclass # "SIMPLE")
    BY <1>2, <1>4
  <2> HIDE DEF Fails
  <2> QED
    BY <1>1, <1>2, <1>3, <2>1, <2>2, FailsRound
<1>5. CASE Completes(Append(Output, IF Running = "nothing" THEN "I" ELSE "C"))
  <2>1. Append(Output, IF Running = "nothing" THEN "I" ELSE "C") \in Seq(Said)
    <3>1. "I" \in Said /\ "C" \in Said
      BY DEF Said, Types
    <3> QED
      BY <3>1, OutputSaid
  <2> QED
    BY <1>1, <1>2, <1>5, <2>1, CompletesRound
<1> QED
  BY <1>4, <1>5 DEF RunStatement

\* So does a COPY FROM STDIN, to its end, its failure or the next data.
LEMMA CopyRound ==
    ASSUME Typed, Round, ~Dead, UNCHANGED clientVars, ReceiveCopyBegin \/ CopyGetData \/ CopyFails
    PROVE  Round'
<1>1. UNCHANGED <<asked, link>> /\ srv \in {"query", "copyin"}
  BY DEF ReceiveCopyBegin, CopyGetData, CopyFails
<1>2. /\ asyncStatus # "IDLE" /\ Asked /\ OfTypes(Wire, Said) /\ xact = Sent
      /\ doing_extended_query_message = (queryclass # "SIMPLE")
      /\ ~send_ready_for_query /\ ~ignore_till_sync
      /\ queryclass = "SIMPLE" => OfTypes(toServer, CopyTypes)
      /\ queryclass # "SIMPLE" => srv = "query" /\ \A i \in DOMAIN todo : todo[i] # "copyin"
  BY <1>1, RunningRound
<1>3. queryclass = "SIMPLE"
  <2>1. ASSUME Running = "copyin" PROVE 1 \in DOMAIN todo /\ todo[1] = "copyin"
    BY <2>1 DEF Running, Typed, ServerTyped
  <2> QED
    BY <1>2, <2>1 DEF ReceiveCopyBegin, CopyGetData, CopyFails
<1>4. OfTypes(toServer', CopyTypes)
  BY <1>2, <1>3, ReadsRound DEF ReceiveCopyBegin, CopyGetData, CopyFails
<1>5. xact \in Nat /\ <<>> \in Seq(Said)
  BY DEF Typed, ServerTyped
<1>6. CASE Fails(<<>>, xact, doing_extended_query_message)
  <2>1. Fails(<<>>, xact, queryclass # "SIMPLE")
    BY <1>2, <1>6
  <2> QED
    BY <1>1, <1>2, <1>3, <1>4, <1>5, <2>1, FailsRound
<1>7. CASE Completes(<<"C">>)
  <2>0. "C" \in Said
    BY DEF Said, Types
  <2>1. <<"C">> \in Seq(Said)
    BY <2>0
  <2> QED
    BY <1>1, <1>3, <1>4, <1>7, <2>1, CompletesRound
<1>8. CASE /\ Answer(<<"G">>, xact) /\ srv' = "copyin"
           /\ UNCHANGED <<xact, ignore_till_sync, send_ready_for_query>>
  <2>1. <<"G">> \in Seq(Said)
    BY <1>3 DEF Said, Types
  <2>2. OfTypes(Wire', Said)
    BY <1>1, <1>2, <1>5, <1>8, <2>1, AnswerSaid, ServerSilent
  <2>3. xact' \in {Nobody, Sent} /\ ~send_ready_for_query' /\ ~ignore_till_sync'
        /\ srv' \in {"query", "copyin"}
    BY <1>2, <1>8
  <2> QED
    BY <1>1, <1>2, <1>3, <1>4, <2>2, <2>3, RoundRuns
<1>9. CASE UNCHANGED <<toClient, srv, todo, xact, ignore_till_sync, send_ready_for_query>>
  <2>1. OfTypes(Wire', Said)
    BY <1>1, <1>2, <1>9, ServerSilent DEF Wire
  <2>2. xact' \in {Nobody, Sent} /\ ~send_ready_for_query' /\ ~ignore_till_sync'
        /\ srv' \in {"query", "copyin"}
    BY <1>1, <1>2, <1>9
  <2> QED
    BY <1>1, <1>2, <1>3, <1>4, <2>1, <2>2, RoundRuns
<1> QED
  <2>1. CASE ReceiveCopyBegin
    BY <1>6, <1>8, <2>1 DEF ReceiveCopyBegin
  <2>2. CASE CopyGetData
    BY <1>6, <1>7, <1>9, <2>2 DEF CopyGetData
  <2>3. CASE CopyFails
    BY <1>6, <2>3 DEF CopyFails
  <2> QED
    BY <2>1, <2>2, <2>3

\* A notification may come at any point of a round.
LEMMA NotifyRound ==
    ASSUME Typed, Round, ~Dead, UNCHANGED clientVars, ProcessIncomingNotify PROVE Round'
<1> DEFINE a == Message("A", notified + 1)
<1>1. /\ UNCHANGED <<asked, toServer, link, srv, todo, xact, ignore_till_sync,
                     send_ready_for_query>>
      /\ srv = "main" /\ Answer(<<"A">>, notified + 1)
  BY DEF ProcessIncomingNotify
<1>2. /\ Said' = Said /\ Sent' = Sent /\ End' = End /\ Asks' = Asks
      /\ UNCHANGED <<queryclass, asyncStatus, inBuffer>>
  BY <1>1, ServerSilent
<1>3. notified + 1 \in Nat /\ <<"A">> \in Seq(Types) /\ link = "up"
  BY DEF Typed, ServerTyped, Types, Dead
<1>4. Wire' = Wire \o <<a>>
  <2>1. Messages(<<"A">>, notified + 1) = <<a>>
    BY DEF Messages
  <2> QED
    BY <1>1, <1>2, <1>3, <2>1, AnswerWire
<1>5. a \in Msg /\ a.type = "A" /\ Wire \in Seq(Msg)
  <2>1. a \in Msg /\ a.type = "A"
    BY <1>3 DEF Message, Msg, Types
  <2> QED
    BY <2>1, WireTyped DEF Replies
<1> HIDE DEF a
<1>6. \A T : OfTypes(Wire, T) /\ "A" \in T => OfTypes(Wire', T)
  <2>1. \A T : "A" \in T => OfTypes(<<a>>, T)
    BY <1>5 DEF OfTypes
  <2>2. <<a>> \in Seq(Msg)
    BY <1>5
  <2> QED
    BY <1>4, <1>5, <2>1, <2>2, OfTypesProperties
<1>7. ReadyLast(Wire, Said) => ReadyLast(Wire', Said)
  BY <1>4, <1>5, SaidTypes, ReadyLastProperties
<1>8. "A" \in Said /\ "A" \in {"A"}
  BY SaidTypes
<1>9. CASE asyncStatus = "IDLE"
  <2>1. Rests'
    BY <1>1, <1>6, <1>8, <1>9 DEF Round, Rests, Waits, OfTypes
  <2> QED
    BY <1>2, <1>9, <2>1 DEF Round
<1>10. CASE asyncStatus # "IDLE"
  <2>1. Asked /\ (Requested \/ Runs \/ Ends \/ Ended)
    BY <1>10 DEF Round
  <2>2. Asked'
    BY <1>1, <1>2, <2>1 DEF Asked
  <2>3. /\ OfTypes(toServer, CopyTypes) => OfTypes(toServer', CopyTypes)
        /\ EndsWith(toServer, End, Asks) => EndsWith(toServer', End, Asks)
        /\ Waits => Waits'
    BY <1>1 DEF OfTypes, EndsWith, Waits
  <2>4. Requested => Requested'
    BY <1>1, <1>2, <1>6, <1>8, <2>3 DEF Requested
  <2>5. Runs => Runs'
    BY <1>1, <1>2, <1>6, <1>8, <2>3 DEF Runs
  <2>6. Ends => Ends'
    BY <1>1, <1>2, <1>6, <1>8, <2>3 DEF Ends
  <2>7. Ended => Ended'
    BY <1>1, <1>2, <1>7, <2>3 DEF Ended
  <2> QED
    BY <1>2, <1>10, <2>1, <2>2, <2>4, <2>5, <2>6, <2>7 DEF Round
<1> QED
  BY <1>9, <1>10

\* The server keeps the round.
LEMMA ServerRound ==
    ASSUME ~CopyInExtended, Typed, Round, ~Dead, UNCHANGED clientVars,
           ServerStep \/ CopyFails \/ ProcessIncomingNotify
    PROVE  Round'
BY ReadyForQueryRound, ReadQueryRound, ReadExecuteRound, ReadParseRound, ReadSyncRound, ReadCopyRound,
   RunStatementRound, CopyRound, NotifyRound DEF ServerStep

-----------------------------------------------------------------------------
(* The client's steps within a round. *)

\* Where nothing is on the way the stream is not looked at: a lemma for the
\* calls that leave it alone.
LEMMA RoundCalls ==
    ASSUME Typed, Round, ~Dead, UNCHANGED <<serverVars, wireVars, queryclass, inBuffer>>,
           Sent' = Sent, \A i \in 1..Len(asked) : i \in 1..Len(asked') /\ asked'[i] = asked[i],
           (asyncStatus' = "IDLE") = (asyncStatus = "IDLE"),
           asyncStatus' = "COPY_IN" => asyncStatus = "COPY_IN"
    PROVE  Round'
<1>1. Wire' = Wire /\ UNCHANGED <<serverVars, toServer, link, queryclass>>
  BY DEF Wire, wireVars
<1> QED
  BY <1>1, RoundGoesOn

\* The parser takes the next message of the round's answer.
LEMMA ParseRound == ASSUME Typed, Round, ~Dead, ParseMessage PROVE Round'
<1> DEFINE m == Head(inBuffer)
<1>1. /\ UNCHANGED <<serverVars, wireVars, asked, queryclass, call>>
      /\ inBuffer # <<>> /\ (getNotify(m) \/ ParseIdle(m) \/ ParseBusy(m))
  BY DEF ParseMessage, CanParse
<1>2. /\ Sent' = Sent /\ UNCHANGED <<toServer, toClient, link>>
      /\ \A i \in 1..Len(asked) : i \in 1..Len(asked') /\ asked'[i] = asked[i]
  BY <1>1 DEF Sent, Current, wireVars
<1>3. Consume => Wire # <<>> /\ Head(Wire) = m /\ Wire' = Tail(Wire)
  BY <1>1, <1>2, ConsumeWire
<1>4. CASE m.type = "A"
  <2>1. Consume /\ asyncStatus' = asyncStatus
    BY <1>1, <1>4 DEF getNotify, ParseIdle, ParseBusy
  <2> QED
    BY <1>1, <1>2, <1>3, <1>4, <2>1, RoundGoesOn
<1>5. CASE ParseIdle(m)
  <2>1. OfTypes(Wire, {"A"}) /\ m.type # "A" /\ Consume
    BY <1>5 DEF ParseIdle, Round, Rests
  <2> QED
    BY <1>3, <2>1, WireTyped, OfTypesProperties
<1>6. CASE ParseBusy(m)
  <2>1. asyncStatus = "BUSY"
    BY <1>6 DEF ParseBusy
  <2>2. CASE ParseReadyForQuery(m)
    BY <1>1, <1>2, <1>3, <2>1, <2>2, RoundIsOver DEF ParseReadyForQuery
  <2>3. CASE m.type # "Z" /\ asyncStatus' \in {"BUSY", "READY", "COPY_OUT"}
             /\ (Consume \/ UNCHANGED inBuffer)
    <3>1. CASE Consume
      BY <1>1, <1>2, <1>3, <2>1, <2>3, <3>1, RoundGoesOn
    <3>2. CASE UNCHANGED inBuffer
      BY <1>1, <1>2, <2>1, <2>3, <3>2, RoundCalls
    <3> QED
      BY <2>3, <3>1, <3>2
  <2>4. CASE m.type = "G" /\ Consume /\ asyncStatus' = "COPY_IN"
    BY <1>1, <1>2, <1>3, <2>1, <2>4, RoundGoesOn
  <2> QED
    <3>1. CASE ParseEnd(m)
      BY <2>3, <3>1 DEF ParseEnd
    <3>2. CASE ParseRowDescription(m)
      BY <2>1, <2>3, <3>2 DEF ParseRowDescription
    <3>3. CASE ParseDataRow(m)
      BY <2>1, <2>3, <3>3 DEF ParseDataRow
    <3>4. CASE getCopyStart(m)
      BY <2>3, <2>4, <3>4 DEF getCopyStart
    <3>5. CASE ParseParameterDescription(m) \/ ParseNothing(m)
      BY <2>1, <2>3, <3>5 DEF ParseParameterDescription, ParseNothing
    <3> QED
      BY <1>6, <2>2, <3>1, <3>2, <3>3, <3>4, <3>5 DEF ParseBusy
<1> QED
  BY <1>1, <1>4, <1>5, <1>6 DEF getNotify

\* A call that returns, or another loop that starts, leaves the round alone.
LEMMA SentStays ==
    ASSUME UNCHANGED asked, call'.fn = "PQexecStart" <=> call.fn = "PQexecStart"
    PROVE  Sent' = Sent /\ \A i \in 1..Len(asked) : i \in 1..Len(asked') /\ asked'[i] = asked[i]
BY DEF Sent, Current

\* PQgetResult leaves the round as it is.
LEMMA GetResultRound ==
    ASSUME Typed, Round, ~Dead, GetResultReads \/ GetResultReturns \/ GetResultNull PROVE Round'
<1>1. CASE GetResultReads
  <2>1. Wire' = Wire
    BY <1>1, ArrivesWire DEF GetResultReads
  <2> QED
    BY <1>1, <2>1, SentStays, RoundGoesOn DEF GetResultReads
<1>2. CASE GetResultReturns
  <2>1. call.fn \in {"PQexecFinish", "PQgetResult"}
    BY <1>2 DEF GetResultReturns
  <2>2. call'.fn \in {"none", "PQexecFinish"}
    <3>1. call' = NoCall \/ (call.fn = "PQexecFinish" /\ FinishHandles(Prepared))
      BY <1>2 DEF GetResultReturns
    <3>2. FinishHandles(Prepared) => call' = NoCall \/ call' = [call EXCEPT !.last = Merged(call.last, Prepared)]
      BY DEF FinishHandles, ExecReturns
    <3> QED
      BY <2>1, <3>1, <3>2 DEF NoCall, Typed, ClientTyped
  <2>3. /\ UNCHANGED <<serverVars, wireVars, asked, queryclass, inBuffer>>
        /\ asyncStatus \in {"READY", "COPY_IN", "COPY_OUT"}
        /\ asyncStatus' = IF asyncStatus = "READY" THEN "BUSY" ELSE asyncStatus
    BY <1>2 DEF GetResultReturns, ResultReady, CopyStatuses
  <2> QED
    BY <2>1, <2>2, <2>3, SentStays, RoundCalls
<1>3. CASE GetResultNull
  <2>1. call.fn \in {"PQexecFinish", "PQgetResult"} /\ call' = NoCall
        /\ UNCHANGED <<serverVars, wireVars, asked, status, queryclass, copied, parserVars>>
    BY <1>3 DEF GetResultNull, ExecReturns
  <2> QED
    BY <2>1, SentStays, RoundCalls DEF NoCall, parserVars
<1> QED
  BY <1>1, <1>2, <1>3

\* Nothing fails while the server and the link live.
LEMMA NothingFails ==
    ASSUME Typed, ~Dead PROVE status = "OK" /\ ~ReadFails /\ ~FlushFails
BY DEF Typed, ClientTyped, ReadFails, FlushFails

\* What ends a COPY of the simple protocol is leftovers, if the COPY is over.
LEMMA CopyEndRound ==
    ASSUME Typed, queryclass = "SIMPLE", NEW type \in CopyTypes
    PROVE  \E ms \in Seq(Requests(Len(asked))) : OfTypes(ms, CopyTypes) /\ CopyEnd(type) = ms
<1>1. CopyEnd(type) = Messages(<<type>>, Nobody)
  BY DEF CopyEnd
<1>2. Len(asked) \in Nat /\ <<type>> \in Seq(CopyTypes)
  BY DEF Typed, ServerTyped
<1> QED
  BY <1>1, <1>2, CopyMessagesTyped, MessagesOfTypes

\* Data and the end of a COPY go out within the round.
LEMMA CopySentRound ==
    ASSUME Typed, Round, ~Dead, UNCHANGED <<serverVars, toClient, link, asked, queryclass, inBuffer>>,
           call'.fn = "PQexecStart" <=> call.fn = "PQexecStart",
           asyncStatus = "COPY_IN", asyncStatus' \in {"COPY_IN", "BUSY"}, NEW type \in CopyTypes,
           Flush(CopyEnd(type)) \/ Flush(Messages(<<type>>, Nobody))
    PROVE  Round'
<1>1. queryclass = "SIMPLE"
  BY DEF Round, Asked
<1>2. CopyEnd(type) = Messages(<<type>>, Nobody)
  BY <1>1 DEF CopyEnd
<1>3. \E ms \in Seq(Requests(Len(asked))) : OfTypes(ms, CopyTypes) /\ toServer' = toServer \o ms
  BY <1>1, <1>2, CopyEndRound DEF Flush
<1>4. Wire' = Wire
  BY DEF Wire
<1> QED
  BY <1>3, <1>4, SentStays, RoundGoesOn

\* PQexecStart drains the round before, and begins the next.
LEMMA ExecRound ==
    ASSUME Typed, Round, ~Dead, ExecStartDiscards \/ ExecSends PROVE Round'
<1>1. CASE ExecStartDiscards
  <2>1. /\ UNCHANGED <<serverVars, toClient, link, asked, queryclass, inBuffer>>
        /\ asyncStatus' = "BUSY" /\ asyncStatus \in {"READY", "COPY_IN", "COPY_OUT"}
    BY <1>1 DEF ExecStartDiscards, ResultReady, CopyStatuses
  <2>2. \/ asyncStatus = "COPY_IN" /\ Flush(CopyEnd("f")) /\ UNCHANGED call
        \/ UNCHANGED <<toServer, call>>
    BY <1>1, NothingFails DEF ExecStartDiscards
  <2>3. CASE asyncStatus = "COPY_IN" /\ Flush(CopyEnd("f")) /\ UNCHANGED call
    BY <2>1, <2>3, CopySentRound DEF CopyTypes
  <2>4. CASE UNCHANGED <<toServer, call>>
    BY <2>1, <2>4, SentStays, RoundCalls DEF wireVars
  <2> QED
    BY <2>2, <2>3, <2>4
<1>2. CASE ExecSends
  <2>1. UNCHANGED <<asked, serverVars, link>> /\ asyncStatus = "IDLE" /\ Len(asked) > 0
    BY <1>2 DEF ExecSends, SendUnchanged, Typed, ClientTyped
  <2>2. Sends(asked[Len(asked)]) /\ call' = InCall("PQexecFinish")
    BY <1>2, <2>1, NothingFails DEF ExecSends, SendFails, Refuses, Current
  <2>3. Sent' = Len(asked') /\ Len(asked) \in 1..Len(asked) /\ asked[Len(asked)] \in Commands
    BY <2>1, <2>2 DEF Sent, Current, InCall, Typed, ServerTyped
  <2> QED
    BY <2>1, <2>2, <2>3, RoundStarts
<1> QED
  BY <1>1, <1>2

\* The application begins a round, or is told off.
LEMMA PQexecRound ==
    ASSUME Typed, Round, ~Dead, NEW c \in Commands, PQexec(c) \/ PQsendQuery(c) PROVE Round'
<1>1. asked \in Seq(Commands) /\ Len(asked) \in Nat
  BY DEF Typed, ServerTyped
<1>2. asked' = Append(asked, c) =>
          /\ Len(asked') = Len(asked) + 1 /\ asked'[Len(asked')] = c
          /\ Len(asked') \in 1..Len(asked')
          /\ \A i \in 1..Len(asked) : i \in 1..Len(asked') /\ asked'[i] = asked[i]
  BY <1>1
<1>3. CASE PQexec(c)
  <2>1. /\ asked' = Append(asked, c) /\ call.fn = "none" /\ call' = InCall("PQexecStart")
        /\ UNCHANGED <<serverVars, wireVars, status, queryclass, copied, parserVars>>
    BY <1>3 DEF PQexec, Calls, Idle
  <2>2. Sent' = Sent
    BY <1>1, <1>2, <2>1 DEF Sent, Current, InCall
  <2> QED
    BY <1>2, <2>1, <2>2, RoundCalls DEF parserVars
<1>4. CASE PQsendQuery(c)
  <2>1. call.fn = "none" /\ UNCHANGED <<serverVars, link>>
    BY <1>4 DEF PQsendQuery, Calls, Idle, SendUnchanged
  <2>2. CASE asked' = Append(asked, c) /\ Sends(c) /\ UNCHANGED call
    BY <1>2, <2>1, <2>2, RoundStarts DEF Sent, Current, Sends
  <2>3. CASE UNCHANGED <<asked, call>> /\ Refuses
    <3>1. UNCHANGED <<serverVars, wireVars, queryclass, inBuffer, asyncStatus>>
      BY <2>1, <2>3 DEF Refuses, wireVars
    <3> QED
      BY <2>3, <3>1, SentStays, RoundCalls
  <2> QED
    BY <1>4, <2>2, <2>3, NothingFails DEF PQsendQuery, SendFails
<1> QED
  BY <1>3, <1>4

\* PQgetCopyData reads the rows of a COPY OUT, until something else comes.
ReadsRows == call.fn = "PQgetCopyData" => asyncStatus = "COPY_OUT"

\* pqGetCopyData3 goes on only while a COPY OUT does.
LEMMA ReadsRowsStep == ASSUME Typed, ReadsRows, [Next]_vars PROVE ReadsRows'
<1>1. CASE ParseMessage
  <2>1. call.fn # "PQgetCopyData" /\ call' = call
    BY <1>1 DEF ParseMessage
  <2> QED
    BY <2>1 DEF ReadsRows
<1>2. CASE UNCHANGED <<call, asyncStatus>>
  BY <1>2 DEF ReadsRows
<1>3. CASE GetResultFails \/ GetResultReturns \/ GetResultNull \/ ExecStartDiscards \/ ExecSends
  <2>1. call.fn # "PQgetCopyData"
    BY <1>3 DEF GetResultFails, GetResultReturns, GetResultNull, ExecStartDiscards, ExecSends, InGetResult,
                ResultReady
  <2>2. \/ call' = call \/ call' = NoCall \/ call' = InCall("PQexecFinish")
        \/ \E last : call' = [call EXCEPT !.last = last]
    <3>1. CASE GetResultFails
      <4>1. CASE call.fn = "PQexecFinish"
        BY <3>1, <4>1 DEF GetResultFails, FinishHandles, ExecReturns
      <4>2. CASE call.fn = "PQgetResult"
        BY <3>1, <4>2 DEF GetResultFails
      <4>3. CASE call.fn = "PQexecStart"
        BY <3>1, <4>3 DEF GetResultFails, ExecReturns
      <4> QED
        BY <3>1, <4>1, <4>2, <4>3 DEF GetResultFails, InGetResult
    <3>2. CASE GetResultReturns
      BY <3>2 DEF GetResultReturns, FinishHandles, ExecReturns
    <3>3. CASE GetResultNull \/ ExecSends
      BY <3>3 DEF GetResultNull, ExecSends, ExecReturns
    <3>4. CASE ExecStartDiscards
      BY <3>4 DEF ExecStartDiscards, ExecReturns
    <3> QED
      BY <1>3, <3>1, <3>2, <3>3, <3>4
  <2>3. call'.fn \in {call.fn, "none", "PQexecFinish"}
    BY <2>2 DEF NoCall, InCall, Typed, ClientTyped
  <2> QED
    BY <2>1, <2>3 DEF ReadsRows
<1>4. CASE GetCopyDataStep
  BY <1>4 DEF GetCopyDataStep, ReadsRows, NoCall
<1>5. CASE ParseInputReturns
  BY <1>5 DEF ParseInputReturns, ReadsRows, NoCall
<1>6. CASE Application
  <2>1. CASE \E c \in Commands : PQexec(c) \/ PQsendQuery(c)
    BY <2>1 DEF PQexec, PQsendQuery, Calls, Idle, InCall, ReadsRows
  <2>2. CASE PQgetResult \/ PQputCopyData \/ PQputCopyEnd \/ PQgetCopyData \/ PQconsumeInput
    BY <2>2 DEF PQgetResult, PQputCopyData, PQputCopyEnd, PQgetCopyData, PQconsumeInput, Calls,
                Idle, InCall, ReadsRows, parserVars
  <2> QED
    BY <1>6, <2>1, <2>2 DEF Application
<1>7. CASE GetResultReads
  BY <1>2, <1>7 DEF GetResultReads
<1>8. CASE UNCHANGED clientVars
  BY <1>2, <1>8 DEF clientVars, parserVars
<1> QED
  BY <1>1, <1>3, <1>4, <1>5, <1>6, <1>7, <1>8 DEF Next, LibpqStep, Server, vars

\* The other calls leave the round as it is, or end its COPY.
LEMMA OtherCallsRound ==
    ASSUME Typed, ReadsRows, Round, ~Dead,
           \/ PQgetResult \/ PQputCopyData \/ PQputCopyEnd \/ PQgetCopyData \/ PQconsumeInput
           \/ GetCopyDataStep \/ ParseInputReturns
    PROVE  Round'
<1>1. CASE PQgetResult \/ PQgetCopyData \/ ParseInputReturns
  <2>1. /\ UNCHANGED <<serverVars, wireVars, asked, queryclass, parserVars>>
        /\ call.fn \in {"none", "parseInput"}
        /\ call' \in {InCall("PQgetResult"), InCall("PQgetCopyData"), NoCall}
    BY <1>1 DEF PQgetResult, PQgetCopyData, ParseInputReturns, Calls, Idle
  <2> QED
    BY <2>1, SentStays, RoundCalls DEF InCall, NoCall, parserVars
<1>2. CASE PQputCopyData
  BY <1>2, CopySentRound DEF PQputCopyData, Calls, Idle, InCall, parserVars, CopyTypes
<1>3. CASE PQputCopyEnd
  <2>1. PICK type \in {"c", "f"} : Flush(CopyEnd(type))
    BY <1>3, NothingFails DEF PQputCopyEnd
  <2>2. /\ UNCHANGED <<serverVars, toClient, link, asked, queryclass, inBuffer, call>>
        /\ asyncStatus = "COPY_IN" /\ asyncStatus' = "BUSY"
    BY <1>3 DEF PQputCopyEnd
  <2> QED
    BY <2>1, <2>2, CopySentRound DEF CopyTypes
<1>4. CASE PQconsumeInput
  <2>1. Arrives
    BY <1>4, NothingFails DEF PQconsumeInput
  <2>2. Wire' = Wire
    BY <2>1, ArrivesWire
  <2> QED
    BY <1>4, <2>2, SentStays, RoundGoesOn DEF PQconsumeInput, Calls, Idle, InCall
<1>5. CASE GetCopyDataStep
  <2>1. /\ UNCHANGED <<serverVars, toServer, link, asked, queryclass>>
        /\ call.fn = "PQgetCopyData" /\ call' \in {call, NoCall}
    BY <1>5 DEF GetCopyDataStep
  <2>2. Sent' = Sent /\ \A i \in 1..Len(asked) : i \in 1..Len(asked') /\ asked'[i] = asked[i]
    BY <2>1, SentStays DEF NoCall
  <2>3. CASE Arrives /\ UNCHANGED asyncStatus
    BY <2>1, <2>2, <2>3, ArrivesWire, RoundGoesOn
  <2>4. CASE /\ inBuffer # <<>> /\ Consume /\ UNCHANGED <<asyncStatus, toClient>>
             /\ Head(inBuffer).type \in {"A", "d"}
    BY <2>1, <2>2, <2>4, ConsumeWire, RoundGoesOn
  <2>5. CASE asyncStatus' = "BUSY" /\ asyncStatus # "IDLE" /\ UNCHANGED <<inBuffer, toClient>>
    BY <2>1, <2>2, <2>5, RoundCalls DEF wireVars
  <2> QED
    BY <1>5, <2>3, <2>4, <2>5, NothingFails DEF GetCopyDataStep, ReadsRows
<1> QED
  BY <1>1, <1>2, <1>3, <1>4, <1>5

\* Once the connection is dead it stays so, and there are no rounds any more.
LEMMA DeadStays == ASSUME Dead, [Next]_vars PROVE Dead'
<1>1. CASE UNCHANGED <<serverVars, link>>
  BY <1>1 DEF Dead, serverVars
<1>2. CASE Server
  BY <1>2 DEF Dead, Server, ServerStep, ReadyForQuery, ReadQuery, ReadExecute, ReadParseBindDescribe,
         ReadSync, ReadCopyLeftover, RunStatement, ReceiveCopyBegin, CopyGetData, Reads
<1>3. CASE CopyFails \/ ProcessIncomingNotify \/ ServerExits \/ LinkCut
  BY <1>3 DEF Dead, CopyFails, ProcessIncomingNotify, ServerExits, LinkCut
<1>4. CASE Application
  <2>1. CASE \E c \in Commands : PQexec(c) \/ PQsendQuery(c)
    BY <1>1, <2>1 DEF PQexec, PQsendQuery, SendUnchanged, wireVars
  <2>2. CASE PQgetResult \/ PQputCopyData \/ PQputCopyEnd \/ PQgetCopyData \/ PQconsumeInput
    BY <1>1, <2>2 DEF PQgetResult, PQputCopyData, PQputCopyEnd, PQgetCopyData, PQconsumeInput, wireVars
  <2> QED
    BY <1>4, <2>1, <2>2 DEF Application
<1>5. CASE LibpqStep
  BY <1>1, <1>5 DEF LibpqStep, ParseMessage, GetResultFails, GetResultReads, GetResultReturns,
     GetResultNull, ExecStartDiscards, ExecSends, GetCopyDataStep, ParseInputReturns, SendUnchanged, wireVars
<1>6. CASE UNCHANGED vars
  BY <1>1, <1>6 DEF vars, wireVars
<1> QED
  BY <1>2, <1>3, <1>4, <1>5, <1>6 DEF Next

\* A new connection rests.
LEMMA RoundInit == ASSUME Init PROVE Round /\ ReadsRows
<1>1. Wire = <<>> /\ toServer = <<>>
  BY DEF Init, BackendInit, ClientInit, Wire
<1> QED
  BY <1>1 DEF Init, BackendInit, ClientInit, Round, Rests, Waits, OfTypes, ReadsRows, NoCall

\* Without COPY FROM STDIN by the extended protocol, every step keeps the
\* round.
LEMMA RoundStep == ASSUME ~CopyInExtended, Typed, ReadsRows, Round, [Next]_vars PROVE Round'
<1>1. CASE Dead
  BY <1>1, DeadStays DEF Round
<1>2. CASE ~Dead
  <2>1. CASE Application
    BY <1>2, <2>1, PQexecRound, OtherCallsRound DEF Application
  <2>2. CASE LibpqStep
    BY <1>2, <2>2, ParseRound, GetResultRound, ExecRound, OtherCallsRound, NothingFails
       DEF LibpqStep, GetResultFails
  <2>3. CASE \/ Server
             \/ CopyFails /\ UNCHANGED clientVars
             \/ ProcessIncomingNotify /\ UNCHANGED clientVars
    BY <1>2, <2>3, ServerRound DEF Server
  <2>4. CASE ServerExits \/ LinkCut
    BY <2>4 DEF Round, ServerExits, LinkCut, Dead
  <2>5. CASE UNCHANGED vars
    BY <1>2, <2>5, RoundCalls, SentStays DEF vars, wireVars, clientVars, parserVars
  <2> QED
    BY <2>1, <2>2, <2>3, <2>4, <2>5 DEF Next
<1> QED
  BY <1>1, <1>2

-----------------------------------------------------------------------------
(* What any step does to the stream, whatever becomes of the connection.   *)

\* No answer is a notification.
Spoken == Types \ {"A"}

\* A message is about the command whose transaction is open, the one whose
\* request is read, or none.
About(k) ==
    \/ k \in {Nobody, xact}
    \/ toServer # <<>> /\ Head(toServer).type \in {"P", "B", "D"} /\ k = Head(toServer).cmd

\* A row comes from a query, and by the simple protocol right after its
\* description.
RowsDescribed(types) ==
    \A i \in DOMAIN types : types[i] = "D" =>
        /\ srv = "query" /\ Running = "rows"
        /\ IF i = 1 THEN doing_extended_query_message ELSE types[i - 1] = "T"

\* A step in which the server says something.
Says(types, k) ==
    /\ types \in Seq(Spoken) /\ k \in 0..Len(asked)
    /\ About(k) /\ RowsDescribed(types)
    /\ Answer(types, k)

\* Saying one more thing after rows that were described.
LEMMA RowsDescribedAppend ==
    ASSUME NEW types \in Seq(Spoken), RowsDescribed(types), NEW type \in Spoken \ {"D"}
    PROVE  Append(types, type) \in Seq(Spoken) /\ RowsDescribed(Append(types, type))
<1>1. Append(types, type) \in Seq(Spoken)
  OBVIOUS
<1>2. /\ \A i \in DOMAIN Append(types, type) : i \in DOMAIN types \/ Append(types, type)[i] = type
      /\ \A i \in DOMAIN types : Append(types, type)[i] = types[i] /\ i \in Nat
      /\ \A i \in DOMAIN types : i # 1 => Append(types, type)[i - 1] = types[i - 1]
  OBVIOUS
<1> QED
  BY <1>1, <1>2 DEF RowsDescribed

\* A statement that fails says an error.
LEMMA FailsSays ==
    ASSUME NEW types \in Seq(Spoken), RowsDescribed(types), NEW k \in 0..Len(asked), About(k), NEW e,
           Fails(types, k, e)
    PROVE  \E ts, j : Says(ts, j)
<1>0. "E" \in Spoken \ {"D"}
  BY DEF Spoken, Types
<1>1. Append(types, "E") \in Seq(Spoken) /\ RowsDescribed(Append(types, "E"))
  BY <1>0, RowsDescribedAppend
<1>2. Says(Append(types, "E"), k)
  BY <1>1 DEF Says, Fails
<1> QED
  BY <1>2

\* A statement's output, or the part of it that came before an error.
LEMMA OutputSpoken ==
    ASSUME srv = "query"
    PROVE  /\ Output \in Seq(Spoken) /\ RowsDescribed(Output)
           /\ \A n \in 0..Len(Output) :
                 SubSeq(Output, 1, n) \in Seq(Spoken) /\ RowsDescribed(SubSeq(Output, 1, n))
<1>0. {"D", "T", "H", "d", "c"} \subseteq Spoken
  BY DEF Spoken, Types
<1>1. /\ <<"D">> \in Seq(Spoken) /\ <<"T", "D">> \in Seq(Spoken) /\ <<>> \in Seq(Spoken)
      /\ <<"H", "d", "c">> \in Seq(Spoken)
  BY <1>0
<1>2. Output \in Seq(Spoken)
  BY <1>1 DEF Output
<1>3. RowsDescribed(Output)
  <2>1. CASE Running = "rows" /\ doing_extended_query_message
    BY <2>1 DEF Output, RowsDescribed
  <2>2. CASE Running = "rows" /\ ~doing_extended_query_message
    BY <2>2 DEF Output, RowsDescribed
  <2>3. CASE Running # "rows"
    <3>1. Output \in {<<"H", "d", "c">>, <<>>}
      BY <2>3 DEF Output
    <3> QED
      BY <3>1 DEF RowsDescribed
  <2> QED
    BY <2>1, <2>2, <2>3
<1>4. ASSUME NEW s \in Seq(Spoken), RowsDescribed(s), NEW n \in 0..Len(s)
      PROVE  SubSeq(s, 1, n) \in Seq(Spoken) /\ RowsDescribed(SubSeq(s, 1, n))
  <2>1. n \in Int /\ \A i \in 1..n : s[i] \in Spoken
    BY <1>4
  <2>2. SubSeq(s, 1, n) \in Seq(Spoken)
    BY <2>1, SubSeqProperties
  <2>3. /\ \A i \in DOMAIN SubSeq(s, 1, n) : i \in DOMAIN s /\ SubSeq(s, 1, n)[i] = s[i]
        /\ \A i \in DOMAIN SubSeq(s, 1, n) : i # 1 => SubSeq(s, 1, n)[i - 1] = s[i - 1]
    BY <1>4
  <2> QED
    BY <1>4, <2>2, <2>3 DEF RowsDescribed
<1> QED
  BY <1>2, <1>3, <1>4

\* The replies to Parse, Bind and Describe have no rows.
LEMMA ReplySpoken ==
    ASSUME NEW c, NEW type \in {"P", "B", "D"}
    PROVE  Reply(type, c) \in Seq(Spoken) /\ RowsDescribed(Reply(type, c))
<1>0. {"1", "2", "t", "T", "n"} \subseteq Spoken \ {"D"}
  BY DEF Spoken, Types
<1>1. Reply(type, c) \in Seq(Spoken \ {"D"})
  <2>1. CASE type = "P"
    BY <1>0, <2>1 DEF Reply
  <2>2. CASE type = "B"
    BY <1>0, <2>2 DEF Reply
  <2>3. CASE type = "D"
    <3> DEFINE S == Spoken \ {"D"}
    <3>2. <<"t">> \in Seq(S) /\ <<>> \in Seq(S) /\ <<"T">> \in Seq(S) /\ <<"n">> \in Seq(S)
      BY <1>0
    <3> HIDE DEF S
    <3>1. \A s, t : s \in Seq(S) /\ t \in Seq(S) => s \o t \in Seq(S)
      OBVIOUS
    <3>3. Reply(type, c) = (IF c.class = "DESCRIBE" THEN <<"t">> ELSE <<>>)
                              \o (IF c.stmts = <<"rows">> THEN <<"T">> ELSE <<"n">>)
      BY <2>3 DEF Reply
    <3>4. Reply(type, c) \in Seq(S)
      BY <3>1, <3>2, <3>3
    <3> QED
      BY <3>4 DEF S
  <2> QED
    BY <2>1, <2>2, <2>3
<1>2. ASSUME NEW s \in Seq(Spoken \ {"D"}) PROVE s \in Seq(Spoken) /\ RowsDescribed(s)
  <2>1. \A i \in DOMAIN s : s[i] \in Spoken \ {"D"}
    BY <1>2
  <2>2. s \in Seq(Spoken)
    BY <1>2
  <2> QED
    BY <2>1, <2>2 DEF RowsDescribed
<1> QED
  BY <1>1, <1>2

\* A step of the server says something in this way, or nothing.
LEMMA ServerSays ==
    ASSUME Typed, ServerStep \/ CopyFails
    PROVE  /\ (\E types, k : Says(types, k)) \/ UNCHANGED toClient
           /\ UNCHANGED <<asked, link, notified>> /\ srv # "exit"
<1>0. /\ xact \in 0..Len(asked) /\ Nobody \in 0..Len(asked) /\ About(xact) /\ About(Nobody)
      /\ <<>> \in Seq(Spoken) /\ RowsDescribed(<<>>)
      /\ \A type \in {"C", "I", "G", "Z", "E"} : type \in Spoken \ {"D"}
      /\ \A type \in {"C", "G", "Z"} : <<type>> \in Seq(Spoken) /\ RowsDescribed(<<type>>)
  <2>1. \A type \in {"C", "I", "G", "Z", "E"} : type \in Spoken \ {"D"}
    BY DEF Spoken, Types
  <2>2. xact \in 0..Len(asked) /\ Nobody \in 0..Len(asked) /\ About(xact) /\ About(Nobody)
    BY DEF Typed, ServerTyped, Nobody, About
  <2>3. <<>> \in Seq(Spoken) /\ RowsDescribed(<<>>)
    BY DEF RowsDescribed
  <2>4. ASSUME NEW type \in {"C", "G", "Z"} PROVE <<type>> \in Seq(Spoken) /\ RowsDescribed(<<type>>)
    <3>1. <<type>> = Append(<<>>, type) /\ type \in Spoken \ {"D"}
      BY <2>1
    <3> QED
      BY <2>3, <3>1, RowsDescribedAppend
  <2> QED
    BY <2>1, <2>2, <2>3, <2>4
<1>1. CASE ReadyForQuery
  BY <1>0, <1>1 DEF ReadyForQuery, Says
<1>2. CASE ReadQuery \/ ReadExecute \/ ReadCopyLeftover
  BY <1>2 DEF ReadQuery, ReadExecute, ReadCopyLeftover, Reads, Skips, Starts
<1>3. CASE ReadParseBindDescribe
  <2>1. /\ Head(toServer).cmd \in 0..Len(asked) /\ Head(toServer).type \in {"P", "B", "D"}
        /\ About(Head(toServer).cmd)
        /\ UNCHANGED <<asked, link, notified>> /\ srv = "main"
    <3>1. Head(toServer).type \in {"P", "B", "D"} /\ toServer # <<>>
          /\ UNCHANGED <<asked, link, notified>> /\ srv = "main"
      BY <1>3 DEF ReadParseBindDescribe, Reads
    <3>2. Head(toServer).cmd \in 1..Len(asked)
      BY <3>1, ReadsTyped DEF Typed, Unowned, CopyTypes
    <3> QED
      BY <3>1, <3>2 DEF Typed, ServerTyped, About
  <2>2. /\ Reply(Head(toServer).type, asked[Head(toServer).cmd]) \in Seq(Spoken)
        /\ RowsDescribed(Reply(Head(toServer).type, asked[Head(toServer).cmd]))
    BY <2>1, ReplySpoken
  <2> QED
    BY <1>0, <1>3, <2>1, <2>2, FailsSays DEF ReadParseBindDescribe, Skips, Says
<1>4. CASE ReadSync
  BY <1>0, <1>4, FailsSays DEF ReadSync, Reads
<1>5. CASE RunStatement
  <2>1. UNCHANGED <<asked, link, notified>> /\ srv = "query"
    BY <1>5 DEF RunStatement
  <2>2. ASSUME NEW n \in 0..Len(Output),
               Fails(SubSeq(Output, 1, n), xact, doing_extended_query_message)
        PROVE  \E types, k : Says(types, k)
    BY <1>0, <2>1, <2>2, OutputSpoken, FailsSays
  <2>3. ASSUME Completes(Append(Output, IF Running = "nothing" THEN "I" ELSE "C"))
        PROVE  \E types, k : Says(types, k)
    BY <1>0, <2>1, <2>3, OutputSpoken, RowsDescribedAppend DEF Completes, Says
  <2> QED
    BY <1>5, <2>1, <2>2, <2>3 DEF RunStatement
<1>6. CASE ReceiveCopyBegin \/ CopyGetData \/ CopyFails
  <2>1. UNCHANGED <<asked, link, notified>> /\ srv \in {"query", "copyin"}
    BY <1>6 DEF ReceiveCopyBegin, CopyGetData, CopyFails
  <2>2. \/ Fails(<<>>, xact, doing_extended_query_message)
        \/ Completes(<<"C">>) \/ Answer(<<"G">>, xact) \/ UNCHANGED toClient
    BY <1>6 DEF ReceiveCopyBegin, CopyGetData, CopyFails
  <2> QED
    BY <1>0, <2>1, <2>2, FailsSays DEF Completes, Says
<1> QED
  BY <1>1, <1>2, <1>3, <1>4, <1>5, <1>6 DEF ServerStep

\* The client alone: it takes the first message of the stream or leaves it.
ClientWire ==
    /\ \/ Wire' = Wire /\ notifies' = notifies
       \/ /\ Wire # <<>> /\ Wire' = Tail(Wire)
          /\ notifies' = IF Head(Wire).type = "A" THEN Append(notifies, Head(Wire).cmd)
                         ELSE notifies
    /\ UNCHANGED <<serverVars, link>>

\* The client takes the head of the stream, or leaves it as it is; a
\* notification it takes, it keeps.
LEMMA ClientWireStep == ASSUME Typed, Application \/ LibpqStep PROVE ClientWire
<1> DEFINE m == Head(inBuffer)
<1>1. ASSUME UNCHANGED <<inBuffer, toClient, notifies, serverVars, link>> PROVE ClientWire
  BY <1>1 DEF ClientWire, Wire
<1>2. ASSUME Arrives, UNCHANGED <<notifies, serverVars, link>> PROVE ClientWire
  BY <1>2, ArrivesWire DEF ClientWire
<1>3. ASSUME inBuffer # <<>>, Consume, UNCHANGED <<toClient, serverVars, link>>,
             notifies' = IF m.type = "A" THEN Append(notifies, m.cmd) ELSE notifies
      PROVE  ClientWire
  BY <1>3, ConsumeWire DEF ClientWire
<1>4. ASSUME inBuffer' = inBuffer \o toClient, toClient' = <<>>, UNCHANGED <<notifies, serverVars, link>>
      PROVE  ClientWire
  <2>1. inBuffer \o toClient \in Seq(Replies(Len(asked)))
    BY WireTyped DEF Wire
  <2>2. Wire' = Wire
    BY <1>4, <2>1, ConcatEmptySeq DEF Wire
  <2> QED
    BY <1>4, <2>2 DEF ClientWire
<1>5. CASE ParseMessage
  <2>1. /\ inBuffer # <<>> /\ UNCHANGED <<toClient, serverVars, link>>
        /\ getNotify(m) \/ ParseIdle(m) \/ ParseBusy(m)
    BY <1>5 DEF ParseMessage, CanParse, wireVars
  <2>2. Consume \/ UNCHANGED inBuffer
    BY <2>1 DEF getNotify, ParseIdle, ParseBusy, ParseEnd, ParseReadyForQuery, ParseRowDescription,
                ParseDataRow, getCopyStart, ParseParameterDescription, ParseNothing
  <2>3. m.type # "A" => UNCHANGED notifies
    BY <2>1 DEF getNotify, ParseIdle, ParseBusy
  <2>4. m.type = "A" => Consume /\ notifies' = Append(notifies, m.cmd)
    BY <2>1 DEF getNotify, ParseIdle, ParseBusy
  <2> QED
    BY <1>1, <1>3, <2>1, <2>2, <2>3, <2>4
<1>6. CASE GetResultFails \/ GetResultReturns \/ GetResultNull \/ ExecStartDiscards \/ ParseInputReturns
  BY <1>1, <1>6 DEF GetResultFails, GetResultReturns, GetResultNull, ExecStartDiscards, ParseInputReturns,
     wireVars, parserVars
<1>7. CASE GetResultReads
  BY <1>2, <1>7 DEF GetResultReads
<1>8. CASE ExecSends
  <2>1. UNCHANGED <<notifies, serverVars, link>>
    BY <1>8 DEF ExecSends, SendUnchanged
  <2>2. \/ UNCHANGED <<inBuffer, toClient>>
        \/ inBuffer' = inBuffer \o toClient /\ toClient' = <<>>
    BY <1>8 DEF ExecSends, Sends, SendFails, Refuses
  <2> QED
    BY <1>1, <1>4, <2>1, <2>2
<1>9. CASE GetCopyDataStep
  <2>1. UNCHANGED <<serverVars, link>>
    BY <1>9 DEF GetCopyDataStep
  <2>2. \/ Arrives /\ UNCHANGED notifies
        \/ UNCHANGED <<inBuffer, toClient, notifies>>
        \/ /\ inBuffer # <<>> /\ Consume /\ UNCHANGED toClient
           /\ notifies' = IF m.type = "A" THEN Append(notifies, m.cmd) ELSE notifies
    BY <1>9 DEF GetCopyDataStep
  <2> QED
    BY <1>1, <1>2, <1>3, <2>1, <2>2
<1>10. CASE Application
  <2>1. ASSUME NEW c \in Commands, PQexec(c) PROVE ClientWire
    BY <1>1, <2>1 DEF PQexec, wireVars, parserVars
  <2>2. ASSUME NEW c \in Commands, PQsendQuery(c) PROVE ClientWire
    <3>1. UNCHANGED <<notifies, serverVars, link>>
      BY <2>2 DEF PQsendQuery, SendUnchanged
    <3>2. \/ UNCHANGED <<inBuffer, toClient>>
          \/ inBuffer' = inBuffer \o toClient /\ toClient' = <<>>
      BY <2>2 DEF PQsendQuery, Sends, SendFails, Refuses
    <3> QED
      BY <1>1, <1>4, <3>1, <3>2
  <2>3. CASE PQgetResult \/ PQputCopyData \/ PQputCopyEnd \/ PQgetCopyData
    BY <1>1, <2>3 DEF PQgetResult, PQputCopyData, PQputCopyEnd, PQgetCopyData, wireVars, parserVars
  <2>4. CASE PQconsumeInput
    BY <1>1, <1>2, <2>4 DEF PQconsumeInput
  <2> QED
    BY <1>10, <2>1, <2>2, <2>3, <2>4 DEF Application
<1> QED
  BY <1>5, <1>6, <1>7, <1>8, <1>9, <1>10 DEF LibpqStep

\* What the round says of an idle client is what InSync promises.
LEMMA RoundInSync == ASSUME Round PROVE InSync
BY DEF Round, Rests, Waits, OfTypes, CopyTypes, InSync

\* When PQexec and its siblings hold the connection for idle, so does the
\* server, and nothing but notifications is on the way: the next answer is that
\* of the next command (PQexecStart and PQsendQueryStart of fe-exec.c, against
\* PostgresMain's loop).  A COPY FROM STDIN that came by the extended protocol
\* breaks it, so that is excluded.
THEOREM IdleInSync == ASSUME ~CopyInExtended PROVE Spec => []InSync
<1>1. Init => Typed /\ ReadsRows /\ Round
  BY TypedInit, RoundInit
<1>2. (Typed /\ ReadsRows /\ Round) /\ [Next]_vars => (Typed /\ ReadsRows /\ Round)'
  BY TypedStep, ReadsRowsStep, RoundStep
<1>3. Typed /\ ReadsRows /\ Round => InSync
  BY RoundInSync
<1> QED
  BY <1>1, <1>2, <1>3, PTL DEF Spec

-----------------------------------------------------------------------------
(* Notifications. *)

\* The notifications of a stream are a+1 up to h, each once and in order.
Tells(s, a, h) ==
    /\ \A i, j \in DOMAIN s : i < j /\ s[i].type = "A" /\ s[j].type = "A" => s[i].cmd < s[j].cmd
    /\ \A i \in DOMAIN s : s[i].type = "A" => s[i].cmd \in a + 1 .. h
    /\ \A k \in a + 1 .. h : \E i \in DOMAIN s : s[i].type = "A" /\ s[i].cmd = k

\* The stream goes on where the notifications parsed so far ended, and, unless
\* the connection is dead, to the last that was sent.
NotesInv ==
    /\ notifies = [i \in DOMAIN notifies |-> i]
    /\ \E h \in Len(notifies) .. notified : Tells(Wire, Len(notifies), h) /\ (~Dead => h = notified)

\* The head is taken off: the next notification, or something else.
LEMMA TellsTail ==
    ASSUME NEW s \in Seq(Msg), s # <<>>, NEW a \in Nat, NEW h \in Nat, a <= h, Tells(s, a, h)
    PROVE  IF Head(s).type = "A" THEN a + 1 <= h /\ Head(s).cmd = a + 1 /\ Tells(Tail(s), a + 1, h)
           ELSE Tells(Tail(s), a, h)
<1> DEFINE t == Tail(s)
           m == Head(s)
<1>1. /\ \A i \in DOMAIN t : i \in Nat /\ i + 1 \in DOMAIN s /\ t[i] = s[i + 1] /\ 1 < i + 1
      /\ 1 \in DOMAIN s /\ m = s[1]
      /\ \A i \in DOMAIN s : i # 1 => i - 1 \in DOMAIN t /\ t[i - 1] = s[i]
      /\ \A i, j \in DOMAIN t : i < j => i + 1 < j + 1
      /\ \A i \in DOMAIN s : s[i].cmd \in Nat
  <2>1. Len(t) = Len(s) - 1 /\ Len(s) \in Nat /\ Len(s) > 0 /\ DOMAIN t = 1..(Len(s) - 1)
        /\ DOMAIN s = 1..Len(s) /\ \A i \in 1..(Len(s) - 1) : t[i] = s[i + 1]
    OBVIOUS
  <2>2. \A i \in DOMAIN s : s[i].cmd \in Nat
    <3>1. \A i \in DOMAIN s : s[i] \in Msg
      OBVIOUS
    <3> QED
      BY <3>1 DEF Msg
  <2>3. m = s[1]
    OBVIOUS
  <2> HIDE DEF t, m
  <2>4. \A i \in 1..Len(s) : i # 1 => i - 1 \in 1..(Len(s) - 1) /\ (i - 1) + 1 = i
    BY <2>1
  <2> QED
    BY <2>1, <2>2, <2>3, <2>4
<1> HIDE DEF t, m
<1>2. /\ \A i, j \in DOMAIN t : i < j /\ t[i].type = "A" /\ t[j].type = "A" => t[i].cmd < t[j].cmd
  BY <1>1 DEF Tells
<1>3. ASSUME m.type = "A" PROVE m.cmd = a + 1 /\ a + 1 <= h /\ Tells(t, a + 1, h)
  <2>1. m.cmd \in a + 1 .. h
    BY <1>1, <1>3 DEF Tells
  <2>2. a + 1 \in a + 1 .. h
    BY <2>1
  <2>3. PICK i \in DOMAIN s : s[i].type = "A" /\ s[i].cmd = a + 1
    BY <2>2 DEF Tells
  <2>4. i = 1
    <3>1. SUFFICES ASSUME i # 1 PROVE FALSE
      OBVIOUS
    <3>2. 1 < i
      BY <1>1, <3>1
    <3>3. m.cmd < a + 1
      BY <1>1, <1>3, <2>3, <3>2 DEF Tells
    <3> QED
      BY <2>1, <3>3
  <2>5. m.cmd = a + 1
    BY <1>1, <2>3, <2>4
  <2>6. ASSUME NEW j \in DOMAIN t, t[j].type = "A" PROVE t[j].cmd \in (a + 1) + 1 .. h
    <3>1. j + 1 \in DOMAIN s /\ t[j] = s[j + 1] /\ 1 < j + 1
      BY <1>1
    <3>2. t[j].cmd \in a + 1 .. h /\ a + 1 < t[j].cmd
      BY <1>1, <1>3, <2>5, <2>6, <3>1 DEF Tells
    <3> QED
      BY <3>2
  <2>7. ASSUME NEW k \in (a + 1) + 1 .. h PROVE \E j \in DOMAIN t : t[j].type = "A" /\ t[j].cmd = k
    <3>1. k \in a + 1 .. h /\ k # a + 1
      OBVIOUS
    <3>2. PICK j \in DOMAIN s : s[j].type = "A" /\ s[j].cmd = k
      BY <3>1 DEF Tells
    <3>3. j # 1
      BY <1>1, <2>5, <3>1, <3>2
    <3> QED
      BY <1>1, <3>2, <3>3
  <2> QED
    BY <1>2, <2>1, <2>5, <2>6, <2>7 DEF Tells
<1>4. ASSUME m.type # "A" PROVE Tells(t, a, h)
  <2>1. \A j \in DOMAIN t : t[j].type = "A" => t[j].cmd \in a + 1 .. h
    BY <1>1 DEF Tells
  <2>2. ASSUME NEW k \in a + 1 .. h PROVE \E j \in DOMAIN t : t[j].type = "A" /\ t[j].cmd = k
    <3>1. PICK j \in DOMAIN s : s[j].type = "A" /\ s[j].cmd = k
      BY DEF Tells
    <3> QED
      BY <1>1, <1>4, <3>1
  <2> QED
    BY <1>2, <2>1, <2>2 DEF Tells
<1> QED
  BY <1>3, <1>4 DEF t, m

\* What is said after is no notification.
LEMMA TellsSilent ==
    ASSUME NEW s \in Seq(Msg), NEW t \in Seq(Msg), NEW a \in Nat, NEW h \in Nat, Tells(s, a, h),
           \A i \in DOMAIN t : t[i].type # "A"
    PROVE  Tells(s \o t, a, h)
<1>1. /\ \A i \in DOMAIN (s \o t) : IF i \in DOMAIN s THEN (s \o t)[i] = s[i]
                                    ELSE (s \o t)[i].type # "A"
      /\ \A i \in DOMAIN s : i \in DOMAIN (s \o t)
  <2>1. /\ DOMAIN (s \o t) = 1..(Len(s) + Len(t)) /\ DOMAIN s = 1..Len(s) /\ DOMAIN t = 1..Len(t)
        /\ Len(s) \in Nat /\ Len(t) \in Nat
        /\ \A i \in 1..(Len(s) + Len(t)) : (s \o t)[i] = IF i <= Len(s) THEN s[i] ELSE t[i - Len(s)]
    OBVIOUS
  <2>2. \A i \in 1..(Len(s) + Len(t)) : ~(i \in 1..Len(s)) => i - Len(s) \in 1..Len(t) /\ ~(i <= Len(s))
    BY <2>1
  <2> QED
    BY <2>1, <2>2
<1> QED
  BY <1>1 DEF Tells

\* The next notification is said.
LEMMA TellsMore ==
    ASSUME NEW s \in Seq(Msg), NEW a \in Nat, NEW h \in Nat, a <= h, Tells(s, a, h),
           NEW m \in Msg, m.type = "A", m.cmd = h + 1
    PROVE  Tells(s \o <<m>>, a, h + 1)
<1> DEFINE n == Len(s) + 1
           t == s \o <<m>>
<1>1. /\ DOMAIN t = 1..n /\ DOMAIN s = 1..(n - 1) /\ n \in Nat /\ n > 0
      /\ t[n] = m
      /\ \A i \in 1..(n - 1) : t[i] = s[i]
  <2>1. <<m>> \in Seq(Msg) /\ Len(<<m>>) = 1 /\ <<m>>[1] = m
    OBVIOUS
  <2> QED
    BY <2>1
<1> HIDE DEF n, t
<1>2. \A i \in DOMAIN t : i \in DOMAIN s \/ i = n
  BY <1>1
<1>3. \A i \in DOMAIN s : i \in DOMAIN t /\ i # n /\ t[i] = s[i] /\ ~(n < i)
  BY <1>1
<1>4. n \in DOMAIN t /\ t[n].type = "A" /\ t[n].cmd = h + 1 /\ ~(n < n)
  BY <1>1
<1>5. ASSUME NEW i \in DOMAIN s, s[i].type = "A" PROVE s[i].cmd < h + 1 /\ s[i].cmd \in a + 1 .. h + 1
  <2>1. s[i].cmd \in a + 1 .. h
    BY <1>5 DEF Tells
  <2> QED
    BY <2>1
<1>6. \A i, j \in DOMAIN t : i < j /\ t[i].type = "A" /\ t[j].type = "A" => t[i].cmd < t[j].cmd
  BY <1>2, <1>3, <1>4, <1>5 DEF Tells
<1>7. \A i \in DOMAIN t : t[i].type = "A" => t[i].cmd \in a + 1 .. h + 1
  <2>1. h + 1 \in a + 1 .. h + 1
    OBVIOUS
  <2> QED
    BY <1>2, <1>3, <1>4, <1>5, <2>1
<1>8. ASSUME NEW k \in a + 1 .. h + 1 PROVE \E i \in DOMAIN t : t[i].type = "A" /\ t[i].cmd = k
  <2>1. k = h + 1 \/ k \in a + 1 .. h
    OBVIOUS
  <2> QED
    BY <1>3, <1>4, <2>1 DEF Tells
<1> QED
  BY <1>6, <1>7, <1>8 DEF Tells, t

\* A stream that breaks off tells the first of what it would have told.
LEMMA TellsPrefix ==
    ASSUME NEW s \in Seq(Msg), NEW t \in Seq(Msg), NEW a \in Nat, NEW h \in Nat, a <= h,
           Tells(s \o t, a, h)
    PROVE  \E g \in a .. h : Tells(s, a, g)
<1> DEFINE told == {s[i].cmd : i \in {j \in DOMAIN s : s[j].type = "A"}}
           untold == {k \in a + 1 .. h : k \notin told}
           u == s \o t
<1>1. /\ \A i \in DOMAIN s : i \in DOMAIN u /\ u[i] = s[i]
      /\ \A i \in DOMAIN u : i \notin DOMAIN s => \A j \in DOMAIN s : j < i
      /\ \A i \in DOMAIN u : u[i].cmd \in Nat
  <2>1. u \in Seq(Msg) /\ DOMAIN u = 1..(Len(s) + Len(t)) /\ DOMAIN s = 1..Len(s)
        /\ Len(s) \in Nat /\ Len(t) \in Nat /\ \A i \in 1..Len(s) : u[i] = s[i]
    OBVIOUS
  <2>2. \A i \in DOMAIN u : u[i].cmd \in Nat
    <3>1. \A i \in DOMAIN u : u[i] \in Msg
      BY <2>1
    <3> QED
      BY <3>1 DEF Msg
  <2> HIDE DEF u
  <2> QED
    BY <2>1, <2>2
<1>2. Tells(u, a, h)
  OBVIOUS
<1> HIDE DEF u
<1>3. \A i, j \in DOMAIN s : i < j /\ s[i].type = "A" /\ s[j].type = "A" => s[i].cmd < s[j].cmd
  BY <1>1, <1>2 DEF Tells
<1>4. \A i \in DOMAIN s : s[i].type = "A" => s[i].cmd \in a + 1 .. h
  BY <1>1, <1>2 DEF Tells
<1>5. CASE untold = {}
  <2>0. \A k \in a + 1 .. h : \E i \in DOMAIN s : s[i].type = "A" /\ s[i].cmd = k
    BY <1>5
  <2>1. Tells(s, a, h)
    BY <1>3, <1>4, <2>0 DEF Tells
  <2>2. h \in a .. h
    OBVIOUS
  <2> QED
    BY <2>1, <2>2
<1>6. CASE untold # {}
  <2>1. untold \in SUBSET Nat
    OBVIOUS
  <2>2. PICK k \in untold : \A l \in untold : k <= l
    BY <1>6, <2>1, NatMin
  <2>3. k \in a + 1 .. h /\ k \notin told
    OBVIOUS
  <2>4. PICK i \in DOMAIN u : u[i].type = "A" /\ u[i].cmd = k
    BY <1>2, <2>3 DEF Tells
  <2>5. i \notin DOMAIN s
    BY <1>1, <2>3, <2>4
  <2>6. \A j \in DOMAIN s : s[j].type = "A" => s[j].cmd < k
    BY <1>1, <1>2, <2>4, <2>5 DEF Tells
  <2>7. ASSUME NEW l \in a + 1 .. k - 1 PROVE l \in told
    <3>1. l \in a + 1 .. h /\ ~(k <= l)
      BY <2>3
    <3> QED
      BY <2>2, <3>1
  <2>8. k - 1 \in a .. h
    BY <2>3
  <2>9. \A j \in DOMAIN s : s[j].type = "A" => s[j].cmd \in a + 1 .. k - 1
    BY <1>4, <2>3, <2>6
  <2>10. \A l \in a + 1 .. k - 1 : \E j \in DOMAIN s : s[j].type = "A" /\ s[j].cmd = l
    BY <2>7
  <2> QED
    BY <1>3, <2>8, <2>9, <2>10 DEF Tells
<1> QED
  BY <1>5, <1>6

\* Counting them says what NotifiedInOrder promises.
LEMMA NotesSaid == ASSUME NotesInv, Typed PROVE NotifiedInOrder
<1> DEFINE n == Len(notifies)
           told == {Wire[i].cmd : i \in Notifications}
<1>1. PICK h \in n .. notified : Tells(Wire, n, h) /\ (~Dead => h = notified)
  BY DEF NotesInv
<1>2. \A i, j \in Notifications : i < j => Wire[i].cmd < Wire[j].cmd
  BY <1>1 DEF Tells, Notifications
<1>3. told \subseteq n + 1 .. h
  BY <1>1 DEF Tells, Notifications
<1>4. \A k \in n + 1 .. h : k \in told
  BY <1>1 DEF Tells, Notifications
<1>5. told = n + 1 .. h
  BY <1>3, <1>4
<1> QED
  BY <1>1, <1>2, <1>5 DEF NotesInv, NotifiedInOrder

\* What is on the way to the client is messages.
LEMMA MessagesKnown ==
    ASSUME Typed PROVE Wire \in Seq(Msg) /\ inBuffer \in Seq(Msg) /\ toClient \in Seq(Msg)
<1>1. Replies(Len(asked)) \subseteq Msg
  BY DEF Replies
<1> QED
  BY <1>1, WireTyped

\* The client takes the next notification, or another message, or none.
LEMMA ClientNotes == ASSUME Typed, NotesInv, ClientWire PROVE NotesInv'
<1> DEFINE n == Len(notifies)
<1>1. PICK h \in n .. notified : Tells(Wire, n, h) /\ (~Dead => h = notified)
  BY DEF NotesInv
<1>2. /\ Wire \in Seq(Msg) /\ n \in Nat /\ h \in Nat /\ n <= h /\ h <= notified
      /\ notifies \in Seq(Nat) /\ notifies = [i \in DOMAIN notifies |-> i]
  <2>1. notifies \in Seq(Nat) /\ notified \in Nat
    BY DEF Typed, ClientTyped, ServerTyped
  <2>2. notifies = [i \in DOMAIN notifies |-> i]
    BY DEF NotesInv
  <2>3. n \in Nat
    BY <2>1
  <2> HIDE DEF n
  <2> QED
    BY <1>1, <2>1, <2>2, <2>3, MessagesKnown
<1>3. notified' = notified /\ (Dead' <=> Dead)
  BY DEF ClientWire, serverVars, Dead
<1>4. CASE Wire' = Wire /\ notifies' = notifies
  BY <1>1, <1>2, <1>3, <1>4 DEF NotesInv
<1>5. CASE Wire # <<>> /\ Wire' = Tail(Wire) /\ Head(Wire).type # "A" /\ notifies' = notifies
  <2>1. Tells(Wire', n, h)
    BY <1>1, <1>2, <1>5, TellsTail
  <2> QED
    BY <1>1, <1>2, <1>3, <1>5, <2>1 DEF NotesInv
<1>6. CASE Wire # <<>> /\ Wire' = Tail(Wire) /\ Head(Wire).type = "A"
           /\ notifies' = Append(notifies, Head(Wire).cmd)
  <2>1. Head(Wire).cmd = n + 1 /\ n + 1 <= h /\ Tells(Wire', n + 1, h)
    BY <1>1, <1>2, <1>6, TellsTail
  <2>2. notifies' = [i \in DOMAIN notifies' |-> i] /\ Len(notifies') = n + 1
    <3>1. ASSUME NEW s \in Seq(Nat), s = [i \in DOMAIN s |-> i]
          PROVE  Append(s, Len(s) + 1) = [i \in DOMAIN Append(s, Len(s) + 1) |-> i]
                 /\ Len(Append(s, Len(s) + 1)) = Len(s) + 1
      BY <3>1
    <3> QED
      BY <1>2, <1>6, <2>1, <3>1
  <2>3. h \in n + 1 .. notified
    BY <1>1, <1>2, <2>1
  <2> QED
    BY <1>1, <1>3, <2>1, <2>2, <2>3 DEF NotesInv
<1> QED
  BY <1>4, <1>5, <1>6 DEF ClientWire

\* A step that adds messages of no notification to the stream, or none.
LEMMA SilentNotes ==
    ASSUME Typed, NotesInv, UNCHANGED <<inBuffer, notifies, notified>>, ~Dead' => ~Dead,
           \/ UNCHANGED toClient
           \/ link = "up" /\ \E types, k : Says(types, k)
    PROVE  NotesInv'
<1> DEFINE n == Len(notifies)
<1>1. PICK h \in n .. notified : Tells(Wire, n, h) /\ (~Dead => h = notified)
  BY DEF NotesInv
<1>2. Wire \in Seq(Msg) /\ n \in Nat /\ h \in Nat
  <2>1. notifies \in Seq(Nat) /\ notified \in Nat
    BY DEF Typed, ClientTyped, ServerTyped
  <2>3. n \in Nat
    BY <2>1
  <2> HIDE DEF n
  <2> QED
    BY <1>1, <2>1, <2>3, MessagesKnown
<1>3. Tells(Wire', n, h)
  <2>1. CASE UNCHANGED toClient
    BY <1>1, <2>1 DEF Wire
  <2>2. CASE link = "up" /\ \E types, k : Says(types, k)
    <3>1. PICK types, k : Says(types, k)
      BY <2>2
    <3>2. types \in Seq(Spoken) /\ types \in Seq(Types) /\ k \in Nat /\ Answer(types, k)
      <4>1. Spoken \subseteq Types
        BY DEF Spoken
      <4>2. types \in Seq(Spoken) /\ k \in 0..Len(asked) /\ Answer(types, k)
        BY <3>1 DEF Says
      <4> QED
        BY <4>1, <4>2
    <3>3. Wire' = Wire \o Messages(types, k) /\ Messages(types, k) \in Seq(Msg)
      BY <2>2, <3>2, AnswerWire
    <3>4. \A i \in DOMAIN Messages(types, k) : Messages(types, k)[i].type # "A"
      <4>1. \A i \in DOMAIN types : types[i] \in Spoken
        BY <3>2
      <4>2. \A i \in DOMAIN types : types[i] # "A"
        BY <4>1 DEF Spoken
      <4> QED
        BY <4>2 DEF Messages, Message
    <3> QED
      BY <1>1, <1>2, <3>3, <3>4, TellsSilent
  <2> QED
    BY <2>1, <2>2
<1> QED
  BY <1>1, <1>3 DEF NotesInv

\* What is on the way is lost.
LEMMA BrokenNotes ==
    ASSUME Typed, NotesInv, UNCHANGED <<inBuffer, notifies, notified>>, Dead', toClient' = <<>>
    PROVE  NotesInv'
<1> DEFINE n == Len(notifies)
<1>1. PICK h \in n .. notified : Tells(Wire, n, h)
  BY DEF NotesInv
<1>2. inBuffer \in Seq(Msg) /\ toClient \in Seq(Msg) /\ n \in Nat /\ h \in Nat /\ notified \in Nat
  <2>1. notifies \in Seq(Nat) /\ notified \in Nat
    BY DEF Typed, ClientTyped, ServerTyped
  <2>3. n \in Nat
    BY <2>1
  <2> HIDE DEF n
  <2> QED
    BY <1>1, <2>1, <2>3, MessagesKnown
<1>3. n <= h /\ h <= notified
  BY <1>1, <1>2
<1>4. PICK g \in n .. h : Tells(inBuffer, n, g)
  BY <1>1, <1>2, <1>3, TellsPrefix DEF Wire
<1>5. Wire' = inBuffer
  BY <1>2 DEF Wire
<1>6. g \in n .. notified
  BY <1>2, <1>3, <1>4
<1> QED
  BY <1>4, <1>5, <1>6 DEF NotesInv

\* ProcessIncomingNotify says the next one.
LEMMA NotifyNotes ==
    ASSUME Typed, NotesInv, ProcessIncomingNotify, UNCHANGED clientVars PROVE NotesInv'
<1> DEFINE n == Len(notifies)
<1>1. PICK h \in n .. notified : Tells(Wire, n, h) /\ (~Dead => h = notified)
  BY DEF NotesInv
<1>2. Wire \in Seq(Msg) /\ n \in Nat /\ h \in Nat /\ notified \in Nat
  <2>1. notifies \in Seq(Nat) /\ notified \in Nat
    BY DEF Typed, ClientTyped, ServerTyped
  <2>3. n \in Nat
    BY <2>1
  <2> HIDE DEF n
  <2> QED
    BY <1>1, <2>1, <2>3, MessagesKnown
<1>3. /\ UNCHANGED <<inBuffer, notifies, link, srv>> /\ srv = "main"
      /\ notified' = notified + 1 /\ Answer(<<"A">>, notified + 1)
  BY DEF ProcessIncomingNotify, clientVars, parserVars
<1>4. CASE link = "cut"
  <2>1. Wire' = Wire /\ Dead'
    BY <1>3, <1>4 DEF Answer, Send, Wire, Dead
  <2>2. h \in n .. notified'
    BY <1>1, <1>2, <1>3
  <2> QED
    BY <1>1, <1>3, <2>1, <2>2 DEF NotesInv
<1>5. CASE link = "up"
  <2>1. h = notified
    BY <1>1, <1>3, <1>5 DEF Dead
  <2>2. <<"A">> \in Seq(Types) /\ notified + 1 \in Nat
    BY <1>2 DEF Types
  <2>3. Wire' = Wire \o Messages(<<"A">>, notified + 1)
    BY <1>3, <1>5, <2>2, AnswerWire
  <2>4. Messages(<<"A">>, notified + 1) = <<Message("A", notified + 1)>>
    BY DEF Messages
  <2>5. Message("A", notified + 1) \in Msg
    BY <2>2 DEF Message, Msg, Types
  <2>6. Message("A", notified + 1).type = "A" /\ Message("A", notified + 1).cmd = h + 1
    BY <2>1 DEF Message
  <2>7. n <= h
    BY <1>1, <1>2
  <2>8. Tells(Wire', n, h + 1)
    BY <1>1, <1>2, <2>3, <2>4, <2>5, <2>6, <2>7, TellsMore
  <2>9. h + 1 \in n .. notified' /\ h + 1 = notified'
    BY <1>2, <1>3, <2>1, <2>7
  <2> QED
    BY <1>3, <2>8, <2>9 DEF NotesInv
<1>6. link \in {"up", "cut"}
  BY DEF Typed, ServerTyped
<1> QED
  BY <1>4, <1>5, <1>6

\* Every step keeps the count.
LEMMA NotesStep == ASSUME Typed, NotesInv, [Next]_vars PROVE NotesInv'
<1>0. Dead => Dead'
  BY DeadStays
<1>1. CASE Application \/ LibpqStep
  BY <1>1, ClientWireStep, ClientNotes
<1>2. CASE Server \/ (CopyFails /\ UNCHANGED clientVars)
  <2>1. ServerStep \/ CopyFails
    BY <1>2 DEF Server
  <2>2. UNCHANGED <<inBuffer, notifies>>
    BY <1>2 DEF Server, clientVars, parserVars
  <2>3. /\ (\E types, k : Says(types, k)) \/ UNCHANGED toClient
        /\ UNCHANGED <<asked, link, notified>>
    BY <2>1, ServerSays
  <2>4. link # "up" => UNCHANGED toClient \/ \A types, k : ~Says(types, k)
    BY DEF Says, Answer, Send
  <2> QED
    BY <1>0, <2>2, <2>3, <2>4, SilentNotes
<1>3. CASE ProcessIncomingNotify /\ UNCHANGED clientVars
  BY <1>3, NotifyNotes
<1>4. CASE (ServerExits \/ LinkCut) /\ UNCHANGED clientVars
  <2>1. UNCHANGED <<inBuffer, notifies, notified>> /\ Dead' /\ link = "up"
    BY <1>4 DEF ServerExits, LinkCut, clientVars, parserVars, serverVars, Dead, Typed, ServerTyped
  <2>2. CASE Answer(<<"E">>, Nobody)
    <3>1. <<"E">> \in Seq(Spoken) /\ Nobody \in 0..Len(asked)
      BY DEF Spoken, Types, Nobody, Typed, ServerTyped
    <3>2. Says(<<"E">>, Nobody)
      BY <2>2, <3>1 DEF Says, About, RowsDescribed
    <3> QED
      BY <2>1, <3>2, SilentNotes
  <2>3. CASE UNCHANGED toClient
    BY <2>1, <2>3, SilentNotes
  <2>4. CASE toClient' = <<>>
    BY <2>1, <2>4, BrokenNotes
  <2>5. Answer(<<"E">>, Nobody) \/ UNCHANGED toClient \/ toClient' = <<>>
    BY <1>4 DEF ServerExits, LinkCut
  <2> QED
    BY <2>2, <2>3, <2>4, <2>5
<1>5. CASE UNCHANGED vars
  <2>1. UNCHANGED <<inBuffer, notifies, notified, toClient>>
    BY <1>5 DEF vars, clientVars, parserVars, serverVars, wireVars
  <2> QED
    BY <1>0, <2>1, SilentNotes
<1> QED
  BY <1>1, <1>2, <1>3, <1>4, <1>5 DEF Next

\* It starts at nothing.
LEMMA NotesInit == ASSUME Init PROVE NotesInv
<1>1. Wire = <<>> /\ notifies = <<>> /\ notified = 0
  BY DEF Init, BackendInit, ClientInit, Wire
<1>2. Tells(<<>>, 0, 0)
  BY DEF Tells
<1> QED
  BY <1>1, <1>2 DEF NotesInv

\* No notification is lost, doubled or overtaken, whatever libpq discards and
\* in whatever state it finds it (getNotify, pqParseInput3, getCopyDataMessage,
\* pqHandleSendFailure); a connection that dies keeps the first of them.
THEOREM NotificationsInOrder == Spec => []NotifiedInOrder
<1>1. Init => Typed /\ NotesInv
  BY TypedInit, NotesInit
<1>2. (Typed /\ NotesInv) /\ [Next]_vars => (Typed /\ NotesInv)'
  BY TypedStep, NotesStep
<1>3. Typed /\ NotesInv => NotifiedInOrder
  BY NotesSaid
<1> QED
  BY <1>1, <1>2, <1>3, PTL DEF Spec

-----------------------------------------------------------------------------
(* What is left on a dead connection, which no round describes.            *)

\* A closed socket has nothing more to read.
BadEmpty == status = "BAD" => toClient = <<>>

\* What may come to a client that waits for nothing.
Quiet(m) == m.type = "A" \/ (m.type = "E" /\ m.cmd = Nobody)
QuietFrom(s, n) == \A i \in DOMAIN s : i > n => Quiet(s[i])

\* Nothing but that is left when a query is over, whether its end was parsed
\* or is still to come.
QuietEnd ==
    /\ asyncStatus = "IDLE" => QuietFrom(Wire, 0)
    /\ \A n \in DOMAIN Wire : Wire[n].type = "Z" => QuietFrom(Wire, n)

\* The client closes its socket when nothing more is to be read.
LEMMA ClientEmpties ==
    ASSUME Application \/ LibpqStep
    PROVE  \/ toClient' = <<>>
           \/ UNCHANGED <<status, toClient>>
           \/ status = "OK" /\ UNCHANGED status
           \/ status = "BAD" /\ UNCHANGED toClient
<1>1. CASE Application
  <2>1. ASSUME NEW c \in Commands, PQexec(c) \/ PQsendQuery(c)
        PROVE  toClient' = <<>> \/ UNCHANGED <<status, toClient>>
    BY <2>1 DEF PQexec, PQsendQuery, Sends, SendFails, Refuses, wireVars
  <2>2. CASE PQgetResult \/ PQputCopyData \/ PQputCopyEnd \/ PQgetCopyData
    BY <2>2 DEF PQgetResult, PQputCopyData, PQputCopyEnd, PQgetCopyData, wireVars
  <2>3. CASE PQconsumeInput
    BY <2>3 DEF PQconsumeInput, ReadFails
  <2> QED
    BY <1>1, <2>1, <2>2, <2>3 DEF Application
<1>2. CASE ParseMessage \/ GetResultReturns \/ GetResultNull \/ ExecStartDiscards \/ ParseInputReturns
  BY <1>2 DEF ParseMessage, GetResultReturns, GetResultNull, ExecStartDiscards, ParseInputReturns, wireVars
<1>3. CASE GetResultFails \/ GetResultReads
  BY <1>3 DEF GetResultFails, ReadFails, GetResultReads, wireVars
<1>4. CASE ExecSends
  BY <1>4 DEF ExecSends, Sends, SendFails, Refuses
<1>5. CASE GetCopyDataStep
  BY <1>5 DEF GetCopyDataStep, ReadFails
<1> QED
  BY <1>1, <1>2, <1>3, <1>4, <1>5 DEF LibpqStep

\* A dead server says nothing more.
LEMMA DeadSilent ==
    ASSUME Typed, Dead, ServerStep \/ CopyFails \/ ProcessIncomingNotify
    PROVE  UNCHANGED toClient
<1>1. CASE ServerStep \/ CopyFails
  <2>1. link = "cut"
    BY <1>1, ServerSays DEF Dead
  <2> QED
    BY <1>1, <2>1, ServerSays DEF Says, Answer, Send
<1>2. CASE ProcessIncomingNotify
  BY <1>2 DEF ProcessIncomingNotify, Dead, Answer, Send
<1> QED
  BY <1>1, <1>2

\* So a closed socket stays empty.
LEMMA BadEmptyStep == ASSUME Typed, BadEmpty, [Next]_vars PROVE BadEmpty'
<1>1. CASE Application \/ LibpqStep
  BY <1>1, ClientEmpties DEF BadEmpty
<1>2. CASE /\ ServerStep \/ CopyFails \/ ProcessIncomingNotify
           /\ UNCHANGED clientVars
  BY <1>2, DeadSilent DEF BadEmpty, Typed, ClientTyped, clientVars
<1>3. CASE (ServerExits \/ LinkCut) /\ UNCHANGED clientVars
  BY <1>3 DEF BadEmpty, Typed, ClientTyped, clientVars, ServerExits, LinkCut
<1>4. CASE UNCHANGED vars
  BY <1>4 DEF vars, wireVars, clientVars, BadEmpty
<1> QED
  BY <1>1, <1>2, <1>3, <1>4 DEF Next, Server

\* The client goes idle at the end of a query, or when nothing can come.
LEMMA GoesIdle ==
    ASSUME Typed, BadEmpty, Application \/ LibpqStep, asyncStatus' = "IDLE"
    PROVE  \/ asyncStatus = "IDLE"
           \/ Wire = <<>>
           \/ Wire # <<>> /\ Head(Wire).type = "Z" /\ Wire' = Tail(Wire)
<1>1. CASE ParseMessage
  <2> DEFINE m == Head(inBuffer)
  <2>1. inBuffer # <<>> /\ UNCHANGED toClient /\ (getNotify(m) \/ ParseIdle(m) \/ ParseBusy(m))
    BY <1>1 DEF ParseMessage, CanParse, wireVars
  <2>2. CASE ParseBusy(m)
    <3>1. CASE ParseReadyForQuery(m)
      BY <2>1, <3>1, ConsumeWire DEF ParseReadyForQuery
    <3>2. CASE ParseRowDescription(m)
      BY <2>2, <3>2 DEF ParseBusy, ParseRowDescription
    <3>3. CASE ParseEnd(m) \/ ParseDataRow(m) \/ getCopyStart(m) \/ ParseParameterDescription(m)
               \/ ParseNothing(m)
      BY <2>2, <3>3 DEF ParseBusy, ParseEnd, ParseDataRow, getCopyStart, ParseParameterDescription,
                        ParseNothing
    <3> QED
      BY <2>2, <3>1, <3>2, <3>3 DEF ParseBusy
  <2> QED
    BY <2>1, <2>2 DEF getNotify, ParseIdle
<1>2. CASE GetResultFails
  <2>1. inBuffer = <<>> /\ toClient = <<>>
    BY <1>2 DEF GetResultFails, InGetResult, CanParse, ReadFails, BadEmpty
  <2> QED
    BY <2>1 DEF Wire
<1>3. CASE GetResultReads \/ GetResultReturns \/ GetResultNull \/ ExecStartDiscards \/ ParseInputReturns
  BY <1>3 DEF GetResultReads, GetResultReturns, GetResultNull, ExecStartDiscards, ParseInputReturns,
              parserVars
<1>4. CASE ExecSends
  BY <1>4 DEF ExecSends
<1>5. CASE GetCopyDataStep
  BY <1>5 DEF GetCopyDataStep
<1>6. CASE Application
  <2>1. CASE \E c \in Commands : PQexec(c) \/ PQsendQuery(c)
    BY <2>1 DEF PQexec, PQsendQuery, Sends, SendFails, Refuses, parserVars
  <2>2. CASE PQgetResult \/ PQputCopyData \/ PQputCopyEnd \/ PQgetCopyData \/ PQconsumeInput
    BY <2>2 DEF PQgetResult, PQputCopyData, PQputCopyEnd, PQgetCopyData, PQconsumeInput, parserVars
  <2> QED
    BY <1>6, <2>1, <2>2 DEF Application
<1> QED
  BY <1>1, <1>2, <1>3, <1>4, <1>5, <1>6 DEF LibpqStep

\* The head is taken off what is quiet.
LEMMA QuietTail ==
    ASSUME NEW s \in Seq(Msg), s # <<>>, NEW n \in Nat, QuietFrom(s, n)
    PROVE  QuietFrom(Tail(s), n) /\ (n > 0 => QuietFrom(Tail(s), n - 1))
<1>1. \A i \in DOMAIN Tail(s) : i + 1 \in DOMAIN s /\ Tail(s)[i] = s[i + 1] /\ i \in Nat
  OBVIOUS
<1>2. \A i \in DOMAIN Tail(s) : (i > n => i + 1 > n) /\ (i > n - 1 => i + 1 > n)
  BY <1>1
<1> QED
  BY <1>1, <1>2 DEF QuietFrom

\* The stream loses its first message, and the client stays as it is or has
\* parsed the end of the query.
LEMMA QuietEndTail ==
    ASSUME Typed, QuietEnd, Wire # <<>>, Wire' = Tail(Wire),
           asyncStatus' = "IDLE" => asyncStatus = "IDLE" \/ Head(Wire).type = "Z"
    PROVE  QuietEnd'
<1>1. Wire \in Seq(Msg)
  BY MessagesKnown
<1>2. ASSUME asyncStatus' = "IDLE" PROVE QuietFrom(Wire', 0)
  <2>1. CASE asyncStatus = "IDLE"
    BY <1>1, <2>1, QuietTail DEF QuietEnd
  <2>2. CASE Head(Wire).type = "Z"
    <3>1. 1 \in DOMAIN Wire /\ Wire[1].type = "Z" /\ 1 - 1 = 0
      BY <1>1, <2>2
    <3> QED
      BY <1>1, <3>1, QuietTail DEF QuietEnd
  <2> QED
    BY <1>2, <2>1, <2>2
<1>3. ASSUME NEW n \in DOMAIN Wire', Wire'[n].type = "Z" PROVE QuietFrom(Wire', n)
  <2>1. n + 1 \in DOMAIN Wire /\ Wire[n + 1].type = "Z" /\ n + 1 \in Nat /\ n + 1 > 0 /\ (n + 1) - 1 = n
    BY <1>1, <1>3
  <2> QED
    BY <1>1, <2>1, QuietTail DEF QuietEnd
<1> QED
  BY <1>2, <1>3 DEF QuietEnd, QuietFrom

\* A round leaves the stream so.
LEMMA RoundQuiet == ASSUME Typed, Round, ~Dead PROVE QuietEnd
<1>1. \A i \in DOMAIN Wire : i \in Int
  BY MessagesKnown
<1>2. CASE asyncStatus = "IDLE"
  BY <1>2 DEF Round, Rests, OfTypes, QuietEnd, QuietFrom, Quiet
<1>3. CASE asyncStatus # "IDLE" /\ OfTypes(Wire, Said)
  BY <1>3, SaidTypes DEF OfTypes, QuietEnd
<1>4. CASE asyncStatus # "IDLE" /\ ReadyLast(Wire, Said)
  <2>1. PICK n \in DOMAIN Wire :
            /\ Wire[n].type = "Z"
            /\ \A i \in DOMAIN Wire : i < n => Wire[i].type \in Said
            /\ \A i \in DOMAIN Wire : i > n => Wire[i].type = "A"
    BY <1>4 DEF ReadyLast
  <2>2. ASSUME NEW i \in DOMAIN Wire, Wire[i].type = "Z" PROVE i = n
    <3>1. ~(i < n) /\ ~(i > n)
      BY <2>1, <2>2, SaidTypes
    <3> QED
      BY <1>1, <3>1
  <2>3. QuietFrom(Wire, n)
    BY <2>1 DEF QuietFrom, Quiet
  <2> QED
    BY <1>4, <2>2, <2>3 DEF QuietEnd
<1> QED
  BY <1>2, <1>3, <1>4 DEF Round, Requested, Runs, Ends, Ended

\* When the connection dies, or after, nothing comes but the word of a server
\* that ends.
LEMMA QuietEndBreaks ==
    ASSUME Typed, QuietEnd, UNCHANGED <<inBuffer, asyncStatus>>,
           \/ UNCHANGED toClient \/ toClient' = <<>>
           \/ link = "up" /\ Answer(<<"E">>, Nobody)
    PROVE  QuietEnd'
<1>0. inBuffer \in Seq(Msg) /\ toClient \in Seq(Msg)
  BY MessagesKnown
<1>1. CASE UNCHANGED toClient
  BY <1>1 DEF QuietEnd, Wire, QuietFrom
<1>2. ASSUME NEW s \in Seq(Msg), NEW t \in Seq(Msg), NEW n \in Nat, QuietFrom(s \o t, n)
      PROVE  QuietFrom(s, n)
  <2>1. \A i \in DOMAIN s : i \in DOMAIN (s \o t) /\ (s \o t)[i] = s[i]
    OBVIOUS
  <2> QED
    BY <1>2, <2>1 DEF QuietFrom
<1>3. CASE toClient' = <<>>
  <2>1. Wire' = inBuffer
    BY <1>0, <1>3 DEF Wire
  <2>2. \A i \in DOMAIN inBuffer : i \in DOMAIN Wire /\ Wire[i] = inBuffer[i] /\ i \in Nat
    BY <1>0 DEF Wire
  <2>3. \A n \in Nat : QuietFrom(Wire, n) => QuietFrom(inBuffer, n)
    BY <1>0, <1>2 DEF Wire
  <2>4. asyncStatus = "IDLE" => QuietFrom(inBuffer, 0)
    BY <2>3 DEF QuietEnd
  <2>5. \A n \in DOMAIN inBuffer : inBuffer[n].type = "Z" => QuietFrom(inBuffer, n)
    BY <2>2, <2>3 DEF QuietEnd
  <2> QED
    BY <2>1, <2>4, <2>5 DEF QuietEnd, QuietFrom
<1>4. CASE link = "up" /\ Answer(<<"E">>, Nobody)
  <2> DEFINE m == Message("E", Nobody)
  <2>1. <<"E">> \in Seq(Types) /\ Nobody \in Nat
    BY DEF Types, Nobody
  <2>2. Wire' = Wire \o Messages(<<"E">>, Nobody)
    BY <1>4, <2>1, AnswerWire
  <2>3. Messages(<<"E">>, Nobody) = <<m>>
    BY DEF Messages
  <2>4. Quiet(m) /\ m.type # "Z"
    BY DEF Quiet, Message
  <2> HIDE DEF m
  <2>5. Wire \in Seq(Msg)
    BY MessagesKnown
  <2>6. /\ \A i \in DOMAIN Wire' : i \in DOMAIN Wire \/ Wire'[i] = m
        /\ \A i \in DOMAIN Wire : Wire'[i] = Wire[i]
    BY <2>2, <2>3, <2>5
  <2>7. \A n \in Nat : QuietFrom(Wire, n) => QuietFrom(Wire', n)
    BY <2>4, <2>6 DEF QuietFrom
  <2>8. \A n \in DOMAIN Wire : n \in Nat
    BY <2>5
  <2>9. ASSUME NEW n \in DOMAIN Wire', Wire'[n].type = "Z" PROVE QuietFrom(Wire', n)
    BY <2>4, <2>6, <2>7, <2>8, <2>9 DEF QuietEnd
  <2>10. asyncStatus' = "IDLE" => QuietFrom(Wire', 0)
    BY <2>7 DEF QuietEnd
  <2> QED
    BY <2>9, <2>10 DEF QuietEnd, QuietFrom
<1> QED
  BY <1>1, <1>3, <1>4

\* Nothing the server does itself makes it dead.
LEMMA ServerLives ==
    ASSUME Typed, ServerStep \/ CopyFails \/ ProcessIncomingNotify, ~Dead PROVE ~Dead'
<1>1. CASE ReadyForQuery \/ ReadQuery \/ ReadExecute \/ ReadCopyLeftover \/ ProcessIncomingNotify
  BY <1>1 DEF ReadyForQuery, ReadQuery, ReadExecute, ReadCopyLeftover, Reads, Starts, Skips, Dead,
              ProcessIncomingNotify
<1>2. CASE ReadParseBindDescribe \/ ReadSync
  BY <1>2 DEF ReadParseBindDescribe, ReadSync, Reads, Skips, Fails, Dead
<1>3. CASE RunStatement \/ ReceiveCopyBegin \/ CopyFails
  BY <1>3 DEF RunStatement, ReceiveCopyBegin, CopyFails, Fails, Completes, Dead
<1>4. CASE CopyGetData
  BY <1>4 DEF CopyGetData, Fails, Completes, Dead
<1> QED
  BY <1>1, <1>2, <1>3, <1>4 DEF ServerStep

\* On a dead connection the stream stays so to its end.
LEMMA QuietEndStep ==
    ASSUME Typed, BadEmpty, QuietEnd, Dead', [Next]_vars
    PROVE  QuietEnd'
<1>2. CASE Dead' /\ (Application \/ LibpqStep)
  <2>1. CASE Wire' = Wire /\ (asyncStatus' = "IDLE" => asyncStatus = "IDLE")
    BY <2>1 DEF QuietEnd, QuietFrom
  <2>2. CASE Wire' = Wire /\ Wire = <<>>
    BY <2>2 DEF QuietEnd, QuietFrom
  <2>3. CASE Wire # <<>> /\ Wire' = Tail(Wire)
    <3>1. asyncStatus' = "IDLE" => asyncStatus = "IDLE" \/ Head(Wire).type = "Z"
      BY <1>2, <2>3, GoesIdle
    <3> QED
      BY <2>3, <3>1, QuietEndTail
  <2>4. CASE Wire' = Wire /\ Wire # <<>> /\ Wire' = Tail(Wire)
    BY <2>4, <2>3
  <2> QED
    BY <1>2, <2>1, <2>2, <2>3, <2>4, GoesIdle, ClientWireStep DEF ClientWire
<1>3. CASE Dead' /\ (ServerStep \/ CopyFails \/ ProcessIncomingNotify) /\ UNCHANGED clientVars
  <2>1. Dead
    BY <1>3, ServerLives
  <2>2. UNCHANGED <<inBuffer, asyncStatus>>
    BY <1>3 DEF clientVars, parserVars
  <2> QED
    BY <1>3, <2>1, <2>2, DeadSilent, QuietEndBreaks
<1>4. CASE (ServerExits \/ LinkCut) /\ UNCHANGED clientVars
  <2>1. UNCHANGED <<inBuffer, asyncStatus>> /\ link = "up"
    BY <1>4 DEF clientVars, parserVars, ServerExits, LinkCut, Dead, Typed, ServerTyped
  <2>2. Answer(<<"E">>, Nobody) \/ UNCHANGED toClient \/ toClient' = <<>>
    BY <1>4 DEF ServerExits, LinkCut
  <2> QED
    BY <2>1, <2>2, QuietEndBreaks
<1>5. CASE UNCHANGED vars
  BY <1>5 DEF vars, wireVars, clientVars, parserVars, QuietEnd, QuietFrom, Wire
<1> QED
  BY <1>2, <1>3, <1>4, <1>5 DEF Next, Server

-----------------------------------------------------------------------------
(* Rows come after their description.                                      *)

\* In s, a message of type y comes right after one of type x.
Follow(s, x, y) == \A i \in DOMAIN s : i > 1 /\ s[i].type = y => s[i - 1].type = x

\* The head is taken off.
LEMMA FollowTail ==
    ASSUME NEW s \in Seq(Msg), s # <<>>, NEW x, NEW y, Follow(s, x, y)
    PROVE  Follow(Tail(s), x, y)
           /\ (Tail(s) # <<>> /\ Head(Tail(s)).type = y => Head(s).type = x)
<1>1. /\ \A i \in DOMAIN Tail(s) : i + 1 \in DOMAIN s /\ Tail(s)[i] = s[i + 1] /\ i + 1 > 1
      /\ \A i \in DOMAIN Tail(s) : i > 1 => Tail(s)[i - 1] = s[(i + 1) - 1]
  OBVIOUS
<1>2. Follow(Tail(s), x, y)
  BY <1>1 DEF Follow
<1>3. ASSUME Tail(s) # <<>>, Head(Tail(s)).type = y PROVE Head(s).type = x
  <2>1. 2 \in DOMAIN s /\ s[2] = Head(Tail(s)) /\ s[1] = Head(s) /\ 2 > 1 /\ 2 - 1 = 1
    BY <1>3
  <2> QED
    BY <1>3, <2>1 DEF Follow
<1> QED
  BY <1>2, <1>3

\* More is said.
LEMMA FollowConcat ==
    ASSUME NEW s \in Seq(Msg), NEW t \in Seq(Msg), NEW x, NEW y, Follow(s, x, y), Follow(t, x, y),
           s # <<>> /\ t # <<>> /\ Head(t).type = y => s[Len(s)].type = x
    PROVE  Follow(s \o t, x, y)
<1>1. /\ DOMAIN (s \o t) = 1..(Len(s) + Len(t)) /\ DOMAIN s = 1..Len(s) /\ DOMAIN t = 1..Len(t)
      /\ Len(s) \in Nat /\ Len(t) \in Nat
      /\ \A i \in 1..Len(s) : (s \o t)[i] = s[i]
      /\ \A i \in 1..(Len(s) + Len(t)) : i > Len(s) => (s \o t)[i] = t[i - Len(s)]
  OBVIOUS
<1> SUFFICES ASSUME NEW i \in DOMAIN (s \o t), i > 1, (s \o t)[i].type = y
             PROVE  (s \o t)[i - 1].type = x
  BY DEF Follow
<1>2. CASE i <= Len(s)
  <2>1. i \in DOMAIN s /\ i - 1 \in 1..Len(s)
    BY <1>1, <1>2
  <2>2. (s \o t)[i] = s[i] /\ (s \o t)[i - 1] = s[i - 1]
    BY <1>1, <2>1
  <2> QED
    BY <2>1, <2>2 DEF Follow
<1>3. CASE i = Len(s) + 1
  <2>1. Len(s) \in 1..Len(s) /\ i - 1 = Len(s) /\ i - Len(s) = 1 /\ i > Len(s) /\ 1 \in DOMAIN t
    BY <1>1, <1>3
  <2>2. s # <<>> /\ t # <<>> /\ (s \o t)[i] = t[1] /\ (s \o t)[i - 1] = s[Len(s)]
    BY <1>1, <2>1
  <2>3. Head(t) = t[1]
    BY <2>2
  <2> QED
    BY <2>2, <2>3
<1>4. CASE i > Len(s) + 1
  <2>1. /\ i - Len(s) \in DOMAIN t /\ i - Len(s) > 1 /\ i > Len(s) /\ i - 1 > Len(s)
        /\ i - 1 \in 1..(Len(s) + Len(t)) /\ (i - 1) - Len(s) = (i - Len(s)) - 1
    BY <1>1, <1>4
  <2>2. (s \o t)[i] = t[i - Len(s)] /\ (s \o t)[i - 1] = t[(i - Len(s)) - 1]
    BY <1>1, <2>1
  <2> QED
    BY <2>1, <2>2 DEF Follow
<1> QED
  BY <1>1, <1>2, <1>3, <1>4

\* The end is cut off.
LEMMA FollowPrefix ==
    ASSUME NEW s \in Seq(Msg), NEW t \in Seq(Msg), NEW x, NEW y, Follow(s \o t, x, y)
    PROVE  Follow(s, x, y) /\ (s # <<>> => s \o t # <<>> /\ Head(s \o t) = Head(s))
<1>1. /\ \A i \in DOMAIN s : i \in DOMAIN (s \o t) /\ (s \o t)[i] = s[i]
      /\ \A i \in DOMAIN s : i > 1 => (s \o t)[i - 1] = s[i - 1]
      /\ s # <<>> => s \o t # <<>> /\ Head(s \o t) = Head(s)
  OBVIOUS
<1> QED
  BY <1>1 DEF Follow

\* The result under construction takes rows.
Rows == asyncStatus = "BUSY" /\ result.status = "TUPLES_OK"

\* A row that comes finds such a result: the message before it is, or was, its
\* description.
RowsFit ==
    /\ Follow(Wire, "T", "D")
    /\ Wire # <<>> /\ Head(Wire).type = "D" => Rows
    /\ \A i \in DOMAIN Wire : Wire[i].type = "D" => queryclass \in {"SIMPLE", "EXTENDED"}

\* The last the server said is a description.
Described == IF Wire # <<>> THEN Wire[Len(Wire)].type = "T" ELSE Rows

\* When an Execute is read, the rows were described; and so they are as long
\* as it runs.
Told ==
    /\ srv = "main"
    /\ ~ignore_till_sync => xact # Nobody /\ (asked[Sent].stmts = <<"rows">> => Described)

\* An Execute comes right after its Describe.
ExecutesTold ==
    ~Dead =>
        /\ Follow(toServer, "D", "E")
        /\ toServer # <<>> /\ Head(toServer).type = "E" => Told
        /\ srv = "query" /\ queryclass = "EXTENDED" /\ Running = "rows" => Described

\* What a step of the client does to the rows.
ClientRows ==
    /\ queryclass' = queryclass \/ asyncStatus = "IDLE"
    /\ \/ /\ Wire' = Wire
          /\ Rows => \/ Rows'
                     \/ Wire # <<>> /\ Head(Wire).type = "T"
                     \/ Wire = <<>> /\ Dead
       \/ /\ Wire # <<>> /\ Wire' = Tail(Wire)
          /\ Head(Wire).type = "T" =>
                 Rows' \/ queryclass = "DESCRIBE" \/ asyncStatus = "IDLE"

\* The parser, on a description and on what is none.
LEMMA ParseRows == ASSUME Typed, ParseMessage PROVE ClientRows
<1> DEFINE m == Head(inBuffer)
<1>1. /\ inBuffer # <<>> /\ UNCHANGED <<toClient, queryclass>>
      /\ getNotify(m) \/ ParseIdle(m) \/ ParseBusy(m)
  BY DEF ParseMessage, CanParse, wireVars
<1>2. ASSUME Consume, m.type = "T" => Rows' \/ queryclass = "DESCRIBE" \/ asyncStatus = "IDLE"
      PROVE  ClientRows
  BY <1>1, <1>2, ConsumeWire DEF ClientRows
<1>3. CASE getNotify(m) \/ ParseIdle(m)
  BY <1>2, <1>3 DEF getNotify, ParseIdle
<1>4. CASE ParseBusy(m) /\ ParseRowDescription(m)
  <2>1. CASE result = NoResult
    <3>1. /\ Consume /\ UNCHANGED asyncStatus /\ asyncStatus = "BUSY"
          /\ result' = Result("TUPLES_OK", {m.cmd})
      BY <1>4, <2>1 DEF ParseBusy, ParseRowDescription, Build
    <3> QED
      BY <1>2, <3>1 DEF Rows, Result
  <2>2. CASE result # NoResult
    <3>1. Wire' = Wire /\ m.type = "T"
      BY <1>1, <1>4, <2>2 DEF ParseRowDescription, Wire
    <3>2. inBuffer \in Seq(Msg) /\ toClient \in Seq(Msg)
      BY MessagesKnown
    <3>3. Wire # <<>> /\ Head(Wire) = m
      BY <1>1, <3>2 DEF Wire
    <3> QED
      BY <1>1, <3>1, <3>3 DEF ClientRows
  <2> QED
    BY <2>1, <2>2
<1>5. CASE ParseEnd(m)
  <2>1. Consume /\ (m.type = "T" => queryclass = "DESCRIBE")
    BY <1>5 DEF ParseEnd
  <2> QED
    BY <1>2, <2>1
<1>6. CASE ParseReadyForQuery(m) \/ ParseDataRow(m) \/ getCopyStart(m) \/ ParseParameterDescription(m)
           \/ ParseNothing(m)
  <2>1. Consume /\ m.type # "T"
    BY <1>6 DEF ParseReadyForQuery, ParseDataRow, getCopyStart, ParseParameterDescription, ParseNothing
  <2> QED
    BY <1>2, <2>1
<1> QED
  BY <1>1, <1>3, <1>4, <1>5, <1>6 DEF ParseBusy

\* Every step of the client deals with the rows in this way.
LEMMA ClientRowsStep == ASSUME Typed, BadEmpty, Application \/ LibpqStep PROVE ClientRows
<1>1. ASSUME Wire' = Wire, (asyncStatus' = asyncStatus /\ result' = result) \/ asyncStatus # "BUSY",
             queryclass' = queryclass \/ asyncStatus = "IDLE"
      PROVE  ClientRows
  BY <1>1 DEF ClientRows, Rows
<1>2. ASSUME UNCHANGED <<inBuffer, toClient>> PROVE Wire' = Wire
  BY <1>2 DEF Wire
<1>3. ASSUME inBuffer' = inBuffer \o toClient, toClient' = <<>> PROVE Wire' = Wire
  <2>1. inBuffer \o toClient \in Seq(Replies(Len(asked)))
    BY WireTyped DEF Wire
  <2> QED
    BY <1>3, <2>1, ConcatEmptySeq DEF Wire
<1>4. CASE ParseMessage
  BY <1>4, ParseRows
<1>5. CASE GetResultFails
  <2>1. inBuffer = <<>> /\ toClient = <<>> /\ Dead
    BY <1>5 DEF GetResultFails, InGetResult, CanParse, ReadFails, BadEmpty, Typed, ClientTyped
  <2>2. UNCHANGED <<inBuffer, toClient, queryclass>>
    BY <1>5 DEF GetResultFails, wireVars
  <2> QED
    BY <1>2, <2>1, <2>2 DEF Wire, ClientRows
<1>6. CASE GetResultReads
  BY <1>1, <1>6, ArrivesWire DEF GetResultReads
<1>7. CASE GetResultReturns \/ ExecStartDiscards
  BY <1>1, <1>2, <1>7 DEF GetResultReturns, ExecStartDiscards, ResultReady, CopyStatuses, wireVars
<1>8. CASE GetResultNull \/ ParseInputReturns
  BY <1>1, <1>2, <1>8 DEF GetResultNull, ParseInputReturns, wireVars, parserVars
<1>9. CASE ExecSends
  <2>1. asyncStatus = "IDLE"
    BY <1>9 DEF ExecSends
  <2>2. UNCHANGED <<inBuffer, toClient>> \/ (inBuffer' = inBuffer \o toClient /\ toClient' = <<>>)
    BY <1>9 DEF ExecSends, Sends, SendFails, Refuses
  <2> QED
    BY <1>1, <1>2, <1>3, <2>1, <2>2
<1>10. CASE GetCopyDataStep
  <2>1. UNCHANGED <<queryclass, result>>
    BY <1>10 DEF GetCopyDataStep
  <2>2. CASE Arrives /\ UNCHANGED asyncStatus
    BY <1>1, <2>1, <2>2, ArrivesWire
  <2>3. CASE UNCHANGED <<asyncStatus, inBuffer, toClient>>
    BY <1>1, <1>2, <2>1, <2>3
  <2>4. CASE inBuffer # <<>> /\ Head(inBuffer).type \in {"A", "d"} /\ Consume /\ UNCHANGED toClient
    BY <2>1, <2>4, ConsumeWire DEF ClientRows
  <2>5. CASE asyncStatus' = "BUSY" /\ UNCHANGED <<inBuffer, toClient>>
    BY <1>2, <2>1, <2>5 DEF ClientRows, Rows
  <2> QED
    BY <1>10, <2>2, <2>3, <2>4, <2>5 DEF GetCopyDataStep
<1>11. CASE Application
  <2>1. ASSUME NEW c \in Commands, PQexec(c) PROVE ClientRows
    BY <1>1, <1>2, <2>1 DEF PQexec, wireVars, parserVars
  <2>2. ASSUME NEW c \in Commands, PQsendQuery(c) PROVE ClientRows
    <3>1. CASE Sends(c) \/ SendFails(c)
      <4>1. asyncStatus = "IDLE"
        BY <3>1 DEF Sends, SendFails
      <4>2. UNCHANGED <<inBuffer, toClient>> \/ (inBuffer' = inBuffer \o toClient /\ toClient' = <<>>)
        BY <3>1 DEF Sends, SendFails
      <4> QED
        BY <1>1, <1>2, <1>3, <4>1, <4>2
    <3>2. CASE Refuses
      BY <1>1, <1>2, <3>2 DEF Refuses
    <3> QED
      BY <2>2, <3>1, <3>2 DEF PQsendQuery
  <2>3. CASE PQgetResult \/ PQputCopyData \/ PQputCopyEnd \/ PQgetCopyData
    BY <1>1, <1>2, <2>3 DEF PQgetResult, PQputCopyData, PQputCopyEnd, PQgetCopyData, wireVars, parserVars
  <2>4. CASE PQconsumeInput
    BY <1>1, <1>2, <2>4, ArrivesWire DEF PQconsumeInput
  <2> QED
    BY <1>11, <2>1, <2>2, <2>3, <2>4 DEF Application
<1> QED
  BY <1>4, <1>5, <1>6, <1>7, <1>8, <1>9, <1>10, <1>11 DEF LibpqStep

\* Hence the rows that follow fit.
LEMMA ClientRowsFit == ASSUME Typed, QuietEnd, RowsFit, ClientRows PROVE RowsFit'
<1>1. Wire \in Seq(Msg)
  BY MessagesKnown
<1>2. CASE asyncStatus = "IDLE"
  <2>1. \A i \in DOMAIN Wire : Wire[i].type # "D"
    <3>1. \A i \in DOMAIN Wire : i > 0
      BY <1>1
    <3> QED
      BY <1>2, <3>1 DEF QuietEnd, QuietFrom, Quiet
  <2>2. \A i \in DOMAIN Wire' : Wire'[i].type # "D"
    <3>1. CASE Wire # <<>> /\ Wire' = Tail(Wire)
      <4>1. \A i \in DOMAIN Wire' : i + 1 \in DOMAIN Wire /\ Wire'[i] = Wire[i + 1]
        BY <1>1, <3>1
      <4> QED
        BY <2>1, <4>1
    <3> QED
      BY <2>1, <3>1 DEF ClientRows
  <2>3. Wire' # <<>> => Head(Wire') = Wire'[1] /\ 1 \in DOMAIN Wire'
    BY <1>1 DEF ClientRows
  <2> QED
    BY <2>2, <2>3 DEF RowsFit, Follow
<1>3. CASE asyncStatus # "IDLE" /\ Wire' = Wire
  <2>1. queryclass' = queryclass
    BY <1>3 DEF ClientRows
  <2>2. Wire # <<>> /\ Head(Wire).type = "D" => Rows'
    <3>1. CASE Wire # <<>> /\ Wire' = Tail(Wire)
      BY <1>1, <1>3, <3>1
    <3> QED
      BY <1>3, <3>1 DEF ClientRows, RowsFit
  <2> QED
    BY <1>3, <2>1, <2>2 DEF RowsFit, Follow
<1>4. CASE asyncStatus # "IDLE" /\ Wire # <<>> /\ Wire' = Tail(Wire)
  <2>1. queryclass' = queryclass /\ Wire' # Wire
    BY <1>1, <1>4 DEF ClientRows
  <2>2. \A i \in DOMAIN Wire' : i + 1 \in DOMAIN Wire /\ Wire'[i] = Wire[i + 1]
    BY <1>1, <1>4
  <2>3. \A i \in DOMAIN Wire' : Wire'[i].type = "D" => queryclass' \in {"SIMPLE", "EXTENDED"}
    BY <2>1, <2>2 DEF RowsFit
  <2>4. ASSUME Wire' # <<>>, Head(Wire').type = "D" PROVE Rows'
    <3>1. Head(Wire') = Wire'[1] /\ 1 \in DOMAIN Wire'
      BY <1>1, <1>4, <2>4
    <3>2. Head(Wire).type = "T"
      BY <1>1, <1>4, <2>4, FollowTail DEF RowsFit
    <3>3. queryclass # "DESCRIBE"
      BY <2>1, <2>3, <2>4, <3>1
    <3> QED
      BY <1>4, <2>1, <3>2, <3>3 DEF ClientRows
  <2>5. Follow(Wire', "T", "D")
    BY <1>1, <1>4, FollowTail DEF RowsFit
  <2> QED
    BY <2>3, <2>4, <2>5 DEF RowsFit, Follow
<1> QED
  BY <1>2, <1>3, <1>4 DEF ClientRows

\* The server says something.
LEMMA SaysRowsFit ==
    ASSUME Typed, RowsFit, UNCHANGED <<inBuffer, asyncStatus, result, queryclass>>, link = "up",
           NEW types \in Seq(Types), NEW k \in Nat, Answer(types, k),
           \A i \in DOMAIN types : types[i] = "D" =>
                /\ queryclass \in {"SIMPLE", "EXTENDED"}
                /\ IF i = 1 THEN Described ELSE types[i - 1] = "T"
    PROVE  RowsFit'
<1> DEFINE t == Messages(types, k)
<1>1. Wire' = Wire \o t /\ t \in Seq(Msg) /\ Wire \in Seq(Msg)
  BY AnswerWire, MessagesKnown
<1>2. DOMAIN t = DOMAIN types /\ \A i \in DOMAIN types : t[i].type = types[i]
  BY DEF Messages, Message
<1> HIDE DEF t
<1>3. Follow(t, "T", "D")
  <2>1. \A i \in DOMAIN types : i > 1 => i - 1 \in DOMAIN types /\ i # 1
    OBVIOUS
  <2> QED
    BY <1>2, <2>1 DEF Follow
<1>4. t # <<>> /\ Head(t).type = "D" => Described
  <2>1. t # <<>> => Head(t) = t[1] /\ 1 \in DOMAIN t
    BY <1>1
  <2> QED
    BY <1>2, <2>1
<1>5. Follow(Wire', "T", "D")
  BY <1>1, <1>3, <1>4, FollowConcat DEF RowsFit, Described
<1>6. Rows' = Rows
  BY DEF Rows
<1>7. ASSUME Wire' # <<>>, Head(Wire').type = "D" PROVE Rows'
  <2>1. CASE Wire # <<>>
    <3>1. Head(Wire') = Head(Wire)
      BY <1>1, <2>1
    <3> QED
      BY <1>6, <1>7, <2>1, <3>1 DEF RowsFit
  <2>2. CASE Wire = <<>>
    <3>1. t # <<>> /\ Head(Wire') = Head(t)
      BY <1>1, <1>7, <2>2
    <3> QED
      BY <1>4, <1>6, <1>7, <2>2, <3>1 DEF Described
  <2> QED
    BY <2>1, <2>2
<1>8. ASSUME NEW i \in DOMAIN Wire', Wire'[i].type = "D" PROVE queryclass' \in {"SIMPLE", "EXTENDED"}
  <2>1. \/ i \in DOMAIN Wire /\ Wire'[i] = Wire[i]
        \/ i - Len(Wire) \in DOMAIN t /\ Wire'[i] = t[i - Len(Wire)]
    BY <1>1
  <2> QED
    BY <1>2, <1>8, <2>1 DEF RowsFit
<1> QED
  BY <1>5, <1>7, <1>8 DEF RowsFit, Follow

\* What the server runs is what was asked for last.
LEMMA RunsAsked ==
    ASSUME Typed, Round, ~Dead, srv = "query"
    PROVE  /\ xact = Sent /\ Sent \in 1..Len(asked) /\ asyncStatus # "IDLE"
           /\ queryclass = asked[Sent].class /\ queryclass \in {"SIMPLE", "EXTENDED"}
<1>1. asyncStatus # "IDLE"
  BY DEF Round, Rests, Waits
<1>2. Asked /\ (Requested \/ Runs)
  BY <1>1 DEF Round, Ends, Ended, Waits
<1>3. queryclass \in {"SIMPLE", "EXTENDED"}
  BY <1>2 DEF Requested, Runs
<1>4. xact # Nobody
  BY DEF Typed, ServerTyped
<1> QED
  BY <1>1, <1>2, <1>3, <1>4 DEF Asked

\* The server says rows that fit.
LEMMA ServerRowsFit ==
    ASSUME Typed, Round, RowsFit, ExecutesTold,
           ServerStep \/ CopyFails \/ ProcessIncomingNotify, UNCHANGED clientVars
    PROVE  RowsFit'
<1>1. UNCHANGED <<inBuffer, asyncStatus, result, queryclass>>
  BY DEF clientVars, parserVars
<1>2. CASE UNCHANGED toClient
  BY <1>1, <1>2 DEF RowsFit, Follow, Wire, Rows
<1>3. CASE ~Dead /\ ProcessIncomingNotify
  <2>1. <<"A">> \in Seq(Types) /\ notified + 1 \in Nat
    BY DEF Types, Typed, ServerTyped
  <2>2. link = "up" /\ Answer(<<"A">>, notified + 1)
    BY <1>3 DEF ProcessIncomingNotify, Dead, Typed, ServerTyped
  <2>3. \A i \in DOMAIN <<"A">> : <<"A">>[i] # "D"
    OBVIOUS
  <2> QED
    BY <1>1, <2>1, <2>2, <2>3, SaysRowsFit
<1>4. CASE ~Dead /\ \E types, k : Says(types, k)
  <2>1. PICK types, k : Says(types, k)
    BY <1>4
  <2>2. types \in Seq(Types) /\ k \in Nat /\ Answer(types, k)
    <3>1. Spoken \subseteq Types
      BY DEF Spoken
    <3>2. types \in Seq(Spoken) /\ k \in 0..Len(asked) /\ Answer(types, k)
      BY <2>1 DEF Says
    <3> QED
      BY <3>1, <3>2
  <2>3. link = "up"
    BY <1>4 DEF Dead, Typed, ServerTyped
  <2>4. ASSUME NEW i \in DOMAIN types, types[i] = "D"
        PROVE  /\ queryclass \in {"SIMPLE", "EXTENDED"}
               /\ IF i = 1 THEN Described ELSE types[i - 1] = "T"
    <3>1. /\ srv = "query" /\ Running = "rows"
          /\ IF i = 1 THEN doing_extended_query_message ELSE types[i - 1] = "T"
      BY <2>1, <2>4 DEF Says, RowsDescribed
    <3>2. queryclass \in {"SIMPLE", "EXTENDED"} /\ queryclass = asked[xact].class
      BY <1>4, <3>1, RunsAsked
    <3>3. doing_extended_query_message => queryclass = "EXTENDED"
      BY <3>2 DEF doing_extended_query_message
    <3> QED
      BY <1>4, <3>1, <3>2, <3>3 DEF ExecutesTold
  <2> QED
    BY <1>1, <2>2, <2>3, <2>4, SaysRowsFit
<1> QED
  BY <1>2, <1>3, <1>4, DeadSilent, ServerSays

\* The end of the connection adds no row and takes only the last of them.
LEMMA RowsFitBreaks ==
    ASSUME Typed, RowsFit, ServerExits \/ LinkCut, UNCHANGED clientVars PROVE RowsFit'
<1>1. UNCHANGED <<inBuffer, asyncStatus, result, queryclass>> /\ link = "up"
  BY DEF clientVars, parserVars, ServerExits, LinkCut, Dead, Typed, ServerTyped
<1>2. CASE UNCHANGED toClient
  BY <1>1, <1>2 DEF RowsFit, Follow, Wire, Rows
<1>3. CASE Answer(<<"E">>, Nobody)
  <2>1. <<"E">> \in Seq(Types) /\ Nobody \in Nat
    BY DEF Types, Nobody
  <2>2. \A i \in DOMAIN <<"E">> : <<"E">>[i] # "D"
    OBVIOUS
  <2> QED
    BY <1>1, <1>3, <2>1, <2>2, SaysRowsFit
<1>4. CASE toClient' = <<>>
  <2>1. inBuffer \in Seq(Msg) /\ toClient \in Seq(Msg)
    BY MessagesKnown
  <2>2. Wire' = inBuffer /\ Wire = inBuffer \o toClient
    BY <1>1, <1>4, <2>1 DEF Wire
  <2>3. Follow(inBuffer, "T", "D") /\ (inBuffer # <<>> => Wire # <<>> /\ Head(Wire) = Head(inBuffer))
    BY <2>1, <2>2, FollowPrefix DEF RowsFit
  <2>4. \A i \in DOMAIN inBuffer : i \in DOMAIN Wire /\ Wire[i] = inBuffer[i]
    BY <2>1, <2>2
  <2> QED
    BY <1>1, <2>2, <2>3, <2>4 DEF RowsFit, Follow, Rows
<1> QED
  BY <1>2, <1>3, <1>4 DEF ServerExits, LinkCut

\* An Execute waits only in a round of the extended protocol.
LEMMA ExecuteAsked ==
    ASSUME Round, ~Dead, NEW i \in DOMAIN toServer, toServer[i].type = "E"
    PROVE  asyncStatus # "IDLE" /\ Asked /\ Requested /\ queryclass = "EXTENDED"
<1>1. ~OfTypes(toServer, CopyTypes)
  BY DEF OfTypes, CopyTypes
<1>2. asyncStatus # "IDLE" /\ Asked /\ Requested
  BY <1>1 DEF Round, Rests, Runs, Ends, Ended
<1>3. "E" \in Asks
  <2>1. End # "E"
    BY DEF End
  <2> QED
    BY <1>2, <2>1 DEF Requested, EndsWith
<1> QED
  BY <1>2, <1>3, SaidTypes

\* What is on the way to the server is messages.
LEMMA RequestsKnown ==
    ASSUME Typed PROVE toServer \in Seq(Msg)
<1>1. Requests(Len(asked)) \subseteq Msg
  BY DEF Requests
<1> QED
  BY <1>1, WireTyped

\* Where no Execute waits and none runs there is nothing to tell.
LEMMA NothingToTell ==
    ASSUME toServer' \in Seq(Msg), \A i \in DOMAIN toServer' : toServer'[i].type # "E",
           ~(srv' = "query" /\ queryclass' = "EXTENDED")
    PROVE  ExecutesTold'
<1>1. toServer' # <<>> => Head(toServer') = toServer'[1] /\ 1 \in DOMAIN toServer'
  OBVIOUS
<1> QED
  BY <1>1 DEF ExecutesTold, Follow

\* A message is read that is not the Describe before an Execute.
LEMMA TellsNothing ==
    ASSUME Typed, ExecutesTold, ~Dead, toServer # <<>>, toServer' = Tail(toServer), UNCHANGED clientVars,
           Head(toServer).type # "D",
           srv' = "query" /\ Running' = "rows" /\ queryclass' = "EXTENDED" => Described'
    PROVE  ExecutesTold'
<1>1. toServer \in Seq(Msg)
  BY RequestsKnown
<1>2. Follow(Tail(toServer), "D", "E")
      /\ (Tail(toServer) # <<>> /\ Head(Tail(toServer)).type = "E" => Head(toServer).type = "D")
  BY <1>1, FollowTail DEF ExecutesTold
<1> QED
  BY <1>2 DEF ExecutesTold, Follow

\* Reading an Execute, which its Describe came before.
LEMMA StartsTold ==
    ASSUME Typed, Round, ExecutesTold, ~Dead, ReadExecute, UNCHANGED clientVars PROVE ExecutesTold'
<1> DEFINE m == Head(toServer)
<1>1. /\ toServer # <<>> /\ m.type = "E" /\ toServer' = Tail(toServer) /\ srv = "main"
      /\ IF ignore_till_sync THEN Skips ELSE Starts(m.cmd)
  BY DEF ReadExecute, Reads
<1>2. 1 \in DOMAIN toServer /\ m = toServer[1]
  BY <1>1, RequestsKnown
<1>3. asyncStatus # "IDLE" /\ Asked /\ queryclass = "EXTENDED" /\ m.cmd = Sent /\ Sent \in 1..Len(asked)
  BY <1>1, <1>2, ExecuteAsked DEF Asked, CopyTypes
<1>4. ASSUME srv' = "query", Running' = "rows" PROVE Described'
  <2>1. ~ignore_till_sync /\ todo' = asked[Sent].stmts /\ UNCHANGED toClient
    BY <1>1, <1>3, <1>4 DEF Skips, Starts
  <2>2. asked[Sent].stmts \in Seq(Statements) /\ Len(asked[Sent].stmts) <= 1
    <3>1. IsCommand(asked[Sent]) /\ asked[Sent].class = "EXTENDED"
      BY <1>3, CommandsKnown DEF Typed, Asked
    <3> QED
      BY <3>1 DEF IsCommand
  <2>3. asked[Sent].stmts # <<>> /\ Head(asked[Sent].stmts) = "rows"
    BY <1>4, <2>1 DEF Running
  <2>4. asked[Sent].stmts = <<"rows">>
    BY <2>2, <2>3
  <2>5. Described
    BY <1>1, <2>1, <2>4 DEF ExecutesTold, Told
  <2> QED
    BY <2>1, <2>5 DEF Described, Wire, Rows, clientVars, parserVars
<1> QED
  BY <1>1, <1>4, TellsNothing

\* Reading Parse, Bind and Describe: the last says what rows will come.
LEMMA DescribesTold ==
    ASSUME Typed, Round, ExecutesTold, ~Dead, ReadParseBindDescribe, UNCHANGED clientVars
    PROVE  ExecutesTold'
<1> DEFINE m == Head(toServer)
<1>0. toServer \in Seq(Msg)
  BY RequestsKnown
<1>1. /\ toServer # <<>> /\ m.type \in {"P", "B", "D"} /\ toServer' = Tail(toServer) /\ srv = "main"
      /\ UNCHANGED <<asked, link>>
      /\ \/ ignore_till_sync /\ Skips
         \/ ~ignore_till_sync /\ Fails(<<>>, m.cmd, TRUE)
         \/ /\ ~ignore_till_sync
            /\ Answer(Reply(m.type, asked[m.cmd]), m.cmd) /\ xact' = m.cmd
            /\ UNCHANGED <<srv, todo, committed, send_ready_for_query, ignore_till_sync>>
  BY DEF ReadParseBindDescribe, Reads
<1>2. srv' = "main"
  BY <1>1 DEF Skips, Fails
<1>3. CASE m.type # "D"
  BY <1>1, <1>2, <1>3, TellsNothing
<1>4. CASE m.type = "D"
  <2>1. Follow(toServer', "D", "E")
    BY <1>0, <1>1, FollowTail DEF ExecutesTold
  <2>2. ASSUME toServer' # <<>>, Head(toServer').type = "E" PROVE Told'
    <3>1. 2 \in DOMAIN toServer /\ toServer[2].type = "E" /\ 1 \in DOMAIN toServer /\ m = toServer[1]
      BY <1>0, <1>1, <2>2
    <3>2. /\ queryclass = "EXTENDED" /\ m.cmd = Sent /\ Sent \in 1..Len(asked)
          /\ asked[Sent].class = "EXTENDED"
      BY <1>4, <3>1, ExecuteAsked DEF Asked, CopyTypes
    <3>3. UNCHANGED <<Sent, asked>>
      BY <1>1 DEF Sent, Current, clientVars
    <3>4. CASE ignore_till_sync'
      BY <1>2, <3>4 DEF Told
    <3>5. CASE ~ignore_till_sync'
      <4>1. Answer(Reply(m.type, asked[m.cmd]), m.cmd) /\ xact' = m.cmd
        BY <1>1, <3>5 DEF Skips, Fails
      <4>2. xact' # Nobody
        BY <3>2, <4>1 DEF Nobody
      <4>3. ASSUME asked[Sent].stmts = <<"rows">> PROVE Described'
        <5>1. Reply(m.type, asked[m.cmd]) = <<>> \o <<"T">>
          BY <1>4, <3>2, <4>3 DEF Reply
        <5>2. <<>> \o <<"T">> = <<"T">> /\ <<"T">> \in Seq(Types) /\ m.cmd \in Nat /\ link = "up"
          <6>1. "T" \in Types /\ link = "up"
            BY DEF Types, Dead, Typed, ServerTyped
          <6>2. m.cmd \in Nat
            BY <3>2
          <6> QED
            BY <6>1, <6>2
        <5>3. UNCHANGED inBuffer
          BY DEF clientVars, parserVars
        <5>4. Wire' = Wire \o Messages(<<"T">>, m.cmd)
          BY <4>1, <5>1, <5>2, <5>3, AnswerWire
        <5>5. Messages(<<"T">>, m.cmd) = <<Message("T", m.cmd)>>
          BY DEF Messages
        <5>6. Wire' # <<>> /\ Wire'[Len(Wire')] = Message("T", m.cmd)
          <6>1. Wire \in Seq(Msg)
            BY MessagesKnown
          <6>2. ASSUME NEW s \in Seq(Msg), NEW x PROVE s \o <<x>> # <<>> /\ (s \o <<x>>)[Len(s \o <<x>>)] = x
            OBVIOUS
          <6> QED
            BY <5>4, <5>5, <6>1, <6>2
        <5> QED
          BY <5>6 DEF Described, Message
      <4> QED
        BY <1>2, <3>3, <4>2, <4>3 DEF Told
    <3> QED
      BY <3>4, <3>5
  <2> QED
    BY <1>2, <2>1, <2>2 DEF ExecutesTold, Follow
<1> QED
  BY <1>3, <1>4

\* The statement ends, or one of several of the simple protocol.
LEMMA RunsTold ==
    ASSUME Typed, Round, ExecutesTold, ~Dead, RunStatement \/ ReceiveCopyBegin, UNCHANGED clientVars
    PROVE  ExecutesTold'
<1>1. srv = "query" /\ UNCHANGED <<toServer, queryclass>>
  BY DEF RunStatement, ReceiveCopyBegin, clientVars
<1>2. Follow(toServer, "D", "E") /\ ~(toServer # <<>> /\ Head(toServer).type = "E")
  BY <1>1 DEF ExecutesTold, Told
<1>3. srv' = "query" => ~doing_extended_query_message
  BY DEF RunStatement, ReceiveCopyBegin, Fails, Completes
<1>4. queryclass = asked[xact].class
  BY <1>1, RunsAsked
<1>5. srv' = "query" => queryclass' # "EXTENDED"
  BY <1>1, <1>3, <1>4 DEF doing_extended_query_message
<1> QED
  BY <1>1, <1>2, <1>5 DEF ExecutesTold, Follow

\* Every step of the server keeps what an Execute needs.
LEMMA ServerTold ==
    ASSUME Typed, Round, ExecutesTold, ~Dead,
           ServerStep \/ CopyFails \/ ProcessIncomingNotify, UNCHANGED clientVars
    PROVE  ExecutesTold'
<1> DEFINE m == Head(toServer)
<1>0. toServer \in Seq(Msg) /\ UNCHANGED queryclass
  BY RequestsKnown DEF clientVars
<1>1. CASE ReadyForQuery
  <2>1. \A i \in DOMAIN toServer : toServer[i].type # "E"
    BY <1>1, ExecuteAsked DEF ReadyForQuery, Requested
  <2> QED
    BY <1>0, <1>1, <2>1, NothingToTell DEF ReadyForQuery
<1>2. CASE ReadQuery
  <2>1. toServer # <<>> /\ m.type = "Q" /\ toServer' = Tail(toServer)
    BY <1>2 DEF ReadQuery, Reads
  <2>2. 1 \in DOMAIN toServer /\ m = toServer[1]
    BY <1>0, <2>1
  <2>3. ~OfTypes(toServer, CopyTypes)
    BY <2>1, <2>2 DEF OfTypes, CopyTypes
  <2>4. Requested
    BY <2>3 DEF Round, Rests, Runs, Ends, Ended
  <2>5. queryclass # "EXTENDED"
    BY <2>1, <2>2, <2>4 DEF Requested, EndsWith, End, Asks, CopyTypes
  <2> QED
    BY <1>0, <2>1, <2>5, TellsNothing
<1>3. CASE ReadExecute
  BY <1>3, StartsTold
<1>4. CASE ReadParseBindDescribe
  BY <1>4, DescribesTold
<1>5. CASE ReadSync \/ ReadCopyLeftover
  <2>1. toServer # <<>> /\ m.type # "D" /\ toServer' = Tail(toServer) /\ srv' = "main"
    BY <1>5 DEF ReadSync, ReadCopyLeftover, Reads, Skips, Fails
  <2> QED
    BY <2>1, TellsNothing
<1>6. CASE RunStatement \/ ReceiveCopyBegin
  BY <1>6, RunsTold
<1>7. CASE CopyGetData \/ CopyFails
  <2>1. srv = "copyin" /\ toServer' \in {toServer, Tail(toServer)} /\ (toServer # <<>> \/ toServer' = toServer)
    BY <1>7 DEF CopyGetData, CopyFails
  <2>2. Runs /\ queryclass = "SIMPLE"
    BY <2>1 DEF Round, Rests, Waits, Requested, Runs, Ends, Ended
  <2>3. \A i \in DOMAIN toServer : toServer[i].type # "E"
    BY <2>2 DEF Runs, OfTypes, CopyTypes
  <2>4. \A i \in DOMAIN Tail(toServer) : toServer # <<>> =>
            i + 1 \in DOMAIN toServer /\ Tail(toServer)[i] = toServer[i + 1]
    BY <1>0
  <2>5. toServer' \in Seq(Msg) /\ \A i \in DOMAIN toServer' : toServer'[i].type # "E"
    BY <1>0, <2>1, <2>3, <2>4
  <2> QED
    BY <1>0, <2>2, <2>5, NothingToTell
<1>8. CASE ProcessIncomingNotify
  <2>1. srv = "main" /\ xact = Nobody /\ UNCHANGED <<toServer, srv, xact, ignore_till_sync>>
    BY <1>8 DEF ProcessIncomingNotify
  <2> QED
    BY <2>1 DEF ExecutesTold, Told, Follow
<1> QED
  BY <1>1, <1>2, <1>3, <1>4, <1>5, <1>6, <1>7, <1>8 DEF ServerStep

\* What a client adds to what it sends: the data or the end of a COPY, or a
\* request, in which an Execute comes after a Describe.
Asking(t) == Follow(t, "D", "E") /\ (t # <<>> => Head(t).type # "E")

\* What belongs to a COPY has no Execute.
LEMMA CopyAsking ==
    ASSUME NEW type \in CopyTypes
    PROVE  /\ CopyEnd(type) \in Seq(Msg) /\ Asking(CopyEnd(type))
           /\ Messages(<<type>>, Nobody) \in Seq(Msg) /\ Asking(Messages(<<type>>, Nobody))
<1>1. ASSUME NEW types \in Seq(Unowned) PROVE Messages(types, Nobody) \in Seq(Msg) /\ Asking(Messages(types, Nobody))
  <2> DEFINE t == Messages(types, Nobody)
  <2>1. \A u \in Unowned : Message(u, Nobody) \in Msg /\ Message(u, Nobody).type # "E"
    BY DEF Message, Msg, Nobody, Unowned, CopyTypes, Types
  <2>2. t \in Seq(Msg) /\ \A i \in DOMAIN t : t[i].type # "E"
    BY <2>1 DEF Messages
  <2> HIDE DEF t
  <2>3. t # <<>> => Head(t) = t[1] /\ 1 \in DOMAIN t
    BY <2>2
  <2>4. Asking(t)
    BY <2>2, <2>3 DEF Asking, Follow
  <2> QED
    BY <2>2, <2>4 DEF t
<1>2. <<type>> \in Seq(Unowned) /\ <<type, "S">> \in Seq(Unowned)
  BY DEF Unowned
<1> QED
  BY <1>1, <1>2 DEF CopyEnd

\* In a request, Execute comes after Describe.
LEMMA RequestAsking ==
    ASSUME NEW n \in Nat, NEW k \in 1..n, NEW c \in Commands
    PROVE  Request(c, k) \in Seq(Msg) /\ Asking(Request(c, k))
<1>0. c.class \in Classes
  BY CommandsAssumption DEF IsCommand
<1>1. ASSUME NEW types \in Seq(Types), types # <<>> => types[1] # "E",
             \A i \in DOMAIN types : i > 1 /\ types[i] = "E" => types[i - 1] = "D"
      PROVE  Messages(types, k) \in Seq(Msg) /\ Asking(Messages(types, k))
  <2> DEFINE t == Messages(types, k)
  <2>1. \A u \in Types : Message(u, k) \in Msg /\ Message(u, k).type = u
    BY DEF Message, Msg
  <2>2. t \in Seq(Msg) /\ DOMAIN t = DOMAIN types /\ \A i \in DOMAIN types : t[i].type = types[i]
    BY <2>1 DEF Messages
  <2> HIDE DEF t
  <2>3. t # <<>> => Head(t) = t[1] /\ 1 \in DOMAIN t
    BY <2>2
  <2>4. types = <<>> => t = <<>>
    BY <2>2, <2>3
  <2>5. \A i \in DOMAIN types : i > 1 => i - 1 \in DOMAIN types
    OBVIOUS
  <2>6. Asking(t)
    BY <1>1, <2>2, <2>3, <2>4, <2>5 DEF Asking, Follow
  <2> QED
    BY <2>2, <2>6 DEF t
<1>2. /\ <<"Q">> \in Seq(Types) /\ <<"P", "B", "D", "E", "S">> \in Seq(Types)
      /\ <<"P", "S">> \in Seq(Types) /\ <<"D", "S">> \in Seq(Types)
  BY DEF Types
<1>3. ASSUME NEW types \in {<<"Q">>, <<"P", "B", "D", "E", "S">>, <<"P", "S">>, <<"D", "S">>}
      PROVE  /\ types # <<>> => types[1] # "E"
             /\ \A i \in DOMAIN types : i > 1 /\ types[i] = "E" => types[i - 1] = "D"
  BY <1>3
<1> QED
  BY <1>0, <1>1, <1>2, <1>3 DEF Request, Classes

\* The client sends only such messages.
LEMMA ClientAsks ==
    ASSUME Typed, ~Dead, Application \/ LibpqStep
    PROVE  UNCHANGED toServer \/ \E t \in Seq(Msg) : Asking(t) /\ toServer' = toServer \o t
<1>1. asked \in Seq(Commands) /\ Len(asked) \in Nat
  BY DEF Typed, ServerTyped
<1>2. CASE ParseMessage \/ GetResultFails \/ GetResultReads \/ GetResultReturns \/ GetResultNull
           \/ GetCopyDataStep \/ ParseInputReturns
  BY <1>2 DEF ParseMessage, GetResultFails, GetResultReads, GetResultReturns, GetResultNull,
              GetCopyDataStep, ParseInputReturns, wireVars
<1>3. CASE ExecStartDiscards
  <2>1. Flush(CopyEnd("f")) \/ UNCHANGED toServer
    BY <1>3 DEF ExecStartDiscards, FlushFails
  <2> QED
    BY <2>1, CopyAsking DEF Flush, CopyTypes
<1>4. CASE ExecSends
  <2>1. Len(asked) > 0 /\ UNCHANGED asked
    BY <1>4 DEF ExecSends, Typed, ClientTyped
  <2>2. Len(asked) \in 1..Len(asked) /\ asked[Len(asked)] \in Commands
    BY <1>1, <2>1
  <2>3. Request(asked[Len(asked)], Len(asked)) \in Seq(Msg) /\ Asking(Request(asked[Len(asked)], Len(asked)))
    BY <1>1, <2>2, RequestAsking
  <2>4. Flush(Request(asked[Len(asked)], Len(asked))) \/ UNCHANGED toServer
    BY <1>4, <2>1 DEF ExecSends, Sends, SendFails, FlushFails, Refuses, Current
  <2> QED
    BY <2>3, <2>4 DEF Flush
<1>5. CASE Application
  <2>1. ASSUME NEW c \in Commands, PQexec(c)
        PROVE  UNCHANGED toServer
    BY <2>1 DEF PQexec, wireVars
  <2>2. ASSUME NEW c \in Commands, PQsendQuery(c)
        PROVE  UNCHANGED toServer \/ \E t \in Seq(Msg) : Asking(t) /\ toServer' = toServer \o t
    <3>1. (asked' = Append(asked, c) /\ Flush(Request(c, Len(asked')))) \/ UNCHANGED toServer
      BY <2>2 DEF PQsendQuery, Sends, SendFails, FlushFails, Refuses
    <3>2. asked' = Append(asked, c) => Len(asked') \in Nat /\ Len(asked') \in 1..Len(asked')
      BY <1>1
    <3>3. asked' = Append(asked, c) =>
             Request(c, Len(asked')) \in Seq(Msg) /\ Asking(Request(c, Len(asked')))
      BY <3>2, RequestAsking
    <3> QED
      BY <3>1, <3>3 DEF Flush
  <2>3. CASE PQgetResult \/ PQgetCopyData \/ PQconsumeInput
    BY <2>3 DEF PQgetResult, PQgetCopyData, PQconsumeInput, wireVars
  <2>4. CASE PQputCopyData
    <3>1. Flush(Messages(<<"d">>, Nobody))
      BY <2>4 DEF PQputCopyData
    <3> QED
      BY <3>1, CopyAsking DEF Flush, CopyTypes
  <2>5. CASE PQputCopyEnd
    <3>1. (\E type \in {"c", "f"} : Flush(CopyEnd(type))) \/ UNCHANGED toServer
      BY <2>5 DEF PQputCopyEnd, FlushFails
    <3> QED
      BY <3>1, CopyAsking DEF Flush, CopyTypes
  <2> QED
    BY <1>5, <2>1, <2>2, <2>3, <2>4, <2>5 DEF Application
<1> QED
  BY <1>2, <1>3, <1>4, <1>5 DEF LibpqStep

\* As long as the connection lives, the command that was sent stays the same
\* until the client is idle.
LEMMA SentKept ==
    ASSUME Typed, ReadsRows, ~Dead, asyncStatus # "IDLE", Application \/ LibpqStep
    PROVE  Sent' = Sent /\ \A i \in 1..Len(asked) : asked'[i] = asked[i]
<1>0. asked \in Seq(Commands) /\ Len(asked) \in Nat
  BY DEF Typed, ServerTyped
<1>1. ASSUME UNCHANGED <<asked, call>> PROVE Sent' = Sent /\ \A i \in 1..Len(asked) : asked'[i] = asked[i]
  BY <1>1 DEF Sent, Current
<1>2. ASSUME UNCHANGED asked, call.fn # "PQexecStart", call'.fn # "PQexecStart"
      PROVE  Sent' = Sent /\ \A i \in 1..Len(asked) : asked'[i] = asked[i]
  BY <1>2 DEF Sent, Current
<1>3. CASE ParseMessage \/ GetResultReads
  BY <1>1, <1>3 DEF ParseMessage, GetResultReads
<1>4. CASE GetResultFails \/ ExecSends
  BY <1>4, NothingFails DEF GetResultFails, ExecSends
<1>5. CASE GetResultReturns
  <2>1. /\ UNCHANGED asked /\ call.fn \in {"PQexecFinish", "PQgetResult"}
        /\ call' = NoCall \/ \E last : call' = [call EXCEPT !.last = last]
    BY <1>5 DEF GetResultReturns, FinishHandles, ExecReturns
  <2>2. call'.fn \in {"none", call.fn}
    BY <2>1 DEF NoCall, Typed, ClientTyped
  <2> QED
    BY <1>2, <2>1, <2>2
<1>6. CASE GetResultNull \/ GetCopyDataStep \/ ParseInputReturns
  <2>1. UNCHANGED asked /\ call.fn # "PQexecStart" /\ call' \in {call, NoCall}
    BY <1>6 DEF GetResultNull, GetCopyDataStep, ParseInputReturns, ExecReturns
  <2> QED
    BY <1>2, <2>1 DEF NoCall
<1>7. CASE ExecStartDiscards
  <2>1. UNCHANGED <<asked, call>>
    BY <1>7, NothingFails DEF ExecStartDiscards
  <2> QED
    BY <1>1, <2>1
<1>8. CASE Application
  <2>1. ASSUME NEW c \in Commands, PQexec(c)
        PROVE  Sent' = Sent /\ \A i \in 1..Len(asked) : asked'[i] = asked[i]
    <3>1. asked' = Append(asked, c) /\ call.fn = "none" /\ call'.fn = "PQexecStart"
      BY <2>1 DEF PQexec, Calls, Idle, InCall
    <3>2. Len(asked') = Len(asked) + 1 /\ (Len(asked) + 1) - 1 = Len(asked)
          /\ \A i \in 1..Len(asked) : asked'[i] = asked[i]
      BY <1>0, <3>1
    <3> QED
      BY <3>1, <3>2 DEF Sent, Current
  <2>2. ASSUME NEW c \in Commands, PQsendQuery(c)
        PROVE  Sent' = Sent /\ \A i \in 1..Len(asked) : asked'[i] = asked[i]
    BY <1>1, <2>2 DEF PQsendQuery, Sends, SendFails
  <2>3. CASE PQgetResult \/ PQputCopyData \/ PQputCopyEnd \/ PQgetCopyData \/ PQconsumeInput
    <3>1. /\ UNCHANGED asked /\ call.fn = "none"
          /\ call'.fn # "PQexecStart"
      BY <2>3 DEF PQgetResult, PQputCopyData, PQputCopyEnd, PQgetCopyData, PQconsumeInput, Calls, Idle, InCall
    <3> QED
      BY <1>2, <3>1
  <2> QED
    BY <1>8, <2>1, <2>2, <2>3 DEF Application
<1> QED
  BY <1>3, <1>4, <1>5, <1>6, <1>7, <1>8 DEF LibpqStep

\* Every step of the client keeps what an Execute needs.
LEMMA ClientTold ==
    ASSUME Typed, ReadsRows, BadEmpty, Round, ExecutesTold, ~Dead, Application \/ LibpqStep
    PROVE  ExecutesTold'
<1>0. toServer \in Seq(Msg) /\ Wire \in Seq(Msg)
  BY RequestsKnown, MessagesKnown
<1>1. UNCHANGED <<serverVars, link>>
  BY ClientWireStep DEF ClientWire
<1>2. ClientRows
  BY ClientRowsStep
<1>3. Follow(toServer', "D", "E")
      /\ (toServer' # <<>> /\ Head(toServer').type = "E" =>
             toServer # <<>> /\ Head(toServer).type = "E")
  <2>1. CASE UNCHANGED toServer
    BY <2>1 DEF ExecutesTold, Follow
  <2>2. ASSUME NEW t \in Seq(Msg), Asking(t), toServer' = toServer \o t
        PROVE  /\ Follow(toServer', "D", "E")
               /\ toServer' # <<>> /\ Head(toServer').type = "E" =>
                      toServer # <<>> /\ Head(toServer).type = "E"
    <3>1. Follow(toServer \o t, "D", "E")
      BY <1>0, <2>2, FollowConcat DEF ExecutesTold, Asking
    <3>2. toServer # <<>> => Head(toServer \o t) = Head(toServer)
      BY <1>0, <2>2
    <3>3. toServer = <<>> /\ toServer \o t # <<>> => t # <<>> /\ Head(toServer \o t) = Head(t)
      BY <1>0, <2>2
    <3> QED
      BY <2>2, <3>1, <3>2, <3>3 DEF Asking, Follow
  <2> QED
    BY <2>1, <2>2, ClientAsks
<1>4. CASE asyncStatus = "IDLE"
  <2>1. srv = "main" /\ ~(toServer # <<>> /\ Head(toServer).type = "E")
    <3>1. srv = "main" /\ OfTypes(toServer, CopyTypes)
      BY <1>4 DEF Round, Rests, Waits
    <3>2. toServer # <<>> => 1 \in DOMAIN toServer /\ Head(toServer) = toServer[1]
      BY <1>0
    <3> QED
      BY <3>1, <3>2 DEF OfTypes, CopyTypes
  <2> QED
    BY <1>1, <1>3, <2>1 DEF ExecutesTold, Follow, serverVars
<1>5. CASE asyncStatus # "IDLE"
  <2>1. queryclass' = queryclass
    BY <1>2, <1>5 DEF ClientRows
  <2>2. Described /\ queryclass = "EXTENDED" => Described'
    <3>1. SUFFICES ASSUME Described, queryclass = "EXTENDED" PROVE Described'
      OBVIOUS
    <3>2. CASE Wire' = Wire
      <4>1. CASE Wire = <<>>
        <5>1. Rows /\ ~(Wire # <<>> /\ Wire' = Tail(Wire))
          BY <3>1, <4>1 DEF Described
        <5>2. Rows'
          BY <1>2, <4>1, <5>1 DEF ClientRows
        <5> QED
          BY <3>2, <4>1, <5>2 DEF Described
      <4>2. CASE Wire # <<>>
        BY <3>1, <3>2, <4>2 DEF Described
      <4> QED
        BY <4>1, <4>2
    <3>3. CASE Wire # <<>> /\ Wire' = Tail(Wire)
      <4>0. Wire' # Wire
        BY <1>0, <3>3
      <4>1. CASE Wire' # <<>>
        <5>1. Wire'[Len(Wire')] = Wire[Len(Wire)]
          BY <1>0, <3>3, <4>1
        <5> QED
          BY <3>1, <3>3, <4>1, <5>1 DEF Described
      <4>2. CASE Wire' = <<>>
        <5>1. Head(Wire) = Wire[Len(Wire)]
          <6>1. ASSUME NEW s \in Seq(Msg), s # <<>>, Tail(s) = <<>> PROVE Head(s) = s[Len(s)]
            <7>1. Len(Tail(s)) = Len(s) - 1 /\ Len(s) \in Nat /\ Len(Tail(s)) = 0
              <8>1. Len(<<>>) = 0
                OBVIOUS
              <8>2. Len(Tail(s)) = Len(s) - 1 /\ Len(s) \in Nat
                BY <6>1
              <8> QED
                BY <6>1, <8>1, <8>2
            <7>2. Len(s) = 1
              BY <7>1
            <7> QED
              BY <6>1, <7>2
          <6> QED
            BY <1>0, <3>3, <4>2, <6>1
        <5>2. Rows'
          BY <1>2, <1>5, <3>1, <3>3, <4>0, <5>1 DEF ClientRows, Described
        <5> QED
          BY <4>2, <5>2 DEF Described
      <4> QED
        BY <4>1, <4>2
    <3> QED
      BY <1>2, <3>2, <3>3 DEF ClientRows
  <2>3. ASSUME toServer # <<>>, Head(toServer).type = "E" PROVE Told'
    <3>1. 1 \in DOMAIN toServer /\ toServer[1].type = "E"
      BY <1>0, <2>3
    <3>2. queryclass = "EXTENDED" /\ Sent \in 1..Len(asked)
      BY <3>1, ExecuteAsked DEF Asked
    <3>3. Told
      BY <2>3 DEF ExecutesTold
    <3>4. asked'[Sent'] = asked[Sent]
      BY <1>5, <3>2, SentKept
    <3> QED
      BY <1>1, <2>2, <3>2, <3>3, <3>4 DEF Told, serverVars
  <2>4. ASSUME srv' = "query", queryclass' = "EXTENDED", Running' = "rows" PROVE Described'
    <3>1. srv = "query" /\ queryclass = "EXTENDED" /\ Running = "rows"
      BY <1>1, <2>1, <2>4 DEF serverVars, Running
    <3> QED
      BY <2>2, <3>1 DEF ExecutesTold
  <2> QED
    BY <1>3, <2>3, <2>4 DEF ExecutesTold, Follow
<1> QED
  BY <1>4, <1>5

\* So does every step.
LEMMA ToldStep ==
    ASSUME Typed, ReadsRows, BadEmpty, Round, ExecutesTold, [Next]_vars PROVE ExecutesTold'
<1>1. CASE Dead
  BY <1>1, DeadStays DEF ExecutesTold
<1>2. CASE ~Dead /\ (Application \/ LibpqStep)
  BY <1>2, ClientTold
<1>3. CASE ~Dead /\ (ServerStep \/ CopyFails \/ ProcessIncomingNotify) /\ UNCHANGED clientVars
  BY <1>3, ServerTold
<1>4. CASE ServerExits \/ LinkCut
  BY <1>4 DEF ServerExits, LinkCut, Dead, ExecutesTold
<1>5. CASE UNCHANGED vars
  BY <1>5 DEF vars, serverVars, wireVars, clientVars, parserVars, ExecutesTold, Follow, Told, Described,
              Rows, Running, Sent, Current, Wire, Dead
<1> QED
  BY <1>1, <1>2, <1>3, <1>4, <1>5 DEF Next, Server

\* Every step keeps the rows fitting.
LEMMA RowsFitStep ==
    ASSUME Typed, BadEmpty, QuietEnd, Round, RowsFit, ExecutesTold, [Next]_vars PROVE RowsFit'
<1>1. CASE Application \/ LibpqStep
  BY <1>1, ClientRowsStep, ClientRowsFit
<1>2. CASE (ServerStep \/ CopyFails \/ ProcessIncomingNotify) /\ UNCHANGED clientVars
  BY <1>2, ServerRowsFit
<1>3. CASE (ServerExits \/ LinkCut) /\ UNCHANGED clientVars
  BY <1>3, RowsFitBreaks
<1>4. CASE UNCHANGED vars
  BY <1>4 DEF vars, wireVars, clientVars, parserVars, RowsFit, Follow, Rows, Wire
<1> QED
  BY <1>1, <1>2, <1>3, <1>4 DEF Next, Server

-----------------------------------------------------------------------------
(* The answer of a command is its own.                                     *)

\* A message is a notification, about command k or about none.
Own(m, k) == m.type = "A" \/ m.cmd \in {Nobody, k}

\* What comes is about the command that was sent: as long as the connection
\* lives, and for a PQexec to its end.
OwnStream ==
    ~Dead \/ call.fn = "PQexecFinish" => \A i \in DOMAIN Wire : Own(Wire[i], Sent)

\* What the server says in a round is about the command of the round.
LEMMA SaysOwn ==
    ASSUME Typed, Round, ~Dead, NEW types, NEW k, Says(types, k) PROVE k \in {Nobody, Sent}
<1>1. CASE k \in {Nobody, xact}
  <2>1. xact \in {Nobody, Sent}
    BY DEF Round, Rests, Waits, Asked
  <2> QED
    BY <1>1, <2>1
<1>2. CASE toServer # <<>> /\ Head(toServer).type \in {"P", "B", "D"} /\ k = Head(toServer).cmd
  <2>1. 1 \in DOMAIN toServer /\ Head(toServer) = toServer[1] /\ Head(toServer).type \notin CopyTypes
    BY <1>2, RequestsKnown DEF CopyTypes
  <2>2. asyncStatus # "IDLE"
    BY <2>1 DEF Round, Rests, OfTypes
  <2> QED
    BY <1>2, <2>1, <2>2 DEF Round, Asked
<1> QED
  BY <1>1, <1>2 DEF Says, About

\* Messages of the command that was sent, or of none, come to the stream.
LEMMA AddsOwn ==
    ASSUME Typed, OwnStream, UNCHANGED <<inBuffer, call, asked>>, link = "up", Dead => Dead',
           NEW types \in Seq(Types), NEW k \in Nat, Answer(types, k),
           \A i \in DOMAIN types : types[i] = "A" \/ k \in {Nobody, Sent}
    PROVE  OwnStream'
<1> DEFINE t == Messages(types, k)
<1>1. Wire' = Wire \o t /\ t \in Seq(Msg) /\ Wire \in Seq(Msg)
  BY AnswerWire, MessagesKnown
<1>2. \A i \in DOMAIN t : Own(t[i], Sent)
  BY DEF Messages, Message, Own
<1>3. Sent' = Sent
  BY DEF Sent, Current
<1> HIDE DEF t
<1>4. \A i \in DOMAIN Wire' : \/ i \in DOMAIN Wire /\ Wire'[i] = Wire[i]
                              \/ i - Len(Wire) \in DOMAIN t /\ Wire'[i] = t[i - Len(Wire)]
  BY <1>1
<1> QED
  BY <1>2, <1>3, <1>4 DEF OwnStream

\* The server's steps, and the failures, add nothing else to the stream.
LEMMA ServerOwn ==
    ASSUME Typed, Round, OwnStream, UNCHANGED clientVars,
           ServerStep \/ CopyFails \/ ProcessIncomingNotify \/ ServerExits \/ LinkCut
    PROVE  OwnStream'
<1>1. UNCHANGED <<inBuffer, call, asked>> /\ (Dead => Dead')
  <2>1. UNCHANGED asked
    <3>1. CASE ServerStep \/ CopyFails
      BY <3>1, ServerSays
    <3> QED
      BY <3>1 DEF ProcessIncomingNotify, ServerExits, LinkCut
  <2>2. [Next]_vars
    BY DEF Next, Server
  <2> QED
    BY <2>1, <2>2, DeadStays DEF clientVars, parserVars
<1>2. CASE UNCHANGED toClient
  BY <1>1, <1>2 DEF OwnStream, Wire, Sent, Current
<1>3. CASE ~Dead /\ (ServerStep \/ CopyFails) /\ \E types, k : Says(types, k)
  <2>1. PICK types, k : Says(types, k)
    BY <1>3
  <2>2. types \in Seq(Types) /\ k \in Nat /\ Answer(types, k)
    <3>1. Spoken \subseteq Types
      BY DEF Spoken
    <3>2. types \in Seq(Spoken) /\ k \in 0..Len(asked) /\ Answer(types, k)
      BY <2>1 DEF Says
    <3> QED
      BY <3>1, <3>2
  <2>3. link = "up"
    BY <1>3 DEF Dead, Typed, ServerTyped
  <2>4. k \in {Nobody, Sent}
    BY <1>3, <2>1, SaysOwn
  <2> QED
    BY <1>1, <2>2, <2>3, <2>4, AddsOwn
<1>4. CASE ~Dead /\ ProcessIncomingNotify
  <2>1. <<"A">> \in Seq(Types) /\ notified + 1 \in Nat
    BY DEF Types, Typed, ServerTyped
  <2>2. link = "up" /\ Answer(<<"A">>, notified + 1)
    BY <1>4 DEF ProcessIncomingNotify, Dead, Typed, ServerTyped
  <2>3. \A i \in DOMAIN <<"A">> : <<"A">>[i] = "A"
    OBVIOUS
  <2> QED
    BY <1>1, <2>1, <2>2, <2>3, AddsOwn
<1>5. CASE ServerExits \/ LinkCut
  <2>1. CASE Answer(<<"E">>, Nobody)
    <3>1. <<"E">> \in Seq(Types) /\ Nobody \in Nat
      BY DEF Types, Nobody
    <3>2. link = "up"
      BY <1>5 DEF ServerExits, LinkCut, Dead, Typed, ServerTyped
    <3> QED
      BY <1>1, <2>1, <3>1, <3>2, AddsOwn
  <2>2. CASE toClient' = <<>>
    <3>1. inBuffer \in Seq(Msg) /\ toClient \in Seq(Msg)
      BY MessagesKnown
    <3>2. Wire' = inBuffer /\ \A i \in DOMAIN inBuffer : i \in DOMAIN Wire /\ Wire[i] = inBuffer[i]
      BY <1>1, <2>2, <3>1 DEF Wire
    <3>3. ~Dead
      BY <1>5 DEF ServerExits, LinkCut
    <3> QED
      BY <1>1, <3>2, <3>3 DEF OwnStream, Sent, Current
  <2> QED
    BY <1>2, <1>5, <2>1, <2>2 DEF ServerExits, LinkCut
<1> QED
  BY <1>2, <1>3, <1>4, <1>5, DeadSilent, ServerSays

\* PQexec sends its command when the client is idle.
LEMMA FinishBegins ==
    ASSUME Typed, Application \/ LibpqStep, call'.fn = "PQexecFinish"
    PROVE  (call.fn = "PQexecFinish" /\ UNCHANGED asked) \/ asyncStatus = "IDLE"
<1>1. CASE ParseMessage \/ GetResultReads
  BY <1>1 DEF ParseMessage, GetResultReads
<1>2. CASE GetResultFails
  <2>1. CASE call.fn = "PQexecFinish"
    BY <1>2, <2>1 DEF GetResultFails
  <2>2. CASE call.fn = "PQgetResult"
    BY <1>2, <2>2 DEF GetResultFails, NoCall
  <2>3. CASE call.fn = "PQexecStart"
    <3>1. call' = NoCall \/ call' = call
      BY <1>2, <2>3 DEF GetResultFails, ExecReturns
    <3> QED
      BY <2>3, <3>1 DEF NoCall
  <2> QED
    BY <1>2, <2>1, <2>2, <2>3 DEF GetResultFails, InGetResult
<1>3. CASE GetResultReturns
  BY <1>3 DEF GetResultReturns, FinishHandles, ExecReturns, NoCall
<1>4. CASE GetResultNull \/ GetCopyDataStep \/ ParseInputReturns
  BY <1>4 DEF GetResultNull, GetCopyDataStep, ParseInputReturns, ExecReturns, NoCall
<1>5. CASE ExecStartDiscards
  BY <1>5 DEF ExecStartDiscards, ResultReady, ExecReturns, NoCall
<1>6. CASE ExecSends
  BY <1>6 DEF ExecSends
<1>7. CASE Application
  <2>1. CASE \E c \in Commands : PQexec(c) \/ PQsendQuery(c)
    BY <2>1 DEF PQexec, PQsendQuery, Calls, Idle, InCall
  <2>2. CASE PQgetResult \/ PQputCopyData \/ PQputCopyEnd \/ PQgetCopyData \/ PQconsumeInput
    BY <2>2 DEF PQgetResult, PQputCopyData, PQputCopyEnd, PQgetCopyData, PQconsumeInput, Calls,
                Idle, InCall
  <2> QED
    BY <1>7, <2>1, <2>2 DEF Application
<1> QED
  BY <1>1, <1>2, <1>3, <1>4, <1>5, <1>6, <1>7 DEF LibpqStep

\* The client sends a command when nothing of another is left.
LEMMA ClientOwn ==
    ASSUME Typed, ReadsRows, Round, QuietEnd, OwnStream, Application \/ LibpqStep
    PROVE  OwnStream'
<1>0. ClientWire /\ Wire \in Seq(Msg)
  BY ClientWireStep, MessagesKnown
<1>1. (Dead' <=> Dead)
  BY <1>0 DEF ClientWire, serverVars, Dead
<1>2. \A i \in DOMAIN Wire' : \E j \in DOMAIN Wire : Wire'[i] = Wire[j]
  <2>1. ASSUME NEW s \in Seq(Msg), s # <<>> PROVE \A i \in DOMAIN Tail(s) : i + 1 \in DOMAIN s /\ Tail(s)[i] = s[i + 1]
    BY <2>1
  <2> QED
    BY <1>0, <2>1 DEF ClientWire
<1>3. CASE asyncStatus = "IDLE"
  <2>1. \A j \in DOMAIN Wire : Quiet(Wire[j])
    <3>1. \A j \in DOMAIN Wire : j > 0
      BY <1>0
    <3> QED
      BY <1>3, <3>1 DEF QuietEnd, QuietFrom
  <2>2. \A i \in DOMAIN Wire' : Own(Wire'[i], Sent')
    BY <1>2, <2>1 DEF Quiet, Own
  <2> QED
    BY <2>2 DEF OwnStream
<1>4. CASE asyncStatus # "IDLE" /\ ~Dead
  <2>1. Sent' = Sent
    BY <1>4, SentKept
  <2> QED
    BY <1>2, <1>4, <2>1 DEF OwnStream
<1>5. CASE asyncStatus # "IDLE" /\ Dead
  <2>1. SUFFICES ASSUME call'.fn = "PQexecFinish" PROVE \A i \in DOMAIN Wire' : Own(Wire'[i], Sent')
    BY <1>1, <1>5 DEF OwnStream
  <2>2. call.fn = "PQexecFinish" /\ Sent' = Sent
    BY <1>5, <2>1, FinishBegins DEF Sent, Current
  <2> QED
    BY <1>2, <2>2 DEF OwnStream
<1> QED
  BY <1>3, <1>4, <1>5

\* Every step keeps the stream so.
LEMMA OwnStreamStep ==
    ASSUME Typed, ReadsRows, Round, QuietEnd, OwnStream, [Next]_vars PROVE OwnStream'
<1>1. CASE Application \/ LibpqStep
  BY <1>1, ClientOwn
<1>2. CASE /\ ServerStep \/ CopyFails \/ ProcessIncomingNotify \/ ServerExits \/ LinkCut
           /\ UNCHANGED clientVars
  BY <1>2, ServerOwn
<1>3. CASE UNCHANGED vars
  BY <1>3 DEF vars, serverVars, wireVars, clientVars, parserVars, OwnStream, Sent, Current, Wire, Dead
<1> QED
  BY <1>1, <1>2, <1>3 DEF Next, Server

\* What a result tells is about command k, or about the connection.
OwnResult(res, k) ==
    /\ res.from \subseteq {Nobody, k}
    /\ \A i \in DOMAIN res.err : res.err[i] \in {Nobody, k, Lost}

\* Nothing is returned yet by a call that goes on.  What PQexecFinish has
\* collected, and what it waits for, is about its command, and PQerrorMessage
\* says what it has collected.
Collects ==
    /\ call.fn # "none" => returned = NoReturn
    /\ call.fn = "PQexecFinish" =>
           /\ OwnResult(call.last, Current) /\ OwnResult(result, Current)
           /\ asyncStatus \in {"BUSY", "IDLE"} => errorMessage = call.last.err

\* What a PQexec that returned promises.
Answers == AnswerIsOwn /\ ErrorMessageAgrees

\* The results libpq makes, of a message or of a failure of its own.
LEMMA OwnResults ==
    ASSUME NEW k
    PROVE  /\ OwnResult(NoResult, k)
           /\ \A s : \A from \in SUBSET {Nobody, k} : OwnResult(Result(s, from), k)
           /\ \A c \in {Nobody, k, Lost} : \A from \in SUBSET {Nobody, k} :
                  OwnResult([FatalError(<<c>>) EXCEPT !.from = from], k)
           /\ OwnResult(FatalError(<<Lost>>), k)
<1>1. \A s : \A from \in SUBSET {Nobody, k} : OwnResult(Result(s, from), k)
  BY DEF OwnResult, Result
<1>2. OwnResult(NoResult, k)
  BY <1>1 DEF NoResult
<1>3. ASSUME NEW c \in {Nobody, k, Lost}, NEW from \in SUBSET {Nobody, k}
      PROVE  /\ OwnResult([FatalError(<<c>>) EXCEPT !.from = from], k)
             /\ OwnResult(FatalError(<<c>>), k)
  <2>1. /\ FatalError(<<c>>).err = <<c>> /\ FatalError(<<c>>).from = {}
        /\ [FatalError(<<c>>) EXCEPT !.from = from].err = <<c>>
        /\ [FatalError(<<c>>) EXCEPT !.from = from].from = from
    BY DEF FatalError, Result
  <2>2. \A i \in DOMAIN <<c>> : <<c>>[i] \in {Nobody, k, Lost}
    OBVIOUS
  <2> QED
    BY <2>1, <2>2 DEF OwnResult
<1>4. Lost \in {Nobody, k, Lost} /\ {} \in SUBSET {Nobody, k}
  OBVIOUS
<1>5. OwnResult(FatalError(<<Lost>>), k)
  BY <1>3, <1>4
<1> QED
  BY <1>1, <1>2, <1>3, <1>5

\* Merging two errors of a command.
LEMMA OwnMerged ==
    ASSUME NEW n \in Nat, NEW last \in Results(n), NEW res \in Results(n), NEW k,
           OwnResult(last, k), OwnResult(res, k)
    PROVE  OwnResult(Merged(last, res), k)
<1>1. CASE last.status = "FATAL_ERROR" /\ res.status = "FATAL_ERROR"
  <2> DEFINE both == [last EXCEPT !.err = @ \o res.err, !.from = @ \cup res.from]
  <2>1. last.err \in Seq(Int) /\ res.err \in Seq(Int)
    BY DEF Results
  <2>2. ASSUME NEW s \in Seq(Int), NEW t \in Seq(Int), NEW S,
               \A i \in DOMAIN s : s[i] \in S, \A i \in DOMAIN t : t[i] \in S
        PROVE  \A i \in DOMAIN (s \o t) : (s \o t)[i] \in S
    BY <2>2
  <2>3. \A i \in DOMAIN (last.err \o res.err) : (last.err \o res.err)[i] \in {Nobody, k, Lost}
    BY <2>1, <2>2 DEF OwnResult
  <2>4. both.err = last.err \o res.err /\ both.from = last.from \cup res.from
    BY DEF Results
  <2>5. OwnResult(both, k)
    BY <2>3, <2>4 DEF OwnResult
  <2> QED
    BY <1>1, <2>5 DEF Merged
<1>2. CASE ~(last.status = "FATAL_ERROR" /\ res.status = "FATAL_ERROR")
  BY <1>2 DEF Merged
<1> QED
  BY <1>1, <1>2

\* PQexec returns what it may return.
LEMMA ReturnsOwn ==
    ASSUME Typed, NEW res, NEW null, ExecReturns(res, null), OwnResult(res, Current),
           null \/ errorMessage' = res.err
    PROVE  Collects' /\ Answers'
<1>1. call' = NoCall /\ returned' = [cmd |-> Current, res |-> res, null |-> null]
  BY DEF ExecReturns
<1>2. call'.fn = "none"
  BY <1>1 DEF NoCall
<1>3. returned'.cmd = Current /\ returned'.res = res /\ returned'.null = null
  BY <1>1
<1>4. Collects'
  BY <1>2 DEF Collects
<1>5. AnswerIsOwn'
  BY <1>3 DEF AnswerIsOwn, OwnResult
<1>6. ErrorMessageAgrees'
  BY <1>3 DEF ErrorMessageAgrees
<1> QED
  BY <1>4, <1>5, <1>6 DEF Answers

\* A call goes on, or one begins that is not PQexecFinish: nothing is returned.
LEMMA GoesOn ==
    ASSUME returned' = NoReturn, call'.fn # "PQexecFinish" PROVE Collects' /\ Answers'
BY DEF Collects, Answers, AnswerIsOwn, ErrorMessageAgrees, NoReturn

\* PQexecFinish takes a result about its command.
LEMMA FinishOwn ==
    ASSUME Typed, Collects, NEW res \in Results(Len(asked)), call.fn = "PQexecFinish",
           OwnResult(res, Current), FinishHandles(res), UNCHANGED asked, result' = NoResult
    PROVE  Collects' /\ Answers'
<1> DEFINE last == Merged(call.last, res)
<1>1. Len(asked) \in Nat /\ call.last \in Results(Len(asked))
  BY DEF Typed, ServerTyped, ClientTyped
<1>2. OwnResult(last, Current)
  BY <1>1, OwnMerged DEF Collects
<1>3. /\ errorMessage' = last.err
      /\ ExecReturns(last, FALSE) \/ (call' = [call EXCEPT !.last = last] /\ UNCHANGED historyVars)
  BY DEF FinishHandles
<1>4. CASE ExecReturns(last, FALSE)
  BY <1>2, <1>3, <1>4, ReturnsOwn
<1>5. CASE call' = [call EXCEPT !.last = last] /\ UNCHANGED historyVars
  <2>1. call'.fn = "PQexecFinish" /\ call'.last = last
    BY <1>5 DEF Typed, ClientTyped
  <2>2. returned' = NoReturn /\ Current' = Current
    BY <1>5 DEF historyVars, Collects, Current
  <2>3. Collects'
    BY <1>2, <1>3, <2>1, <2>2, OwnResults DEF Collects
  <2> QED
    BY <2>2, <2>3 DEF Answers, AnswerIsOwn, ErrorMessageAgrees, NoReturn
<1> QED
  BY <1>3, <1>4, <1>5

\* A message that is parsed: what is built of it is about its command.
LEMMA BuildOwn ==
    ASSUME Typed, NEW m, NEW s, NEW k, m.cmd \in {Nobody, k}, OwnResult(result, k), Build(s, m)
    PROVE  OwnResult(result', k)
<1>1. CASE result = NoResult
  BY <1>1, OwnResults DEF Build
<1>2. CASE result # NoResult
  <2>1. result' = [result EXCEPT !.from = @ \cup {m.cmd}]
    BY <1>2 DEF Build
  <2>2. result'.err = result.err /\ result'.from = result.from \cup {m.cmd}
    BY <2>1 DEF Typed, ClientTyped, Results
  <2> QED
    BY <2>2 DEF OwnResult
<1> QED
  BY <1>1, <1>2

\* The parser adds to the result what is about its command; it never finds a
\* row without a description, which would overwrite PQerrorMessage.
LEMMA ParseOwn ==
    ASSUME Typed, RowsFit, OwnStream, Collects, ParseMessage
    PROVE  Collects' /\ Answers'
<1> DEFINE m == Head(inBuffer)
<1>1. /\ inBuffer # <<>> /\ UNCHANGED <<asked, call, historyVars>> /\ call.fn # "none"
      /\ getNotify(m) \/ ParseIdle(m) \/ ParseBusy(m)
  BY DEF ParseMessage, CanParse
<1>2. returned' = NoReturn
  BY <1>1 DEF Collects, historyVars
<1>3. CASE call.fn # "PQexecFinish"
  BY <1>1, <1>2, <1>3, GoesOn
<1>4. CASE call.fn = "PQexecFinish"
  <2>1. Wire # <<>> /\ Head(Wire) = m /\ 1 \in DOMAIN Wire /\ Wire[1] = m
    <3>1. inBuffer \in Seq(Msg) /\ toClient \in Seq(Msg)
      BY MessagesKnown
    <3> QED
      BY <1>1, <3>1 DEF Wire
  <2>2. m.type = "A" \/ m.cmd \in {Nobody, Current}
    BY <1>4, <2>1 DEF OwnStream, Own, Sent
  <2>3. m.type = "D" => Rows
    BY <2>1 DEF RowsFit
  <2>4. OwnResult(result, Current)
        /\ (asyncStatus \in {"BUSY", "IDLE"} => errorMessage = call.last.err)
    BY <1>4 DEF Collects
  <2>5. /\ OwnResult(result', Current)
        /\ asyncStatus' \in {"BUSY", "IDLE"} => errorMessage' = call.last.err
    <3>1. CASE getNotify(m) \/ ParseIdle(m)
      BY <2>4, <3>1 DEF getNotify, ParseIdle
    <3>2. CASE ParseBusy(m)
      <4>0. m.cmd \in {Nobody, Current} /\ asyncStatus = "BUSY" /\ {m.cmd} \in SUBSET {Nobody, Current}
        BY <2>2, <3>2 DEF ParseBusy
      <4>1. CASE ParseEnd(m)
        <5>1. asyncStatus' = "READY"
          BY <4>1 DEF ParseEnd
        <5>2. \/ \E s : Build(s, m)
              \/ result' = [FatalError(<<m.cmd>>) EXCEPT !.from = {m.cmd}]
          BY <4>1 DEF ParseEnd
        <5>3. ASSUME NEW s, Build(s, m) PROVE OwnResult(result', Current)
          BY <2>4, <4>0, <5>3, BuildOwn
        <5>4. OwnResult([FatalError(<<m.cmd>>) EXCEPT !.from = {m.cmd}], Current)
          BY <4>0, OwnResults
        <5>5. OwnResult(result', Current)
          BY <5>2, <5>3, <5>4
        <5> QED
          BY <5>1, <5>5
      <4>2. CASE ParseReadyForQuery(m) \/ ParseNothing(m)
        BY <2>4, <4>0, <4>2 DEF ParseReadyForQuery, ParseNothing
      <4>3. CASE ParseRowDescription(m)
        <5>1. UNCHANGED errorMessage /\ (Build("TUPLES_OK", m) \/ UNCHANGED result)
          BY <4>3 DEF ParseRowDescription
        <5> QED
          BY <2>4, <4>0, <5>1, BuildOwn
      <4>4. CASE ParseDataRow(m)
        <5>1. result.status = "TUPLES_OK"
          BY <2>3, <4>4 DEF ParseDataRow, Rows
        <5>2. Build("TUPLES_OK", m) /\ UNCHANGED errorMessage
          BY <4>4, <5>1 DEF ParseDataRow
        <5> QED
          BY <2>4, <4>0, <5>2, BuildOwn
      <4>5. CASE getCopyStart(m)
        <5>1. /\ asyncStatus' \in CopyStatuses
              /\ \E s : result' = Result(s, {m.cmd})
          BY <4>5 DEF getCopyStart, CopyStatuses
        <5>2. \A s : OwnResult(Result(s, {m.cmd}), Current)
          BY <4>0, OwnResults
        <5> QED
          BY <5>1, <5>2 DEF CopyStatuses
      <4>6. CASE ParseParameterDescription(m)
        <5>1. result' = Result("COMMAND_OK", {m.cmd}) /\ UNCHANGED errorMessage
          BY <4>6 DEF ParseParameterDescription
        <5> QED
          BY <2>4, <4>0, <5>1, OwnResults
      <4> QED
        BY <3>2, <4>1, <4>2, <4>3, <4>4, <4>5, <4>6 DEF ParseBusy
    <3> QED
      BY <1>1, <3>1, <3>2
  <2>6. call' = call /\ Current' = Current
    BY <1>1 DEF Current
  <2>7. Collects'
    BY <1>2, <1>4, <2>5, <2>6 DEF Collects
  <2> QED
    BY <1>2, <2>7 DEF Answers, AnswerIsOwn, ErrorMessageAgrees, NoReturn
<1> QED
  BY <1>3, <1>4

\* PQgetResult fails, returns a result or returns NULL.
LEMMA GetResultOwn ==
    ASSUME Typed, Collects, GetResultFails \/ GetResultReturns \/ GetResultNull
    PROVE  Collects' /\ Answers'
<1>0. Len(asked) \in Nat /\ result \in Results(Len(asked))
  BY DEF Typed, ServerTyped, ClientTyped
<1>1. call.fn # "none"
  BY DEF GetResultFails, GetResultReturns, GetResultNull, ResultReady, InGetResult
<1>2. returned = NoReturn
  BY <1>1 DEF Collects
<1>3. ASSUME call' = NoCall, UNCHANGED historyVars PROVE Collects' /\ Answers'
  BY <1>2, <1>3, GoesOn DEF NoCall, historyVars
<1>4. CASE GetResultFails
  <2> DEFINE res == pqSaveErrorResult(<<Lost>>)
  <2>1. CASE call.fn = "PQexecFinish"
    <3>1. FinishHandles(res) /\ UNCHANGED asked /\ result' = NoResult
      BY <1>4, <2>1 DEF GetResultFails
    <3>2. <<Lost>> \in Seq(Int) /\ <<Lost>> # <<>>
      BY DEF Lost
    <3>3. res \in Results(Len(asked))
      BY <3>2, SaveErrorTyped
    <3>4. OwnResult(result, Current)
      BY <2>1 DEF Collects
    <3>5. OwnResult(res, Current)
      <4>1. CASE result.status = "FATAL_ERROR"
        <5>1. res = [result EXCEPT !.err = @ \o <<Lost>>]
          BY <4>1 DEF pqSaveErrorResult
        <5>2. res.err = result.err \o <<Lost>> /\ res.from = result.from /\ result.err \in Seq(Int)
          BY <1>0, <5>1 DEF Results
        <5>3. ASSUME NEW s \in Seq(Int), NEW S, \A i \in DOMAIN s : s[i] \in S, Lost \in S
              PROVE  \A i \in DOMAIN (s \o <<Lost>>) : (s \o <<Lost>>)[i] \in S
          BY <3>2, <5>3
        <5>4. \A i \in DOMAIN (result.err \o <<Lost>>) :
                 (result.err \o <<Lost>>)[i] \in {Nobody, Current, Lost}
          BY <3>4, <5>2, <5>3 DEF OwnResult
        <5> QED
          BY <3>4, <5>2, <5>4 DEF OwnResult
      <4>2. CASE result.status # "FATAL_ERROR"
        BY <4>2, OwnResults DEF pqSaveErrorResult
      <4> QED
        BY <4>1, <4>2
    <3> HIDE DEF res
    <3> QED
      BY <2>1, <3>1, <3>3, <3>5, FinishOwn
  <2>2. CASE call.fn = "PQgetResult"
    BY <1>3, <1>4, <2>2 DEF GetResultFails
  <2>3. CASE call.fn = "PQexecStart"
    <3>1. ExecReturns(NoResult, TRUE) \/ UNCHANGED <<call, historyVars>>
      BY <1>4, <2>3 DEF GetResultFails
    <3>2. CASE ExecReturns(NoResult, TRUE)
      BY <3>2, ReturnsOwn, OwnResults
    <3>3. CASE UNCHANGED <<call, historyVars>>
      BY <1>2, <2>3, <3>3, GoesOn DEF historyVars
    <3> QED
      BY <3>1, <3>2, <3>3
  <2> QED
    BY <1>4, <2>1, <2>2, <2>3 DEF GetResultFails, InGetResult
<1>5. CASE GetResultReturns
  <2>1. CASE call.fn = "PQexecFinish"
    <3>1. FinishHandles(Prepared) /\ UNCHANGED asked /\ result' = NoResult
      BY <1>5, <2>1 DEF GetResultReturns
    <3>2. asyncStatus \in {"READY", "COPY_IN", "COPY_OUT"}
      BY <1>5 DEF GetResultReturns, ResultReady, CopyStatuses
    <3>3. Prepared \in Results(Len(asked)) /\ (asyncStatus = "READY" => Prepared = result)
      BY <3>2, PreparedTyped
    <3>4. OwnResult(result, Current)
      BY <2>1 DEF Collects
    <3>5. Prepared = result \/ Prepared = Result(asyncStatus, {})
      BY <3>3 DEF Prepared
    <3>6. OwnResult(Result(asyncStatus, {}), Current)
      <4>1. {} \in SUBSET {Nobody, Current}
        OBVIOUS
      <4> QED
        BY <4>1, OwnResults
    <3>7. OwnResult(Prepared, Current)
      BY <3>4, <3>5, <3>6
    <3> QED
      BY <2>1, <3>1, <3>3, <3>7, FinishOwn
  <2>2. CASE call.fn = "PQgetResult"
    BY <1>3, <1>5, <2>2 DEF GetResultReturns
  <2> QED
    BY <1>5, <2>1, <2>2 DEF GetResultReturns
<1>6. CASE GetResultNull
  <2>1. CASE call.fn = "PQexecFinish"
    <3>1. ExecReturns(call.last, call.last = NoResult) /\ UNCHANGED errorMessage /\ asyncStatus = "IDLE"
      BY <1>6, <2>1 DEF GetResultNull, parserVars
    <3>2. OwnResult(call.last, Current) /\ errorMessage' = call.last.err
      BY <2>1, <3>1 DEF Collects
    <3> QED
      BY <3>1, <3>2, ReturnsOwn
  <2>2. CASE call.fn = "PQgetResult"
    BY <1>3, <1>6, <2>2 DEF GetResultNull
  <2> QED
    BY <1>6, <2>1, <2>2 DEF GetResultNull
<1> QED
  BY <1>4, <1>5, <1>6

\* PQexecStart drains, and the command is sent: nothing is collected yet.
LEMMA ExecOwn ==
    ASSUME Typed, Collects, ExecSends \/ ExecStartDiscards
    PROVE  Collects' /\ Answers'
<1>1. call.fn = "PQexecStart" /\ returned = NoReturn
  BY DEF ExecSends, ExecStartDiscards, ResultReady, InGetResult, Collects
<1>2. ASSUME ExecReturns(NoResult, TRUE) PROVE Collects' /\ Answers'
  BY <1>2, ReturnsOwn, OwnResults
<1>3. ASSUME UNCHANGED <<call, historyVars>> PROVE Collects' /\ Answers'
  BY <1>1, <1>3, GoesOn DEF historyVars
<1>4. CASE ExecSends
  <2>1. \/ Sends(asked[Current]) /\ call' = InCall("PQexecFinish") /\ UNCHANGED historyVars
        \/ ExecReturns(NoResult, TRUE)
    BY <1>4 DEF ExecSends
  <2>2. CASE Sends(asked[Current]) /\ call' = InCall("PQexecFinish") /\ UNCHANGED historyVars
    <3>1. result' = NoResult /\ errorMessage' = <<>> /\ call'.last = NoResult /\ NoResult.err = <<>>
      BY <2>2 DEF Sends, InCall, NoResult, Result
    <3>2. returned' = NoReturn
      BY <1>1, <2>2 DEF historyVars
    <3>3. Collects'
      BY <3>1, <3>2, OwnResults DEF Collects
    <3> QED
      BY <3>2, <3>3 DEF Answers, AnswerIsOwn, ErrorMessageAgrees, NoReturn
  <2> QED
    BY <1>2, <2>1, <2>2
<1>5. CASE ExecStartDiscards
  <2>1. ExecReturns(NoResult, TRUE) \/ UNCHANGED <<call, historyVars>>
    BY <1>5 DEF ExecStartDiscards
  <2> QED
    BY <1>2, <1>3, <2>1
<1> QED
  BY <1>4, <1>5

\* What the application calls has returned nothing yet, and is not PQexecFinish.
LEMMA CallsOwn == ASSUME Typed, Collects, Application PROVE Collects' /\ Answers'
<1>1. returned' = NoReturn /\ call.fn = "none"
  BY DEF Application, PQexec, PQsendQuery, PQgetResult, PQputCopyData, PQputCopyEnd, PQgetCopyData,
         PQconsumeInput, Calls, Idle
<1>2. call'.fn # "PQexecFinish"
  <2>1. CASE \E c \in Commands : PQexec(c) \/ PQsendQuery(c)
    BY <1>1, <2>1 DEF PQexec, PQsendQuery, InCall
  <2>2. CASE PQgetResult \/ PQputCopyData \/ PQputCopyEnd \/ PQgetCopyData \/ PQconsumeInput
    BY <1>1, <2>2 DEF PQgetResult, PQputCopyData, PQputCopyEnd, PQgetCopyData, PQconsumeInput, InCall
  <2> QED
    BY <2>1, <2>2 DEF Application
<1> QED
  BY <1>1, <1>2, GoesOn

\* Every step keeps that.
LEMMA CollectsStep ==
    ASSUME Typed, RowsFit, OwnStream, Collects, Answers, [Next]_vars
    PROVE  Collects' /\ Answers'
<1>1. CASE ParseMessage
  BY <1>1, ParseOwn
<1>2. CASE GetResultFails \/ GetResultReturns \/ GetResultNull
  BY <1>2, GetResultOwn
<1>3. CASE ExecSends \/ ExecStartDiscards
  BY <1>3, ExecOwn
<1>4. CASE Application
  BY <1>4, CallsOwn
<1>5. CASE GetCopyDataStep \/ ParseInputReturns
  <2>1. call.fn # "none" /\ call.fn # "PQexecFinish" /\ (call' = call \/ call' = NoCall)
        /\ UNCHANGED historyVars
    BY <1>5 DEF GetCopyDataStep, ParseInputReturns
  <2> QED
    BY <2>1, GoesOn DEF Collects, historyVars, NoCall
<1>6. CASE GetResultReads
  <2>1. UNCHANGED <<asked, asyncStatus, result, errorMessage, call, historyVars>>
    BY <1>6 DEF GetResultReads
  <2> QED
    BY <2>1 DEF historyVars, Collects, Answers, AnswerIsOwn, ErrorMessageAgrees, Current
<1>7. CASE UNCHANGED <<asked, clientVars>>
  BY <1>7 DEF clientVars, parserVars, historyVars, Collects, Answers, AnswerIsOwn, ErrorMessageAgrees,
              Current
<1>8. CASE UNCHANGED clientVars /\ (ServerStep \/ CopyFails)
  BY <1>7, <1>8, ServerSays
<1>9. CASE UNCHANGED clientVars /\ (ProcessIncomingNotify \/ ServerExits \/ LinkCut)
  BY <1>7, <1>9 DEF ProcessIncomingNotify, ServerExits, LinkCut
<1> QED
  BY <1>1, <1>2, <1>3, <1>4, <1>5, <1>6, <1>7, <1>8, <1>9 DEF Next, LibpqStep, Server, vars

\* Nothing was sent or said at first.
LEMMA AnswersInit ==
    ASSUME Init
    PROVE  BadEmpty /\ RowsFit /\ ExecutesTold /\ OwnStream /\ Collects /\ Answers
<1>1. /\ Wire = <<>> /\ toServer = <<>> /\ srv = "main" /\ status = "OK" /\ call = NoCall
      /\ returned = NoReturn
  BY DEF Init, BackendInit, ClientInit, Wire
<1>2. \A i : i \notin DOMAIN <<>>
  OBVIOUS
<1>3. BadEmpty /\ RowsFit /\ ExecutesTold /\ OwnStream
  BY <1>1, <1>2 DEF BadEmpty, RowsFit, Follow, ExecutesTold, OwnStream
<1> QED
  BY <1>1, <1>3 DEF Collects, NoCall, Answers, AnswerIsOwn, ErrorMessageAgrees, NoReturn

\* All that together is inductive.
AnswerInv ==
    /\ Typed /\ ReadsRows /\ Round /\ BadEmpty /\ RowsFit /\ ExecutesTold /\ OwnStream
    /\ Dead => QuietEnd
    /\ Collects /\ Answers

\* It is inductive.
LEMMA AnswerStep == ASSUME ~CopyInExtended, AnswerInv, [Next]_vars PROVE AnswerInv'
<1>1. QuietEnd
  BY RoundQuiet DEF AnswerInv
<1>2. Typed' /\ ReadsRows' /\ Round' /\ BadEmpty'
  BY TypedStep, ReadsRowsStep, RoundStep, BadEmptyStep DEF AnswerInv
<1>3. RowsFit' /\ ExecutesTold' /\ OwnStream'
  BY <1>1, RowsFitStep, ToldStep, OwnStreamStep DEF AnswerInv
<1>4. Dead' => QuietEnd'
  BY <1>1, QuietEndStep DEF AnswerInv
<1>5. Collects' /\ Answers'
  BY CollectsStep DEF AnswerInv
<1> QED
  BY <1>2, <1>3, <1>4, <1>5 DEF AnswerInv

\* PQexec and its siblings answer a command with what the server said of that
\* command, whatever queries, COPYs and late answers were left before it, and
\* whatever fails (PQexecStart, PQexecFinish, PQgetResult).
THEOREM AnswersAreOwn == ASSUME ~CopyInExtended PROVE Spec => []AnswerIsOwn
<1>1. Init => AnswerInv
  BY TypedInit, RoundInit, AnswersInit DEF AnswerInv, Init, BackendInit, Dead
<1>2. AnswerInv /\ [Next]_vars => AnswerInv'
  BY AnswerStep
<1>3. AnswerInv => AnswerIsOwn
  BY DEF AnswerInv, Answers
<1> QED
  BY <1>1, <1>2, <1>3, PTL DEF Spec

\* What PQerrorMessage says after PQexec is the message of the result PQexec
\* returned, with the errors of all its statements merged: PGSQLConnection's
\* execCommand reads the one to learn of the other.
THEOREM MessagesAgree == ASSUME ~CopyInExtended PROVE Spec => []ErrorMessageAgrees
<1>1. Init => AnswerInv
  BY TypedInit, RoundInit, AnswersInit DEF AnswerInv, Init, BackendInit, Dead
<1>2. AnswerInv /\ [Next]_vars => AnswerInv'
  BY AnswerStep
<1>3. AnswerInv => ErrorMessageAgrees
  BY DEF AnswerInv, Answers
<1> QED
  BY <1>1, <1>2, <1>3, PTL DEF Spec

-----------------------------------------------------------------------------
(* PQexec keeps its promise.                                               *)

\* The commands of which messages are still to be read, and with the one whose
\* transaction is open those the server may yet apply.
Waiting == {toServer[i].cmd : i \in {j \in DOMAIN toServer : toServer[j].type \notin CopyTypes}}
Pending == Waiting \cup ({xact} \ {Nobody})

\* Nothing of a request comes after its end.
EndsLast(s) ==
    \A i, j \in DOMAIN s : i < j /\ s[i].type \in {"Q", "S"} => s[j].type \in CopyTypes

\* The messages of a request tell which protocol its command came by.
OfItsClass(m) ==
    m.type \notin CopyTypes => (m.type = "Q" <=> asked[m.cmd].class = "SIMPLE")

\* At most one command is pending, the last that was sent, and it comes after
\* all that were applied.
InOrder ==
    /\ EndsLast(toServer)
    /\ \A i \in DOMAIN toServer : OfItsClass(toServer[i])
    /\ xact # Nobody /\ asked[xact].class = "SIMPLE" => Waiting = {}
    /\ \A k, l \in Pending : k = l
    /\ \A k \in Pending : k \in 1..Sent /\ \A j \in committed : j < k
    /\ committed \subseteq 1..Sent

\* A message is read: what waits is no more than before.
LEMMA WaitingTail ==
    ASSUME Typed, InOrder, toServer # <<>>, toServer' = Tail(toServer)
    PROVE  /\ Waiting' \subseteq Waiting
           /\ EndsLast(toServer')
           /\ \A i \in DOMAIN toServer' : OfItsClass(toServer'[i])
           /\ Head(toServer).type \notin CopyTypes => Head(toServer).cmd \in Waiting
           /\ Head(toServer).type \in {"Q", "S"} => Waiting' = {}
           /\ OfItsClass(Head(toServer))
<1>1. toServer \in Seq(Msg)
  BY RequestsKnown
<1>2. ASSUME NEW s \in Seq(Msg), s # <<>>
      PROVE  /\ \A i \in DOMAIN Tail(s) : i + 1 \in DOMAIN s /\ Tail(s)[i] = s[i + 1] /\ i \in Nat
             /\ 1 \in DOMAIN s /\ Head(s) = s[1]
  BY <1>2
<1>3. /\ \A i \in DOMAIN toServer' : i + 1 \in DOMAIN toServer /\ toServer'[i] = toServer[i + 1] /\ i \in Nat
      /\ 1 \in DOMAIN toServer /\ Head(toServer) = toServer[1]
  BY <1>1, <1>2
<1>4. Waiting' \subseteq Waiting
  BY <1>3 DEF Waiting
<1>5. EndsLast(toServer')
  <2>1. \A i, j \in DOMAIN toServer' : i < j => i + 1 < j + 1
    BY <1>3
  <2> QED
    BY <1>3, <2>1 DEF InOrder, EndsLast
<1>6. \A i \in DOMAIN toServer' : OfItsClass(toServer'[i])
  BY <1>3 DEF InOrder
<1>7. ASSUME Head(toServer).type \in {"Q", "S"} PROVE Waiting' = {}
  <2>1. \A i \in DOMAIN toServer' : 1 < i + 1
    BY <1>3
  <2>2. \A i \in DOMAIN toServer' : toServer'[i].type \in CopyTypes
    BY <1>3, <1>7, <2>1 DEF InOrder, EndsLast
  <2> QED
    BY <2>2 DEF Waiting
<1> QED
  BY <1>3, <1>4, <1>5, <1>6, <1>7 DEF Waiting, InOrder

\* What a step of the server does to the pending command and the database.
ServerMoves ==
    /\ UNCHANGED asked
    /\ \/ UNCHANGED toServer
       \/ toServer # <<>> /\ toServer' = Tail(toServer)
    /\ \/ xact' \in {xact, Nobody} /\ UNCHANGED committed
       \/ /\ toServer # <<>> /\ toServer' = Tail(toServer)
          /\ Head(toServer).type \in {"Q", "P", "B", "D", "E"}
          /\ xact' = Head(toServer).cmd /\ UNCHANGED committed
       \/ /\ xact' = Nobody /\ committed' = committed \cup {xact} /\ xact # Nobody
          /\ \/ asked[xact].class = "SIMPLE"
             \/ toServer # <<>> /\ toServer' = Tail(toServer) /\ Head(toServer).type = "S"

\* Every step of the server is one of these moves.
LEMMA ServerMovesStep == ASSUME Typed, ServerStep \/ CopyFails PROVE ServerMoves
<1>0. UNCHANGED asked
  BY ServerSays
<1>1. CASE ReadyForQuery \/ ReadCopyLeftover
  BY <1>0, <1>1 DEF ReadyForQuery, ReadCopyLeftover, Reads, Skips, ServerMoves
<1>2. CASE ReadQuery \/ ReadExecute
  BY <1>0, <1>2 DEF ReadQuery, ReadExecute, Reads, Skips, Starts, ServerMoves
<1>3. CASE ReadParseBindDescribe
  BY <1>0, <1>3 DEF ReadParseBindDescribe, Reads, Skips, Fails, ServerMoves
<1>4. CASE ReadSync
  <2>1. toServer # <<>> /\ toServer' = Tail(toServer) /\ Head(toServer).type = "S"
    BY <1>4 DEF ReadSync, Reads
  <2>2. CASE Fails(<<>>, xact, FALSE)
    BY <1>0, <2>1, <2>2 DEF Fails, ServerMoves
  <2>3. CASE finish_xact_command /\ xact = Nobody
    <3>1. xact' = Nobody /\ committed' = committed
      BY <2>3 DEF finish_xact_command
    <3> QED
      BY <1>0, <2>1, <3>1 DEF ServerMoves
  <2>4. CASE finish_xact_command /\ xact # Nobody
    <3>1. xact' = Nobody /\ committed' = committed \cup {xact}
      BY <2>4 DEF finish_xact_command
    <3> QED
      BY <1>0, <2>1, <2>4, <3>1 DEF ServerMoves
  <2> QED
    BY <1>4, <2>2, <2>3, <2>4 DEF ReadSync
<1>5. ASSUME NEW types, Completes(types), srv \in {"query", "copyin"}
      PROVE  \/ xact' \in {xact, Nobody} /\ UNCHANGED committed
             \/ /\ xact' = Nobody /\ committed' = committed \cup {xact} /\ xact # Nobody
                /\ asked[xact].class = "SIMPLE"
  <2>1. xact # Nobody
    BY <1>5 DEF Typed, ServerTyped
  <2>2. CASE doing_extended_query_message \/ ~(Len(todo) <= 1)
    BY <1>5, <2>2 DEF Completes
  <2>3. CASE ~doing_extended_query_message /\ Len(todo) <= 1
    <3>1. finish_xact_command /\ asked[xact].class = "SIMPLE"
      BY <1>5, <2>3 DEF Completes, doing_extended_query_message
    <3>2. xact' = Nobody /\ committed' = committed \cup {xact}
      BY <2>1, <3>1 DEF finish_xact_command
    <3> QED
      BY <2>1, <3>1, <3>2
  <2> QED
    BY <2>2, <2>3
<1>6. CASE RunStatement
  <2>1. UNCHANGED toServer /\ srv = "query"
    BY <1>6 DEF RunStatement
  <2>2. CASE \E n \in 0..Len(Output) : Fails(SubSeq(Output, 1, n), xact, doing_extended_query_message)
    BY <1>0, <2>1, <2>2 DEF Fails, ServerMoves
  <2>3. CASE Completes(Append(Output, IF Running = "nothing" THEN "I" ELSE "C"))
    BY <1>0, <1>5, <2>1, <2>3 DEF ServerMoves
  <2> QED
    BY <1>6, <2>2, <2>3 DEF RunStatement
<1>7. CASE ReceiveCopyBegin \/ CopyFails
  BY <1>0, <1>7 DEF ReceiveCopyBegin, CopyFails, Fails, ServerMoves
<1>8. CASE CopyGetData
  <2>1. toServer # <<>> /\ toServer' = Tail(toServer) /\ srv = "copyin"
    BY <1>8 DEF CopyGetData
  <2>2. \/ Completes(<<"C">>) \/ Fails(<<>>, xact, doing_extended_query_message)
        \/ UNCHANGED <<xact, committed>>
    BY <1>8 DEF CopyGetData
  <2> QED
    BY <1>0, <1>5, <2>1, <2>2 DEF Fails, ServerMoves
<1> QED
  BY <1>1, <1>2, <1>3, <1>4, <1>6, <1>7, <1>8 DEF ServerStep

\* Pending commands become fewer; one that is applied is pending no more, and
\* no other then is.
LEMMA PendingShrinks ==
    ASSUME Typed, InOrder, ServerMoves
    PROVE  /\ Pending' \subseteq Pending
           /\ \/ UNCHANGED committed
              \/ /\ xact \in Pending /\ committed' = committed \cup {xact}
                 /\ Pending' = {}
           /\ EndsLast(toServer')
           /\ \A i \in DOMAIN toServer' : OfItsClass(toServer'[i])
           /\ xact' # Nobody /\ asked'[xact'].class = "SIMPLE" => Waiting' = {}
<1> DEFINE m == Head(toServer)
<1>1. /\ Waiting' \subseteq Waiting /\ EndsLast(toServer')
      /\ \A i \in DOMAIN toServer' : OfItsClass(toServer'[i])
  BY WaitingTail DEF ServerMoves, Waiting, InOrder
<1>2. CASE xact' \in {xact, Nobody} /\ UNCHANGED committed
  <2>1. Pending' \subseteq Pending
    BY <1>1, <1>2 DEF Pending
  <2>2. xact' # Nobody /\ asked'[xact'].class = "SIMPLE" => Waiting' = {}
    BY <1>1, <1>2 DEF InOrder, ServerMoves
  <2> QED
    BY <1>1, <1>2, <2>1, <2>2
<1>3. CASE /\ toServer # <<>> /\ toServer' = Tail(toServer)
           /\ m.type \in {"Q", "P", "B", "D", "E"}
           /\ xact' = m.cmd /\ UNCHANGED committed
  <2>1. m.type \notin CopyTypes
    BY <1>3 DEF CopyTypes
  <2>2. m.cmd \in Waiting /\ (m.type = "Q" => Waiting' = {}) /\ (m.type = "Q" <=> asked[m.cmd].class = "SIMPLE")
    BY <1>3, <2>1, WaitingTail DEF OfItsClass
  <2>3. Pending' \subseteq Pending
    BY <1>1, <1>3, <2>2 DEF Pending
  <2>4. asked'[xact'].class = "SIMPLE" => Waiting' = {}
    BY <1>3, <2>2 DEF ServerMoves
  <2> QED
    BY <1>1, <1>3, <2>3, <2>4
<1>4. CASE /\ xact' = Nobody /\ committed' = committed \cup {xact} /\ xact # Nobody
           /\ \/ asked[xact].class = "SIMPLE"
              \/ toServer # <<>> /\ toServer' = Tail(toServer) /\ m.type = "S"
  <2>1. Waiting' = {}
    BY <1>1, <1>4, WaitingTail DEF InOrder
  <2> QED
    BY <1>1, <1>4, <2>1 DEF Pending
<1> QED
  BY <1>2, <1>3, <1>4 DEF ServerMoves

\* Steps of the server keep the order.
LEMMA ServerInOrder ==
    ASSUME Typed, InOrder, ServerMoves, UNCHANGED call PROVE InOrder'
<1>1. Sent' = Sent /\ asked' = asked
  BY DEF Sent, Current, ServerMoves
<1>2. \A k \in Pending' : k \in 1..Sent /\ \A j \in committed' : j < k
  BY PendingShrinks DEF InOrder
<1>3. committed' \subseteq 1..Sent
  BY PendingShrinks DEF InOrder
<1>4. \A k, l \in Pending' : k = l
  BY PendingShrinks DEF InOrder
<1>5. EndsLast(toServer') /\ \A i \in DOMAIN toServer' : OfItsClass(toServer'[i])
  BY PendingShrinks
<1>6. xact' # Nobody /\ asked'[xact'].class = "SIMPLE" => Waiting' = {}
  BY PendingShrinks
<1> QED
  BY <1>1, <1>2, <1>3, <1>4, <1>5, <1>6 DEF InOrder, OfItsClass

\* The other events take commands away or leave them.
EventMoves ==
    /\ UNCHANGED <<asked, committed>>
    /\ xact' \in {xact, Nobody} /\ toServer' \in {toServer, <<>>}

\* Notifications, exits and cuts move in this way.
LEMMA EventMovesStep ==
    ASSUME Typed, InOrder, ProcessIncomingNotify \/ ServerExits \/ LinkCut
    PROVE  EventMoves
BY DEF EventMoves, ProcessIncomingNotify, ServerExits, LinkCut, serverVars

\* They keep the order.
LEMMA EventInOrder ==
    ASSUME Typed, InOrder, EventMoves, UNCHANGED call PROVE InOrder' /\ Pending' \subseteq Pending
<1>1. Sent' = Sent
  BY DEF Sent, Current, EventMoves
<1>2. Waiting' \subseteq Waiting
  BY DEF EventMoves, Waiting
<1>3. Pending' \subseteq Pending
  BY <1>2 DEF Pending, EventMoves
<1>4. EndsLast(toServer') /\ \A i \in DOMAIN toServer' : OfItsClass(toServer'[i])
  BY DEF EventMoves, InOrder, EndsLast
<1>5. xact' # Nobody /\ asked'[xact'].class = "SIMPLE" => Waiting' = {}
  BY <1>2 DEF EventMoves, InOrder
<1>6. committed' = committed /\ asked' = asked
  BY DEF EventMoves
<1> QED
  BY <1>1, <1>3, <1>4, <1>5, <1>6 DEF InOrder, OfItsClass

\* The message before the Sync, whose answer, or whose statement's, is the
\* last before ReadyForQuery.
LastAsk(class) == CASE class = "EXTENDED" -> "E" [] class = "PREPARE" -> "P" [] OTHER -> "D"

\* A request is about its command, and has its end at its end.
LEMMA RequestIs ==
    ASSUME NEW n \in Nat, NEW k \in 1..n, NEW c \in Commands
    PROVE  LET t == Request(c, k)
           IN  /\ t \in Seq(Msg) /\ EndsLast(t)
               /\ t # <<>> => Head(t).type # "S"
               /\ \A i \in DOMAIN t : /\ t[i].cmd = k
                                      /\ t[i].type = "Q" <=> c.class = "SIMPLE"
               /\ Follow(t, LastAsk(c.class), "S")
<1> DEFINE all == {<<"Q">>, <<"P", "B", "D", "E", "S">>, <<"P", "S">>, <<"D", "S">>}
<1>0. c.class \in Classes
  BY CommandsAssumption DEF IsCommand
<1>1. \A types \in all : types \in Seq(Types)
  <2>1. /\ <<"Q">> \in Seq(Types) /\ <<"P", "B", "D", "E", "S">> \in Seq(Types)
        /\ <<"P", "S">> \in Seq(Types) /\ <<"D", "S">> \in Seq(Types)
    BY DEF Types
  <2> QED
    BY <2>1
<1>2. ASSUME NEW types \in all
      PROVE  /\ \A i, j \in DOMAIN types : i < j => types[i] \notin {"Q", "S"}
             /\ types # <<>> => types[1] # "S"
             /\ \A i \in DOMAIN types : i > 1 => i - 1 \in DOMAIN types
             /\ types = <<"P", "B", "D", "E", "S">> =>
                    \A i \in DOMAIN types : types[i] # "Q" /\ (i > 1 /\ types[i] = "S" => types[i - 1] = "E")
             /\ types = <<"P", "S">> =>
                    \A i \in DOMAIN types : types[i] # "Q" /\ (i > 1 /\ types[i] = "S" => types[i - 1] = "P")
             /\ types = <<"D", "S">> =>
                    \A i \in DOMAIN types : types[i] # "Q" /\ (i > 1 /\ types[i] = "S" => types[i - 1] = "D")
             /\ types = <<"Q">> => \A i \in DOMAIN types : types[i] = "Q"
  BY <1>2
<1>3. ASSUME NEW types \in Seq(Types)
      PROVE  /\ Messages(types, k) \in Seq(Msg) /\ DOMAIN Messages(types, k) = DOMAIN types
             /\ \A i \in DOMAIN types : Messages(types, k)[i].type = types[i] /\ Messages(types, k)[i].cmd = k
             /\ Messages(types, k) # <<>> => types # <<>> /\ Head(Messages(types, k)).type = types[1]
  <2> DEFINE t == Messages(types, k)
  <2>1. \A u \in Types : Message(u, k) \in Msg /\ Message(u, k).type = u /\ Message(u, k).cmd = k
    BY DEF Message, Msg
  <2>2. t \in Seq(Msg) /\ DOMAIN t = DOMAIN types
        /\ \A i \in DOMAIN types : t[i].type = types[i] /\ t[i].cmd = k
    BY <2>1 DEF Messages
  <2> HIDE DEF t
  <2>3. t # <<>> => Head(t) = t[1] /\ 1 \in DOMAIN t
    BY <2>2
  <2>4. t # <<>> => types # <<>>
    BY <2>2, <2>3
  <2> QED
    BY <2>2, <2>3, <2>4 DEF t
<1>4. PICK types \in all :
          /\ Request(c, k) = Messages(types, k)
          /\ c.class = "SIMPLE" => types = <<"Q">>
          /\ c.class = "EXTENDED" => types = <<"P", "B", "D", "E", "S">>
          /\ c.class = "PREPARE" => types = <<"P", "S">>
          /\ c.class = "DESCRIBE" => types = <<"D", "S">>
  <2>1. c.class \in {"SIMPLE", "EXTENDED", "PREPARE", "DESCRIBE"}
    BY <1>0 DEF Classes
  <2> QED
    BY <2>1 DEF Request
<1> DEFINE t == Request(c, k)
<1>5. /\ t \in Seq(Msg) /\ DOMAIN t = DOMAIN types
      /\ \A i \in DOMAIN types : t[i].type = types[i] /\ t[i].cmd = k
      /\ t # <<>> => types # <<>> /\ Head(t).type = types[1]
  <2>1. types \in Seq(Types)
    BY <1>1
  <2> HIDE DEF all
  <2> QED
    BY <1>3, <1>4, <2>1
<1>6. c.class \in {"SIMPLE", "EXTENDED", "PREPARE", "DESCRIBE"}
  BY <1>0 DEF Classes
<1> HIDE DEF t, all
<1>7. EndsLast(t)
  BY <1>2, <1>5 DEF EndsLast
<1>8. \A i \in DOMAIN t : t[i].type = "Q" <=> c.class = "SIMPLE"
  BY <1>2, <1>4, <1>5, <1>6
<1>9. \A i \in DOMAIN types : i > 1 /\ types[i] = "S" => types[i - 1] = LastAsk(c.class)
  BY <1>2, <1>4, <1>6 DEF LastAsk
<1>10. Follow(t, LastAsk(c.class), "S")
  BY <1>2, <1>5, <1>9 DEF Follow
<1> QED
  BY <1>2, <1>5, <1>7, <1>8, <1>10 DEF t

\* What a step of the client does to them: it sends data or the end of a COPY,
\* or, idle, the request of a command.
ClientMoves ==
    /\ UNCHANGED serverVars
    /\ Sent' >= Sent /\ \A i \in 1..Len(asked) : asked'[i] = asked[i]
    /\ \/ UNCHANGED toServer
       \/ \E t \in Seq(Msg) : OfTypes(t, CopyTypes) /\ toServer' = toServer \o t
       \/ /\ ~Dead /\ asyncStatus = "IDLE"
          /\ Sent' = Sent + 1 /\ Sent' \in 1..Len(asked') /\ asked'[Sent'] \in Commands
          /\ toServer' = toServer \o Request(asked'[Sent'], Sent')

\* What is sent in a COPY.
LEMMA CopyFlushes ==
    ASSUME Typed, Round, asyncStatus = "COPY_IN", NEW type \in CopyTypes,
           Flush(CopyEnd(type)) \/ Flush(Messages(<<type>>, Nobody))
    PROVE  \/ UNCHANGED toServer
           \/ \E t \in Seq(Msg) : OfTypes(t, CopyTypes) /\ toServer' = toServer \o t
<1>1. CASE Dead
  BY <1>1 DEF Flush
<1>2. CASE ~Dead
  <2>1. queryclass = "SIMPLE"
    BY <1>2 DEF Round, Asked
  <2>2. <<type>> \in Seq(CopyTypes)
    OBVIOUS
  <2>3. Messages(<<type>>, Nobody) \in Seq(Msg) /\ OfTypes(Messages(<<type>>, Nobody), CopyTypes)
    BY <2>2, MessagesOfTypes, CopyAsking
  <2> QED
    BY <1>2, <2>1, <2>3 DEF Flush, CopyEnd
<1> QED
  BY <1>1, <1>2

\* Every step of the client moves in this way.
LEMMA ClientMovesStep ==
    ASSUME Typed, Round, Application \/ LibpqStep PROVE ClientMoves
<1>0. asked \in Seq(Commands) /\ Len(asked) \in Nat
      /\ (call.fn \in {"PQexecStart", "PQexecFinish"} => Len(asked) > 0)
  BY DEF Typed, ServerTyped, ClientTyped
<1>1. UNCHANGED serverVars
  BY ClientWireStep DEF ClientWire
<1>2. ASSUME UNCHANGED asked, call'.fn = "PQexecStart" => call.fn = "PQexecStart"
      PROVE  Sent' >= Sent /\ \A i \in 1..Len(asked) : asked'[i] = asked[i]
  <2>1. Current' = Current /\ Current \in Nat
    BY <1>0, <1>2 DEF Current
  <2> QED
    BY <1>2, <2>1 DEF Sent
<1>3. CASE ParseMessage \/ GetResultReads \/ GetCopyDataStep \/ ParseInputReturns
  <2>1. UNCHANGED <<asked, toServer>> /\ call' \in {call, NoCall}
    BY <1>3 DEF ParseMessage, GetResultReads, GetCopyDataStep, ParseInputReturns, wireVars
  <2> QED
    BY <1>1, <1>2, <2>1 DEF ClientMoves, NoCall
<1>4. CASE GetResultFails \/ GetResultReturns \/ GetResultNull
  <2>1. UNCHANGED <<asked, toServer>> /\ (call' \in {call, NoCall} \/ \E last : call' = [call EXCEPT !.last = last])
    BY <1>4 DEF GetResultFails, GetResultReturns, GetResultNull, wireVars, FinishHandles, ExecReturns, InGetResult
  <2>2. call'.fn \in {call.fn, "none"}
    BY <2>1 DEF NoCall, Typed, ClientTyped
  <2> QED
    BY <1>1, <1>2, <2>1, <2>2 DEF ClientMoves
<1>5. CASE ExecStartDiscards
  <2>1. UNCHANGED asked /\ call' \in {call, NoCall}
    BY <1>5 DEF ExecStartDiscards, ExecReturns
  <2>2. (asyncStatus = "COPY_IN" /\ Flush(CopyEnd("f"))) \/ UNCHANGED toServer
    BY <1>5 DEF ExecStartDiscards, FlushFails
  <2>3. UNCHANGED toServer \/ \E t \in Seq(Msg) : OfTypes(t, CopyTypes) /\ toServer' = toServer \o t
    BY <2>2, CopyFlushes DEF CopyTypes
  <2> QED
    BY <1>1, <1>2, <2>1, <2>3 DEF ClientMoves, NoCall
<1>6. CASE ExecSends
  <2>1. call.fn = "PQexecStart" /\ UNCHANGED asked /\ Sent = Current - 1
    BY <1>6 DEF ExecSends, Sent
  <2>2. \/ Sends(asked[Current]) /\ call'.fn = "PQexecFinish"
        \/ UNCHANGED toServer /\ call' = NoCall
    BY <1>6 DEF ExecSends, SendFails, FlushFails, Refuses, ExecReturns, InCall
  <2>3. CASE UNCHANGED toServer
    BY <1>1, <1>2, <2>1, <2>3 DEF ClientMoves
  <2>4. CASE Sends(asked[Current]) /\ call'.fn = "PQexecFinish"
    <3>1. Current \in 1..Len(asked) /\ asked[Current] \in Commands /\ Current' = Current
      BY <1>0, <2>1 DEF Current
    <3>2. Sent' = Current
      BY <2>4, <3>1 DEF Sent
    <3>3. Sent' = Sent + 1
      BY <1>0, <2>1, <3>1, <3>2
    <3>4. toServer' = IF Dead THEN toServer ELSE toServer \o Request(asked[Current], Current)
      BY <2>1, <2>4 DEF Sends, Flush, Current
    <3>5. asyncStatus = "IDLE"
      BY <2>4 DEF Sends
    <3> QED
      BY <1>1, <1>2, <2>1, <3>1, <3>2, <3>3, <3>4, <3>5 DEF ClientMoves
  <2> QED
    BY <2>2, <2>3, <2>4
<1>7. CASE Application
  <2>1. call.fn = "none" /\ Sent = Current
    BY <1>7 DEF Application, PQexec, PQsendQuery, PQgetResult, PQputCopyData, PQputCopyEnd, PQgetCopyData,
                PQconsumeInput, Calls, Idle, Sent
  <2>2. ASSUME NEW c \in Commands, asked' = Append(asked, c)
        PROVE  /\ \A i \in 1..Len(asked) : asked'[i] = asked[i]
               /\ Current' = Current + 1 /\ Current' \in 1..Len(asked') /\ asked'[Current'] = c
               /\ Current \in Nat /\ Current + 1 - 1 = Current
    BY <1>0, <2>2 DEF Current
  <2>3. ASSUME NEW c \in Commands, PQexec(c) PROVE ClientMoves
    <3>1. asked' = Append(asked, c) /\ UNCHANGED toServer /\ call'.fn = "PQexecStart"
      BY <2>3 DEF PQexec, wireVars, InCall
    <3>2. Sent' = Current' - 1
      BY <3>1 DEF Sent
    <3>3. Sent' >= Sent
      BY <2>1, <2>2, <3>1, <3>2
    <3> QED
      BY <1>1, <2>2, <3>1, <3>3 DEF ClientMoves
  <2>4. ASSUME NEW c \in Commands, PQsendQuery(c) PROVE ClientMoves
    <3>1. call'.fn # "PQexecStart"
      BY <2>1, <2>4 DEF PQsendQuery, InCall
    <3>2. Sent' = Current'
      BY <3>1 DEF Sent
    <3>3. \/ asked' = Append(asked, c) /\ (Sends(c) \/ SendFails(c))
          \/ UNCHANGED <<asked, toServer>>
      BY <2>4 DEF PQsendQuery, Refuses
    <3>4. CASE UNCHANGED <<asked, toServer>>
      BY <1>1, <1>2, <3>1, <3>4 DEF ClientMoves
    <3>5. CASE asked' = Append(asked, c) /\ SendFails(c)
      <4>1. UNCHANGED toServer
        BY <3>5 DEF SendFails, FlushFails
      <4>2. Sent' >= Sent
        BY <2>1, <2>2, <3>2, <3>5
      <4> QED
        BY <1>1, <2>2, <3>5, <4>1, <4>2 DEF ClientMoves
    <3>6. CASE asked' = Append(asked, c) /\ Sends(c)
      <4>1. toServer' = IF Dead THEN toServer ELSE toServer \o Request(c, Current')
        BY <3>6 DEF Sends, Flush, Current
      <4>2. asyncStatus = "IDLE"
        BY <3>6 DEF Sends
      <4>3. Sent' >= Sent /\ Sent' = Sent + 1
        BY <2>1, <2>2, <3>2, <3>6
      <4>4. Sent' \in 1..Len(asked') /\ asked'[Sent'] = c
        BY <2>2, <3>2, <3>6
      <4>5. toServer' = IF Dead THEN toServer ELSE toServer \o Request(asked'[Sent'], Sent')
        BY <3>2, <4>1, <4>4
      <4> QED
        BY <1>1, <2>2, <3>6, <4>2, <4>3, <4>4, <4>5 DEF ClientMoves
    <3> QED
      BY <3>3, <3>4, <3>5, <3>6
  <2>5. CASE PQgetResult \/ PQgetCopyData \/ PQconsumeInput
    <3>1. UNCHANGED <<asked, toServer>> /\ call'.fn # "PQexecStart"
      BY <2>5 DEF PQgetResult, PQgetCopyData, PQconsumeInput, wireVars, InCall
    <3> QED
      BY <1>1, <1>2, <3>1 DEF ClientMoves
  <2>6. CASE PQputCopyData \/ PQputCopyEnd
    <3>1. UNCHANGED asked /\ call'.fn # "PQexecStart" /\ asyncStatus = "COPY_IN"
      BY <2>1, <2>6 DEF PQputCopyData, PQputCopyEnd, InCall
    <3>2. \/ \E type \in CopyTypes : Flush(CopyEnd(type)) \/ Flush(Messages(<<type>>, Nobody))
          \/ UNCHANGED toServer
      BY <2>6 DEF PQputCopyData, PQputCopyEnd, FlushFails, CopyTypes
    <3>3. UNCHANGED toServer \/ \E t \in Seq(Msg) : OfTypes(t, CopyTypes) /\ toServer' = toServer \o t
      BY <3>1, <3>2, CopyFlushes
    <3> QED
      BY <1>1, <1>2, <3>1, <3>3 DEF ClientMoves
  <2> QED
    BY <1>7, <2>3, <2>4, <2>5, <2>6 DEF Application
<1> QED
  BY <1>3, <1>4, <1>5, <1>6, <1>7 DEF LibpqStep

\* They keep the order: a request goes out when nothing is pending.
LEMMA ClientInOrder ==
    ASSUME Typed, Typed', Round, InOrder, ClientMoves
    PROVE  InOrder' /\ \A k \in Pending' : k \in Pending \/ (k = Sent' /\ Sent' = Sent + 1)
<1>0. Sent \in 0..Len(asked) /\ Len(asked) \in Nat
  BY DEF Typed, ServerTyped, ClientTyped, Sent, Current
<1>a. /\ Sent' \in 0..Len(asked') /\ Len(asked') \in Nat /\ asked' \in Seq(Commands)
      /\ Sent' >= Sent
  <2>1. /\ asked' \in Seq(Commands) /\ Sent' = (IF call'.fn = "PQexecStart" THEN Len(asked') - 1 ELSE Len(asked'))
        /\ call'.fn = "PQexecStart" => Len(asked') > 0
    BY DEF Typed, ServerTyped, ClientTyped, Sent, Current
  <2>2. Len(asked') \in Nat
    BY <2>1
  <2>3. Sent' \in 0..Len(asked')
    BY <2>1, <2>2
  <2> QED
    BY <2>1, <2>2, <2>3 DEF ClientMoves
<1>b. /\ \A k \in Pending : k \in 1..Sent' /\ \A j \in committed : j < k
      /\ committed \subseteq 1..Sent'
  <2>1. 1..Sent \subseteq 1..Sent'
    BY <1>0, <1>a
  <2>2. /\ \A k \in Pending : k \in 1..Sent /\ \A j \in committed : j < k
        /\ committed \subseteq 1..Sent
    BY DEF InOrder
  <2> QED
    BY <2>1, <2>2
<1>1. xact' = xact /\ committed' = committed
  BY DEF ClientMoves, serverVars
<1>2. toServer \in Seq(Msg)
  BY RequestsKnown
<1>3. \A k \in Pending : asked'[k] = asked[k]
  BY <1>0 DEF InOrder, ClientMoves
<1>4. ASSUME NEW s \in Seq(Msg), NEW t \in Seq(Msg)
      PROVE  /\ \A i \in DOMAIN (s \o t) :
                    \/ i \in DOMAIN s /\ (s \o t)[i] = s[i]
                    \/ i \notin DOMAIN s /\ i - Len(s) \in DOMAIN t /\ (s \o t)[i] = t[i - Len(s)]
             /\ \A i \in DOMAIN (s \o t), j \in DOMAIN s : i < j => i \in DOMAIN s
             /\ \A i, j \in DOMAIN (s \o t) : i < j => i - Len(s) < j - Len(s)
  BY <1>4
<1>5. ASSUME Waiting' = Waiting, EndsLast(toServer'),
             \A i \in DOMAIN toServer' : toServer'[i].type \notin CopyTypes => \E j \in DOMAIN toServer : toServer[j] = toServer'[i]
      PROVE  InOrder' /\ Pending' = Pending
  <2>1. Pending' = Pending
    BY <1>1, <1>5 DEF Pending
  <2>2. \A k, l \in Pending' : k = l
    BY <2>1 DEF InOrder
  <2>3. /\ \A k \in Pending' : k \in 1..Sent' /\ \A j \in committed' : j < k
        /\ committed' \subseteq 1..Sent'
    BY <1>b, <1>1, <2>1
  <2>4. (\A i \in DOMAIN toServer : OfItsClass(toServer[i]))'
    <3> SUFFICES ASSUME NEW i \in DOMAIN toServer', toServer'[i].type \notin CopyTypes
                 PROVE  toServer'[i].type = "Q" <=> asked'[toServer'[i].cmd].class = "SIMPLE"
      BY DEF OfItsClass
    <3>1. PICK j \in DOMAIN toServer : toServer[j] = toServer'[i]
      BY <1>5
    <3>2. toServer[j].cmd \in Pending
      BY <3>1 DEF Pending, Waiting
    <3>3. toServer[j].type = "Q" <=> asked[toServer[j].cmd].class = "SIMPLE"
      BY <3>1 DEF InOrder, OfItsClass
    <3> QED
      BY <1>3, <3>1, <3>2, <3>3
  <2>5. xact' # Nobody /\ asked'[xact'].class = "SIMPLE" => Waiting' = {}
    BY <1>1, <1>3, <1>5 DEF InOrder, Pending
  <2> QED
    BY <1>5, <2>1, <2>2, <2>3, <2>4, <2>5 DEF InOrder
<1>6. CASE UNCHANGED toServer
  BY <1>5, <1>6 DEF Waiting, EndsLast, InOrder
<1>7. ASSUME NEW t \in Seq(Msg), OfTypes(t, CopyTypes), toServer' = toServer \o t
      PROVE  InOrder' /\ Pending' = Pending
  <2>1. \A i \in DOMAIN toServer' :
            (i \in DOMAIN toServer /\ toServer'[i] = toServer[i]) \/ toServer'[i].type \in CopyTypes
    BY <1>2, <1>4, <1>7 DEF OfTypes
  <2>2. \A i \in DOMAIN toServer : i \in DOMAIN toServer' /\ toServer'[i] = toServer[i]
    BY <1>2, <1>7
  <2>3. Waiting' = Waiting
    BY <2>1, <2>2 DEF Waiting
  <2>4. EndsLast(toServer')
    <3> SUFFICES ASSUME NEW i \in DOMAIN toServer', NEW j \in DOMAIN toServer', i < j,
                        toServer'[i].type \in {"Q", "S"}
                 PROVE  toServer'[j].type \in CopyTypes
      BY DEF EndsLast
    <3>1. i \in DOMAIN toServer /\ toServer'[i] = toServer[i]
      BY <2>1 DEF CopyTypes
    <3> QED
      BY <2>1, <3>1 DEF InOrder, EndsLast
  <2> QED
    BY <1>5, <2>1, <2>3, <2>4
<1>8. CASE /\ ~Dead /\ asyncStatus = "IDLE"
           /\ Sent' = Sent + 1 /\ Sent' \in 1..Len(asked') /\ asked'[Sent'] \in Commands
           /\ toServer' = toServer \o Request(asked'[Sent'], Sent')
  <2> DEFINE t == Request(asked'[Sent'], Sent')
  <2>1. OfTypes(toServer, CopyTypes) /\ xact = Nobody
    BY <1>8 DEF Round, Rests, Waits
  <2>2. asked' \in Seq(Commands) /\ Len(asked') \in Nat
    BY <1>a
  <2>3. /\ t \in Seq(Msg) /\ EndsLast(t)
        /\ \A i \in DOMAIN t : t[i].cmd = Sent' /\ (t[i].type = "Q" <=> asked'[Sent'].class = "SIMPLE")
    BY <1>8, <2>2, RequestIs
  <2> HIDE DEF t
  <2>4. toServer' = toServer \o t
    BY <1>8 DEF t
  <2>5. \A i \in DOMAIN toServer' :
            toServer'[i].type \in CopyTypes
            \/ (i - Len(toServer) \in DOMAIN t /\ toServer'[i] = t[i - Len(toServer)])
    BY <1>2, <1>4, <2>1, <2>3, <2>4 DEF OfTypes
  <2>6. Waiting' \subseteq {Sent'}
    BY <2>3, <2>5 DEF Waiting
  <2>7. Pending' \subseteq {Sent'}
    BY <1>1, <2>1, <2>6 DEF Pending
  <2>8. EndsLast(toServer')
    <3> SUFFICES ASSUME NEW i \in DOMAIN toServer', NEW j \in DOMAIN toServer', i < j,
                        toServer'[i].type \in {"Q", "S"}
                 PROVE  toServer'[j].type \in CopyTypes
      BY DEF EndsLast
    <3>1. toServer'[i].type \notin CopyTypes /\ i - Len(toServer) < j - Len(toServer)
      BY <1>2, <1>4, <2>3, <2>4 DEF CopyTypes
    <3> QED
      BY <2>3, <2>5, <3>1 DEF EndsLast
  <2>9. (\A i \in DOMAIN toServer : OfItsClass(toServer[i]))'
    BY <2>3, <2>5 DEF OfItsClass
  <2>10. \A j \in committed : j < Sent'
    <3>1. \A j \in 1..Sent : j < Sent + 1
      BY <1>0
    <3> QED
      BY <1>8, <3>1 DEF InOrder
  <2>11. Sent' \in 1..Sent'
    BY <1>8, <2>2
  <2>12. /\ \A k, l \in Pending' : k = l
         /\ \A k \in Pending' : k \in 1..Sent' /\ \A j \in committed' : j < k
         /\ committed' \subseteq 1..Sent'
    BY <1>b, <1>1, <2>7, <2>10, <2>11
  <2>13. xact' = Nobody
    BY <1>1, <2>1
  <2>14. InOrder'
    BY <2>8, <2>9, <2>12, <2>13 DEF InOrder
  <2> QED
    BY <1>8, <2>7, <2>14
<1> QED
  BY <1>6, <1>7, <1>8, <1>5 DEF ClientMoves

\* Every step is one of these.
LEMMA StepMoves ==
    ASSUME Typed, Round, InOrder, [Next]_vars
    PROVE  \/ ServerMoves /\ UNCHANGED clientVars
           \/ EventMoves /\ UNCHANGED clientVars
           \/ ClientMoves /\ (Application \/ LibpqStep)
<1>1. CASE Application \/ LibpqStep
  BY <1>1, ClientMovesStep
<1>2. CASE (ServerStep \/ CopyFails) /\ UNCHANGED clientVars
  BY <1>2, ServerMovesStep
<1>3. CASE (ProcessIncomingNotify \/ ServerExits \/ LinkCut) /\ UNCHANGED clientVars
  BY <1>3, EventMovesStep
<1>4. CASE UNCHANGED vars
  BY <1>4 DEF vars, EventMoves, serverVars, wireVars
<1> QED
  BY <1>1, <1>2, <1>3, <1>4 DEF Next, Server

\* Every step keeps the order.
LEMMA InOrderStep ==
    ASSUME Typed, Typed', Round, InOrder, [Next]_vars PROVE InOrder'
<1>1. CASE ServerMoves /\ UNCHANGED clientVars
  BY <1>1, ServerInOrder DEF clientVars
<1>2. CASE EventMoves /\ UNCHANGED clientVars
  BY <1>2, EventInOrder DEF clientVars
<1>3. CASE ClientMoves
  BY <1>3, ClientInOrder
<1> QED
  BY <1>1, <1>2, <1>3, StepMoves

\* At first nothing is pending.
LEMMA InOrderInit == ASSUME Init PROVE InOrder
<1>1. toServer = <<>> /\ xact = Nobody /\ committed = {} /\ DOMAIN <<>> = {}
  BY DEF Init, BackendInit
<1>2. Pending = {}
  BY <1>1 DEF Pending, Waiting
<1> QED
  BY <1>1, <1>2 DEF InOrder, EndsLast

\* What is in a stream, and what is after an error in one.
Heard(s) == {s[i] : i \in DOMAIN s}
Closing == {"A", "Z", "E"}
ErrorsClose(s) == \A i, j \in DOMAIN s : i < j /\ s[i].type = "E" => s[j].type \in Closing

\* A result, or a message, tells of the failure of command k; a message ends
\* the answer of a command of a class.
Errs(res, k) == \E i \in DOMAIN res.err : res.err[i] = k
Fault(m, k) == m.type = "E" /\ m.cmd = k
Concludes(m, k, class) ==
    /\ m.cmd = k
    /\ \/ m.type \in {"C", "I", "E"}
       \/ m.type = "1" /\ class = "PREPARE"
       \/ m.type \in {"T", "n"} /\ class = "DESCRIBE"

\* In PQexecFinish: the failure of the command was told, its answer was, or
\* its ReadyForQuery is due.
Failed ==
    \/ \E m \in Heard(Wire) : Fault(m, Current)
    \/ Errs(result, Current) \/ Errs(call.last, Current)
Concluded ==
    \/ \E m \in Heard(Wire) : Concludes(m, Current, queryclass)
    \/ asyncStatus = "READY"
    \/ call.last # NoResult
Over ==
    \/ \E m \in Heard(Wire) : m.type = "Z"
    \/ asyncStatus = "IDLE" /\ ~Errs(call.last, Lost)
    \/ ~Dead /\ send_ready_for_query
Done == Current \notin Pending /\ Concluded /\ (Current \in committed \/ Failed)

\* After its failure a command is applied no more.
Quits ==
    /\ srv \in {"main", "exit"} /\ xact = Nobody
    /\ ignore_till_sync \/ OfTypes(toServer, CopyTypes)

\* What PQexecFinish holds and waits for: no error is forgotten, ...
ErrorsKept ==
    /\ ErrorsClose(Wire)
    /\ Errs(result, Current) \/ Errs(call.last, Current) => OfTypes(Wire, Closing)
    /\ Errs(call.last, Current) => result = NoResult \/ result.status = "FATAL_ERROR"
    /\ result.err # <<>> => asyncStatus = "READY"

\* ... and what a live server has done with the messages it has read.
HasTold ==
    ~Dead =>
        /\ \A m \in Heard(Wire) : m.type = "E" => m.cmd = Current
        /\ ignore_till_sync => Failed
        /\ srv = "main" /\ toServer # <<>> /\ Head(toServer).type = "S" =>
               Concluded /\ (xact = Current \/ Failed)
        /\ Follow(toServer, LastAsk(queryclass), "S")

Finishes ==
    call.fn = "PQexecFinish" =>
        /\ status = "OK"
        /\ Failed => Current \notin committed /\ Quits
        /\ Over => Done
        /\ ErrorsKept
        /\ HasTold

\* What is in the rest of a stream, and in a longer one.
LEMMA HeardTail ==
    ASSUME NEW s \in Seq(Msg), s # <<>>
    PROVE  /\ Heard(s) = {Head(s)} \cup Heard(Tail(s))
           /\ ErrorsClose(s) => /\ ErrorsClose(Tail(s))
                                /\ Head(s).type = "E" => OfTypes(Tail(s), Closing)
           /\ OfTypes(s, Closing) => OfTypes(Tail(s), Closing) /\ Head(s).type \in Closing
<1>1. /\ \A i \in DOMAIN Tail(s) : i + 1 \in DOMAIN s /\ Tail(s)[i] = s[i + 1] /\ i \in Nat
      /\ 1 \in DOMAIN s /\ Head(s) = s[1]
      /\ \A i \in DOMAIN s : i = 1 \/ (i - 1 \in DOMAIN Tail(s) /\ s[i] = Tail(s)[i - 1])
  <2>1. /\ \A i \in DOMAIN Tail(s) : i + 1 \in DOMAIN s /\ Tail(s)[i] = s[i + 1] /\ i \in Nat
        /\ 1 \in DOMAIN s /\ Head(s) = s[1]
    OBVIOUS
  <2>2. \A i \in DOMAIN s : i = 1 \/ i - 1 \in DOMAIN Tail(s)
    OBVIOUS
  <2>3. \A i \in DOMAIN s : i = 1 \/ s[i] = Tail(s)[i - 1]
    OBVIOUS
  <2> QED
    BY <2>1, <2>2, <2>3
<1>2. \A i, j \in DOMAIN Tail(s) : (i < j => i + 1 < j + 1) /\ 1 < i + 1
  BY <1>1
<1>3. Heard(s) = {Head(s)} \cup Heard(Tail(s))
  <2>1. \A i \in DOMAIN s : s[i] \in {Head(s)} \cup Heard(Tail(s))
    BY <1>1 DEF Heard
  <2>2. \A i \in DOMAIN Tail(s) : Tail(s)[i] \in Heard(s)
    BY <1>1 DEF Heard
  <2>3. Head(s) \in Heard(s)
    BY <1>1 DEF Heard
  <2>4. Heard(s) \subseteq {Head(s)} \cup Heard(Tail(s))
    BY <2>1 DEF Heard
  <2>5. Heard(Tail(s)) \subseteq Heard(s)
    BY <2>2 DEF Heard
  <2> QED
    BY <2>3, <2>4, <2>5
<1>4. ErrorsClose(s) => ErrorsClose(Tail(s)) /\ (Head(s).type = "E" => OfTypes(Tail(s), Closing))
  BY <1>1, <1>2 DEF ErrorsClose, OfTypes
<1>5. OfTypes(s, Closing) => OfTypes(Tail(s), Closing) /\ Head(s).type \in Closing
  BY <1>1 DEF OfTypes
<1> QED
  BY <1>3, <1>4, <1>5

\* Two streams, one after the other: what is in them, and where the errors are.
LEMMA HeardConcat ==
    ASSUME NEW s \in Seq(Msg), NEW t \in Seq(Msg)
    PROVE  /\ Heard(s \o t) = Heard(s) \cup Heard(t)
           /\ OfTypes(s, Closing) /\ OfTypes(t, Closing) => OfTypes(s \o t, Closing)
           /\ /\ \A m \in Heard(s) : m.type # "E"
              /\ \A i \in DOMAIN t : i # Len(t) => t[i].type # "E"
              => ErrorsClose(s \o t)
           /\ ErrorsClose(s) /\ OfTypes(t, Closing) => ErrorsClose(s \o t)
<1>1. /\ \A i \in DOMAIN (s \o t) :
             \/ i \in DOMAIN s /\ (s \o t)[i] = s[i]
             \/ i - Len(s) \in DOMAIN t /\ (s \o t)[i] = t[i - Len(s)] /\ i > Len(s) /\ i <= Len(s) + Len(t)
      /\ \A i \in DOMAIN s : i \in DOMAIN (s \o t) /\ (s \o t)[i] = s[i]
      /\ \A i \in DOMAIN t : i + Len(s) \in DOMAIN (s \o t) /\ (s \o t)[i + Len(s)] = t[i]
      /\ \A i \in DOMAIN s : i <= Len(s) /\ i \in Nat
      /\ Len(s) \in Nat /\ Len(t) \in Nat /\ \A i \in DOMAIN (s \o t) : i \in Nat
  <2>1. \A i \in DOMAIN (s \o t) :
             \/ i \in DOMAIN s /\ (s \o t)[i] = s[i]
             \/ i - Len(s) \in DOMAIN t /\ (s \o t)[i] = t[i - Len(s)]
    OBVIOUS
  <2>2. \A i \in DOMAIN (s \o t) : i - Len(s) \in DOMAIN t => i > Len(s) /\ i <= Len(s) + Len(t)
    OBVIOUS
  <2>3. /\ \A i \in DOMAIN s : i \in DOMAIN (s \o t) /\ (s \o t)[i] = s[i]
        /\ \A i \in DOMAIN t : i + Len(s) \in DOMAIN (s \o t) /\ (s \o t)[i + Len(s)] = t[i]
    OBVIOUS
  <2>4. /\ \A i \in DOMAIN s : i <= Len(s) /\ i \in Nat
        /\ Len(s) \in Nat /\ Len(t) \in Nat /\ \A i \in DOMAIN (s \o t) : i \in Nat
    OBVIOUS
  <2> QED
    BY <2>1, <2>2, <2>3, <2>4
<1>2. Heard(s \o t) = Heard(s) \cup Heard(t)
  <2>1. \A i \in DOMAIN (s \o t) : (s \o t)[i] \in Heard(s) \cup Heard(t)
    BY <1>1 DEF Heard
  <2>2. /\ \A i \in DOMAIN s : s[i] \in Heard(s \o t)
        /\ \A i \in DOMAIN t : t[i] \in Heard(s \o t)
    BY <1>1 DEF Heard
  <2>3. Heard(s \o t) \subseteq Heard(s) \cup Heard(t)
    BY <2>1 DEF Heard
  <2>4. Heard(s) \subseteq Heard(s \o t) /\ Heard(t) \subseteq Heard(s \o t)
    BY <2>2 DEF Heard
  <2> QED
    BY <2>3, <2>4
<1>3. ASSUME OfTypes(s, Closing), OfTypes(t, Closing) PROVE OfTypes(s \o t, Closing)
  BY <1>1, <1>3 DEF OfTypes
<1>4. ASSUME \A m \in Heard(s) : m.type # "E", \A i \in DOMAIN t : i # Len(t) => t[i].type # "E"
      PROVE  ErrorsClose(s \o t)
  <2> SUFFICES ASSUME NEW i \in DOMAIN (s \o t), NEW j \in DOMAIN (s \o t), i < j, (s \o t)[i].type = "E"
               PROVE  FALSE
    BY DEF ErrorsClose
  <2>1. i - Len(s) \in DOMAIN t /\ (s \o t)[i] = t[i - Len(s)]
    BY <1>1, <1>4 DEF Heard
  <2>2. i - Len(s) # Len(t)
    BY <1>1
  <2> QED
    BY <1>4, <2>1, <2>2
<1>5. ASSUME ErrorsClose(s), OfTypes(t, Closing) PROVE ErrorsClose(s \o t)
  <2> SUFFICES ASSUME NEW i \in DOMAIN (s \o t), NEW j \in DOMAIN (s \o t), i < j, (s \o t)[i].type = "E"
               PROVE  (s \o t)[j].type \in Closing
    BY DEF ErrorsClose
  <2>1. CASE j \in DOMAIN s
    <3>1. i \in DOMAIN s
      BY <1>1, <2>1
    <3> QED
      BY <1>1, <1>5, <2>1, <3>1 DEF ErrorsClose
  <2>2. CASE j \notin DOMAIN s
    BY <1>1, <1>5, <2>2 DEF OfTypes
  <2> QED
    BY <2>1, <2>2
<1> QED
  BY <1>2, <1>3, <1>4, <1>5

\* What parsing a message in PQexecFinish does to what is known of the command.
Parses(m) ==
    /\ UNCHANGED <<serverVars, toServer, link, asked, queryclass, call, status>>
    /\ asyncStatus = "READY" => asyncStatus' = "READY"
    /\ result'.err # <<>> => asyncStatus' = "READY"
    /\ Errs(call.last, Current) => result' = result \/ result'.status = "FATAL_ERROR"
    /\ \/ Wire' = Wire /\ result'.err = result.err /\ asyncStatus' # "IDLE"
       \/ /\ Wire' = Tail(Wire)
          /\ Concludes(m, Current, queryclass) => asyncStatus' = "READY"
          /\ asyncStatus' = "IDLE" => asyncStatus = "IDLE" \/ m.type = "Z"
          /\ Errs(result', Current) <=> Errs(result, Current) \/ Fault(m, Current)

\* The parser does this to what PQexecFinish waits for.
LEMMA FinishParses ==
    ASSUME Typed, RowsFit, QuietEnd, Finishes, ParseMessage, call.fn = "PQexecFinish"
    PROVE  Wire # <<>> /\ Parses(Head(Wire))
<1> DEFINE m == Head(inBuffer)
<1>1. /\ inBuffer # <<>>
      /\ getNotify(m) \/ ParseIdle(m) \/ ParseBusy(m)
      /\ UNCHANGED <<serverVars, wireVars, asked, status, queryclass, call>>
      /\ m.type = "A" \/ asyncStatus \in {"BUSY", "IDLE"}
  BY DEF ParseMessage, CanParse
<1>2. UNCHANGED <<serverVars, toServer, link, asked, queryclass, call, status, toClient>>
  BY <1>1 DEF wireVars
<1>3. Wire # <<>> /\ Head(Wire) = m /\ (Consume => Wire' = Tail(Wire))
  <2>1. inBuffer \in Seq(Msg) /\ toClient \in Seq(Msg)
    BY MessagesKnown
  <2>2. ASSUME NEW s \in Seq(Msg), NEW t \in Seq(Msg), s # <<>>
        PROVE  s \o t # <<>> /\ Head(s \o t) = Head(s)
    BY <2>2
  <2>3. Wire # <<>> /\ Head(Wire) = m
    BY <1>1, <2>1, <2>2 DEF Wire
  <2>4. inBuffer # <<>> /\ UNCHANGED toClient
    BY <1>1, <1>2
  <2>5. Consume => Wire' = Tail(Wire)
    BY <2>4, ConsumeWire
  <2> QED
    BY <2>3, <2>5
<1>4. (OfTypes(Wire, Closing) => m.type \in Closing) /\ Current # Nobody
  <2>1. Wire \in Seq(Msg)
    BY MessagesKnown
  <2>2. Current \in Nat /\ Current > 0
    BY DEF Typed, ServerTyped, ClientTyped, Current
  <2>3. OfTypes(Wire, Closing) => m.type \in Closing
    BY <1>3, <2>1, HeardTail
  <2>4. Current # Nobody
    BY <2>2 DEF Nobody
  <2> QED
    BY <2>3, <2>4
<1>5. /\ result.err # <<>> => asyncStatus = "READY"
      /\ Errs(call.last, Current) => m.type \in Closing
  <2>1. ErrorsKept
    BY DEF Finishes
  <2> QED
    BY <1>4, <2>1 DEF ErrorsKept
<1>6. m.type = "D" => Rows
  BY <1>3 DEF RowsFit
<1>7. asyncStatus = "IDLE" => Quiet(m)
  <2>1. Wire \in Seq(Msg)
    BY MessagesKnown
  <2>2. 1 \in DOMAIN Wire /\ Wire[1] = m /\ 1 > 0
    BY <1>3, <2>1
  <2> QED
    BY <2>2 DEF QuietEnd, QuietFrom
<1>8. CASE getNotify(m)
  <2>1. m.type = "A" /\ Consume /\ UNCHANGED <<asyncStatus, result>>
    BY <1>8 DEF getNotify
  <2>2. ~Concludes(m, Current, queryclass) /\ ~Fault(m, Current)
    BY <2>1 DEF Concludes, Fault
  <2> QED
    BY <1>2, <1>3, <1>5, <2>1, <2>2 DEF Parses
<1>9. CASE ParseIdle(m)
  <2>1. asyncStatus = "IDLE" /\ Consume /\ UNCHANGED <<asyncStatus, result>> /\ m.type # "A"
    BY <1>9 DEF ParseIdle
  <2>2. m.cmd = Nobody
    BY <1>7, <2>1 DEF Quiet
  <2>3. ~Concludes(m, Current, queryclass) /\ ~Fault(m, Current)
    BY <1>4, <2>2 DEF Concludes, Fault
  <2> QED
    BY <1>2, <1>3, <1>5, <2>1, <2>3 DEF Parses
<1>10. CASE ParseBusy(m)
  <2>0. asyncStatus = "BUSY" /\ result.err = <<>> /\ ~Errs(result, Current)
    <3>1. asyncStatus = "BUSY" /\ result.err = <<>>
      BY <1>5, <1>10 DEF ParseBusy
    <3>2. DOMAIN <<>> = {}
      OBVIOUS
    <3> QED
      BY <3>1, <3>2 DEF Errs
  <2>1. ASSUME NEW s, Build(s, m) PROVE result'.err = <<>> /\ ~Errs(result', Current)
    <3>1. result'.err = <<>>
      BY <2>0, <2>1 DEF Build, Result, Typed, ClientTyped, Results
    <3>2. DOMAIN <<>> = {}
      OBVIOUS
    <3> QED
      BY <3>1, <3>2 DEF Errs
  <2>2. CASE ParseEnd(m)
    <3>1. asyncStatus' = "READY" /\ Consume
      BY <2>2 DEF ParseEnd
    <3>2. CASE m.type = "E"
      <4>1. result' = [FatalError(<<m.cmd>>) EXCEPT !.from = {m.cmd}]
        BY <2>2, <3>2 DEF ParseEnd
      <4>2. result'.err = <<m.cmd>> /\ result'.status = "FATAL_ERROR"
        BY <4>1 DEF FatalError, Result
      <4>3. Errs(result', Current) <=> Fault(m, Current)
        <5>1. ASSUME NEW x PROVE 1 \in DOMAIN <<x>> /\ <<x>>[1] = x /\ \A i \in DOMAIN <<x>> : <<x>>[i] = x
          OBVIOUS
        <5> QED
          BY <3>2, <4>2, <5>1 DEF Errs, Fault
      <4> QED
        BY <1>2, <1>3, <2>0, <3>1, <4>2, <4>3 DEF Parses
    <3>3. CASE m.type # "E"
      <4>1. \E s : Build(s, m)
        BY <2>2, <3>3 DEF ParseEnd
      <4>2. result'.err = <<>> /\ ~Errs(result', Current) /\ ~Fault(m, Current)
        BY <2>1, <3>3, <4>1 DEF Fault
      <4>3. m.type \notin Closing
        BY <2>2, <3>3 DEF ParseEnd, Closing
      <4> QED
        BY <1>2, <1>3, <1>5, <2>0, <3>1, <4>2, <4>3 DEF Parses
    <3> QED
      BY <3>2, <3>3
  <2>3. ASSUME m.type \in Types \ {"E", "Z"}, m.type \notin Closing,
               ~Concludes(m, Current, queryclass),
               Consume, asyncStatus' # "IDLE", result'.err = <<>>
        PROVE  Parses(m)
    <3>1. ~Errs(result', Current) /\ ~Fault(m, Current)
      <4>1. DOMAIN <<>> = {}
        OBVIOUS
      <4> QED
        BY <2>3, <4>1 DEF Errs, Fault
    <3> QED
      BY <1>2, <1>3, <1>5, <2>0, <2>3, <3>1 DEF Parses
  <2>4. CASE ParseReadyForQuery(m)
    <3>1. m.type = "Z" /\ asyncStatus' = "IDLE" /\ Consume /\ UNCHANGED result
      BY <2>4 DEF ParseReadyForQuery
    <3>2. ~Concludes(m, Current, queryclass) /\ ~Fault(m, Current)
      BY <3>1 DEF Concludes, Fault
    <3> QED
      BY <1>2, <1>3, <2>0, <3>1, <3>2 DEF Parses
  <2>5. CASE ParseRowDescription(m)
    <3>1. m.type = "T" /\ queryclass # "DESCRIBE"
      BY <2>5 DEF ParseRowDescription
    <3>2. m.type \notin Closing /\ ~Concludes(m, Current, queryclass) /\ m.type \in Types \ {"E", "Z"}
      BY <3>1 DEF Closing, Concludes, Types
    <3>3. CASE result = NoResult
      <4>1. Build("TUPLES_OK", m) /\ Consume /\ UNCHANGED asyncStatus
        BY <2>5, <3>3 DEF ParseRowDescription
      <4>2. result'.err = <<>>
        BY <2>1, <4>1
      <4> QED
        BY <1>3, <2>0, <2>3, <3>2, <4>1, <4>2
    <3>4. CASE result # NoResult
      <4>1. asyncStatus' = "READY" /\ UNCHANGED <<result, inBuffer>>
        BY <2>5, <3>4 DEF ParseRowDescription
      <4>2. Wire' = Wire
        BY <1>2, <4>1 DEF Wire
      <4> QED
        BY <1>2, <1>3, <4>1, <4>2 DEF Parses
    <3> QED
      BY <3>3, <3>4
  <2>6. CASE ParseDataRow(m)
    <3>1. m.type = "D" /\ Consume /\ UNCHANGED asyncStatus /\ result.status = "TUPLES_OK"
      BY <1>6, <2>6 DEF ParseDataRow, Rows
    <3>2. result'.err = <<>>
      BY <2>1, <2>6, <3>1 DEF ParseDataRow
    <3>3. m.type \notin Closing /\ ~Concludes(m, Current, queryclass) /\ m.type \in Types \ {"E", "Z"}
      BY <3>1 DEF Closing, Concludes, Types
    <3> QED
      BY <1>3, <2>0, <2>3, <3>1, <3>2, <3>3
  <2>7. CASE getCopyStart(m) \/ ParseParameterDescription(m)
    <3>1. m.type \in {"G", "H", "t"} /\ Consume /\ asyncStatus' # "IDLE"
      BY <2>0, <2>7 DEF getCopyStart, ParseParameterDescription
    <3>2. result'.err = <<>>
      BY <2>7 DEF getCopyStart, ParseParameterDescription, Result
    <3>3. m.type \notin Closing /\ ~Concludes(m, Current, queryclass) /\ m.type \in Types \ {"E", "Z"}
      BY <3>1 DEF Closing, Concludes, Types
    <3> QED
      BY <1>3, <2>3, <3>1, <3>2, <3>3
  <2>8. CASE ParseNothing(m)
    <3>1. /\ \/ m.type \in {"2", "d", "c"}
             \/ m.type = "1" /\ queryclass # "PREPARE"
             \/ m.type = "n" /\ queryclass # "DESCRIBE"
          /\ Consume /\ UNCHANGED <<asyncStatus, result>>
      BY <2>8 DEF ParseNothing
    <3>2. m.type \notin Closing /\ ~Concludes(m, Current, queryclass) /\ m.type \in Types \ {"E", "Z"}
      BY <3>1 DEF Closing, Concludes, Types
    <3> QED
      BY <1>3, <2>0, <2>3, <3>1, <3>2
  <2> QED
    BY <1>3, <1>10, <2>2, <2>4, <2>5, <2>6, <2>7, <2>8 DEF ParseBusy
<1> QED
  BY <1>1, <1>3, <1>8, <1>9, <1>10

\* A step of the client that forgets nothing keeps what PQexecFinish relies on.
LEMMA GoesOnFinishing ==
    ASSUME Finishes, call.fn = "PQexecFinish",
           UNCHANGED <<serverVars, toServer, link, asked, queryclass, status>>,
           Failed' => Failed, Failed => Failed', Concluded => Concluded', Over' => Over, ErrorsKept',
           Heard(Wire') \subseteq Heard(Wire)
    PROVE  Finishes'
<1>1. UNCHANGED <<srv, todo, xact, ignore_till_sync, send_ready_for_query, committed>>
      /\ Current' = Current /\ Pending' = Pending /\ (Dead' <=> Dead)
  BY DEF serverVars, Current, Pending, Waiting, Dead
<1>2. status' = "OK" /\ (Failed' => Current \notin committed /\ Quits)
  BY DEF Finishes
<1>3. Quits => Quits'
  BY <1>1 DEF Quits, OfTypes
<1>4. Over' => Done'
  <2>1. Over => Current \notin Pending /\ Concluded /\ (Current \in committed \/ Failed)
    BY DEF Finishes, Done
  <2> QED
    BY <1>1, <2>1 DEF Done
<1>5. HasTold'
  <2>1. HasTold
    BY DEF Finishes
  <2> QED
    BY <1>1, <2>1 DEF HasTold, Follow
<1> QED
  BY <1>1, <1>2, <1>3, <1>4, <1>5 DEF Finishes

\* Parsing keeps what is known.
LEMMA ParseFinishes ==
    ASSUME Typed, RowsFit, QuietEnd, Finishes, ParseMessage, call.fn = "PQexecFinish"
    PROVE  Finishes'
<1> DEFINE m == Head(Wire)
<1>1. Wire # <<>> /\ Parses(m) /\ Wire \in Seq(Msg)
  BY FinishParses, MessagesKnown
<1>2. /\ Heard(Wire) = {m} \cup Heard(Tail(Wire))
      /\ ErrorsClose(Wire) => /\ ErrorsClose(Tail(Wire))
                              /\ m.type = "E" => OfTypes(Tail(Wire), Closing)
      /\ OfTypes(Wire, Closing) => OfTypes(Tail(Wire), Closing) /\ m.type \in Closing
  BY <1>1, HeardTail
<1>3. /\ ErrorsKept
      /\ Current' = Current /\ call' = call /\ queryclass' = queryclass
      /\ UNCHANGED <<serverVars, toServer, link, asked, queryclass, status>>
  BY <1>1 DEF Finishes, Parses, Current
<1> HIDE DEF m
<1>4. CASE Wire' = Wire /\ result'.err = result.err /\ asyncStatus' # "IDLE"
  <2>1. Errs(result', Current) <=> Errs(result, Current)
    BY <1>4 DEF Errs
  <2>2. (Failed' => Failed) /\ (Failed => Failed')
    BY <1>3, <1>4, <2>1 DEF Failed
  <2>3. Concluded => Concluded'
    BY <1>1, <1>3, <1>4 DEF Concluded, Parses
  <2>4. Over' => Over
    BY <1>3, <1>4 DEF Over, Dead, serverVars
  <2>5. ErrorsKept'
    BY <1>1, <1>3, <1>4, <2>1 DEF ErrorsKept, Parses, OfTypes, ErrorsClose
  <2>6. Heard(Wire') \subseteq Heard(Wire)
    BY <1>4 DEF Heard
  <2> QED
    BY <1>3, <2>2, <2>3, <2>4, <2>5, <2>6, GoesOnFinishing
<1>5. CASE /\ Wire' = Tail(Wire)
           /\ Concludes(m, Current, queryclass) => asyncStatus' = "READY"
           /\ asyncStatus' = "IDLE" => asyncStatus = "IDLE" \/ m.type = "Z"
           /\ Errs(result', Current) <=> Errs(result, Current) \/ Fault(m, Current)
  <2>0. Heard(Wire) = {m} \cup Heard(Wire)'
    BY <1>2, <1>5 DEF Heard
  <2>2. (Failed' => Failed) /\ (Failed => Failed')
    BY <1>3, <1>5, <2>0 DEF Failed
  <2>3. Concluded => Concluded'
    BY <1>1, <1>3, <1>5, <2>0 DEF Concluded, Parses
  <2>4. Over' => Over
    BY <1>3, <1>5, <2>0 DEF Over, Dead, serverVars
  <2>5. ErrorsKept'
    <3>1. ErrorsClose(Wire)'
      BY <1>2, <1>3, <1>5 DEF ErrorsKept, ErrorsClose
    <3>2. Errs(result', Current) \/ Errs(call.last, Current) => OfTypes(Wire, Closing)'
      BY <1>2, <1>3, <1>5 DEF ErrorsKept, Fault, OfTypes
    <3>3. Errs(call.last, Current) => result' = NoResult \/ result'.status = "FATAL_ERROR"
      BY <1>1, <1>3 DEF ErrorsKept, Parses
    <3>4. result'.err # <<>> => asyncStatus' = "READY"
      BY <1>1 DEF Parses
    <3> QED
      BY <1>3, <3>1, <3>2, <3>3, <3>4 DEF ErrorsKept
  <2> QED
    BY <1>3, <2>0, <2>2, <2>3, <2>4, <2>5, GoesOnFinishing
<1> QED
  BY <1>1, <1>4, <1>5 DEF Parses

\* Merging forgets no error.
LEMMA MergedErrs ==
    ASSUME NEW n \in Nat, NEW last \in Results(n), NEW res \in Results(n)
    PROVE  /\ res.status = "FATAL_ERROR" =>
                  /\ \A k : Errs(Merged(last, res), k) <=> Errs(last, k) \/ Errs(res, k)
                  /\ Merged(last, res).status = "FATAL_ERROR"
           /\ res.status # "FATAL_ERROR" => Merged(last, res) = res
           /\ res.status # "FATAL_ERROR" => res.err = <<>> /\ \A k : ~Errs(res, k)
<1>0. DOMAIN <<>> = {}
  OBVIOUS
<1>1. /\ last.status # "FATAL_ERROR" => \A k : ~Errs(last, k)
      /\ res.status # "FATAL_ERROR" => res.err = <<>> /\ \A k : ~Errs(res, k)
  BY <1>0 DEF Results, Errs
<1>2. res.status # "FATAL_ERROR" \/ last.status # "FATAL_ERROR" => Merged(last, res) = res
  BY DEF Merged
<1>3. CASE res.status = "FATAL_ERROR" /\ last.status = "FATAL_ERROR"
  <2>1. Merged(last, res).err = last.err \o res.err /\ Merged(last, res).status = "FATAL_ERROR"
        /\ last.err \in Seq(Int) /\ res.err \in Seq(Int)
    BY <1>3 DEF Merged, Results
  <2>2. ASSUME NEW s \in Seq(Int), NEW t \in Seq(Int), NEW k
        PROVE  (\E i \in DOMAIN (s \o t) : (s \o t)[i] = k)
                   <=> (\E i \in DOMAIN s : s[i] = k) \/ (\E i \in DOMAIN t : t[i] = k)
    <3>1. /\ \A i \in DOMAIN (s \o t) :
                 \/ i \in DOMAIN s /\ (s \o t)[i] = s[i]
                 \/ i - Len(s) \in DOMAIN t /\ (s \o t)[i] = t[i - Len(s)]
          /\ \A i \in DOMAIN s : i \in DOMAIN (s \o t) /\ (s \o t)[i] = s[i]
          /\ \A i \in DOMAIN t : i + Len(s) \in DOMAIN (s \o t) /\ (s \o t)[i + Len(s)] = t[i]
      OBVIOUS
    <3> QED
      BY <3>1
  <2>3. ASSUME NEW k PROVE Errs(Merged(last, res), k) <=> Errs(last, k) \/ Errs(res, k)
    <3>1. (\E i \in DOMAIN (last.err \o res.err) : (last.err \o res.err)[i] = k)
              <=> Errs(last, k) \/ Errs(res, k)
      <4>1. \A t : (\E i \in DOMAIN (last.err \o res.err) : (last.err \o res.err)[i] = t)
                <=> (\E i \in DOMAIN last.err : last.err[i] = t) \/ (\E i \in DOMAIN res.err : res.err[i] = t)
        BY <2>1, <2>2
      <4> QED
        BY <4>1 DEF Errs
    <3> QED
      BY <2>1, <3>1 DEF Errs
  <2> QED
    BY <1>3, <2>1, <2>3
<1> QED
  BY <1>1, <1>2, <1>3

\* PQexecFinish goes on with another result.
LEMMA HandlesFinishes ==
    ASSUME Typed, Finishes, call.fn = "PQexecFinish", NEW res \in Results(Len(asked)),
           call' = [call EXCEPT !.last = Merged(call.last, res)], result' = NoResult,
           UNCHANGED <<serverVars, wireVars, asked, queryclass, status, inBuffer>>,
           res # NoResult,
           Errs(res, Current) <=> Errs(result, Current),
           Errs(call.last, Current) => res.status = "FATAL_ERROR",
           \/ asyncStatus' = "BUSY"
           \/ res.status = "FATAL_ERROR" /\ Errs(res, Lost)
    PROVE  Finishes'
<1> DEFINE last == Merged(call.last, res)
<1>0. /\ Len(asked) \in Nat /\ call.last \in Results(Len(asked))
      /\ call'.last = last /\ Current' = Current /\ Wire' = Wire
      /\ UNCHANGED <<serverVars, toServer, link, asked, queryclass, status>>
      /\ call \in [fn : Calling, last : Results(Len(asked))]
  BY DEF Typed, ServerTyped, ClientTyped, Current, Wire, wireVars
<1>1. /\ res.status = "FATAL_ERROR" =>
             /\ \A k : Errs(last, k) <=> Errs(call.last, k) \/ Errs(res, k)
             /\ last.status = "FATAL_ERROR"
      /\ res.status # "FATAL_ERROR" => last = res
      /\ res.status # "FATAL_ERROR" => res.err = <<>> /\ \A k : ~Errs(res, k)
  BY <1>0, MergedErrs
<1> HIDE DEF last
<1>2. last # NoResult
  BY <1>1 DEF NoResult, Result
<1>3. Errs(last, Current) <=> Errs(call.last, Current) \/ Errs(result, Current)
  BY <1>1
<1>4. ~Errs(result', Current) /\ result'.err = <<>>
  <2>1. DOMAIN <<>> = {}
    OBVIOUS
  <2> QED
    BY <2>1 DEF NoResult, Result, Errs
<1>5. (Failed' => Failed) /\ (Failed => Failed')
  BY <1>0, <1>3, <1>4 DEF Failed
<1>6. Concluded'
  BY <1>0, <1>2 DEF Concluded
<1>7. Over' => Over
  <2>1. asyncStatus' = "IDLE" => Errs(call'.last, Lost)
    BY <1>0, <1>1
  <2> QED
    BY <1>0, <2>1 DEF Over, Dead, serverVars
<1>8. ErrorsKept'
  <2>1. ErrorsKept
    BY DEF Finishes
  <2>2. ErrorsClose(Wire)' /\ (OfTypes(Wire, Closing) => OfTypes(Wire, Closing)')
    BY <1>0, <2>1 DEF ErrorsKept, ErrorsClose, OfTypes
  <2> QED
    BY <1>0, <1>3, <1>4, <2>1, <2>2 DEF ErrorsKept
<1>9. Heard(Wire') \subseteq Heard(Wire)
  BY <1>0 DEF Heard
<1> QED
  BY <1>0, <1>5, <1>6, <1>7, <1>8, <1>9, GoesOnFinishing

\* The read of PQgetResult fails in PQexecFinish.
LEMMA FailsFinishes ==
    ASSUME Typed, Finishes, call.fn = "PQexecFinish", GetResultFails
    PROVE  Finishes'
<1> DEFINE res == pqSaveErrorResult(<<Lost>>)
<1>1. /\ FinishHandles(res) /\ result' = NoResult /\ asyncStatus = "BUSY"
      /\ UNCHANGED <<serverVars, wireVars, asked, queryclass, inBuffer>>
      /\ status' = "BAD" \/ UNCHANGED status
  BY DEF GetResultFails, ReadFails
<1>2. /\ Len(asked) \in Nat /\ result \in Results(Len(asked)) /\ Current \in Nat
      /\ call \in [fn : Calling, last : Results(Len(asked))]
  BY DEF Typed, ServerTyped, ClientTyped, Current
<1>3. result.err = <<>> /\ status = "OK"
  BY <1>1 DEF Finishes, ErrorsKept
<1>4. res = FatalError(<<Lost>>)
  BY <1>2, <1>3 DEF pqSaveErrorResult, Results
<1>5. res \in Results(Len(asked))
  <2>1. <<Lost>> \in Seq(Int) /\ <<Lost>> # <<>>
    BY DEF Lost
  <2> QED
    BY <2>1, SaveErrorTyped
<1>6. res.status = "FATAL_ERROR" /\ res.err = <<Lost>>
  BY <1>4 DEF FatalError, Result
<1> HIDE DEF res
<1>7. \A k : Errs(res, k) <=> k = Lost
  <2>1. ASSUME NEW x PROVE 1 \in DOMAIN <<x>> /\ <<x>>[1] = x /\ \A i \in DOMAIN <<x>> : <<x>>[i] = x
    OBVIOUS
  <2> QED
    BY <1>6, <2>1 DEF Errs
<1>8. ~Errs(result, Current) /\ Current # Lost
  <2>1. DOMAIN <<>> = {}
    OBVIOUS
  <2> QED
    BY <1>2, <1>3, <2>1 DEF Errs, Lost
<1>9. CASE call'.fn # "PQexecFinish"
  BY <1>9 DEF Finishes
<1>10. CASE call'.fn = "PQexecFinish"
  <2>1. call' = [call EXCEPT !.last = Merged(call.last, res)] /\ status' # "BAD"
    BY <1>1, <1>10 DEF FinishHandles, ExecReturns, NoCall
  <2>2. UNCHANGED <<serverVars, wireVars, asked, queryclass, status, inBuffer>>
    BY <1>1, <2>1
  <2>3. res # NoResult
    BY <1>6 DEF NoResult, Result
  <2>4. Errs(res, Current) <=> Errs(result, Current)
    BY <1>7, <1>8
  <2>5. res.status = "FATAL_ERROR" /\ Errs(res, Lost)
    BY <1>6, <1>7
  <2> QED
    BY <1>1, <1>5, <2>1, <2>2, <2>3, <2>4, <2>5, HandlesFinishes
<1> QED
  BY <1>9, <1>10

\* PQgetResult in PQexecFinish reads, returns a result or NULL.
LEMMA GetResultFinishes ==
    ASSUME Typed, Finishes, call.fn = "PQexecFinish",
           GetResultReads \/ GetResultReturns \/ GetResultNull
    PROVE  Finishes'
<1>1. CASE call'.fn # "PQexecFinish"
  BY <1>1 DEF Finishes
<1>2. CASE GetResultNull
  <2>1. call' = NoCall
    BY <1>2 DEF GetResultNull, ExecReturns
  <2> QED
    BY <1>1, <2>1 DEF NoCall
<1>3. CASE GetResultReads
  <2>1. Wire' = Wire
    BY <1>3, ArrivesWire DEF GetResultReads
  <2>2. /\ UNCHANGED <<serverVars, toServer, link, asked, queryclass, status>>
        /\ UNCHANGED <<asyncStatus, result, call>>
    BY <1>3 DEF GetResultReads
  <2>3. Current' = Current
    BY <2>2 DEF Current
  <2>4. (Failed' => Failed) /\ (Failed => Failed') /\ (Concluded => Concluded')
    BY <2>1, <2>2, <2>3 DEF Failed, Concluded
  <2>5. Over' => Over
    BY <2>1, <2>2 DEF Over, Dead, serverVars
  <2>6. ErrorsKept'
    BY <2>1, <2>2, <2>3 DEF Finishes, ErrorsKept, OfTypes, ErrorsClose
  <2>7. Heard(Wire') \subseteq Heard(Wire)
    BY <2>1 DEF Heard
  <2> QED
    BY <2>2, <2>4, <2>5, <2>6, <2>7, GoesOnFinishing
<1>4. CASE GetResultReturns /\ call'.fn = "PQexecFinish"
  <2>1. /\ FinishHandles(Prepared) /\ result' = NoResult
        /\ UNCHANGED <<serverVars, wireVars, asked, queryclass, status, inBuffer>>
        /\ asyncStatus' = IF asyncStatus = "READY" THEN "BUSY" ELSE asyncStatus
        /\ asyncStatus \in {"READY", "COPY_IN", "COPY_OUT"}
    BY <1>4 DEF GetResultReturns, ResultReady, CopyStatuses
  <2>2. /\ Prepared.status \notin CopyStatuses
        /\ call' = [call EXCEPT !.last = Merged(call.last, Prepared)]
    BY <1>4, <2>1 DEF FinishHandles, ExecReturns, NoCall
  <2>3. /\ Prepared \in Results(Len(asked))
        /\ asyncStatus = "READY" => Prepared = result
        /\ asyncStatus # "READY" => Prepared.status = asyncStatus
    BY <2>1, PreparedTyped
  <2>4. asyncStatus = "READY" /\ Prepared = result
    BY <2>1, <2>2, <2>3 DEF CopyStatuses
  <2>5. Prepared # NoResult
    BY <2>4 DEF Typed, ClientTyped
  <2>6. Errs(call.last, Current) => Prepared.status = "FATAL_ERROR"
    BY <2>4, <2>5 DEF Finishes, ErrorsKept
  <2> QED
    BY <2>1, <2>2, <2>3, <2>4, <2>5, <2>6, HandlesFinishes
<1> QED
  BY <1>1, <1>2, <1>3, <1>4

\* PQexecFinish begins when the request goes out, with nothing left of before.
LEMMA SendsFinishes ==
    ASSUME Typed, Round, QuietEnd, ExecSends
    PROVE  Finishes'
<1> SUFFICES ASSUME call'.fn = "PQexecFinish" PROVE Finishes'
  BY DEF Finishes
<1> DEFINE c == asked[Current]
           t == Request(c, Current)
<1>1. /\ Sends(c) /\ call' = InCall("PQexecFinish") /\ UNCHANGED <<asked, serverVars, link>>
      /\ call.fn = "PQexecStart"
  BY DEF ExecSends, ExecReturns, NoCall, SendUnchanged
<1>2. /\ status' = "OK" /\ asyncStatus = "IDLE" /\ asyncStatus' = "BUSY" /\ result' = NoResult
      /\ queryclass' = c.class /\ Wire' = Wire
      /\ toServer' = IF Dead THEN toServer ELSE toServer \o t
      /\ call'.last = NoResult /\ Current' = Current
  BY <1>1 DEF Sends, Flush, Wire, InCall, Current
<1>3. Current \in 1..Len(asked) /\ Len(asked) \in Nat /\ c \in Commands /\ Current # Nobody
  <2>1. asked \in Seq(Commands) /\ Len(asked) > 0
    BY <1>1 DEF Typed, ServerTyped, ClientTyped
  <2>2. Len(asked) \in 1..Len(asked) /\ Len(asked) \in Nat /\ asked[Len(asked)] \in Commands /\ Len(asked) # 0
    BY <2>1
  <2> QED
    BY <2>2 DEF Current, Nobody
<1>4. \A i \in DOMAIN Wire : Quiet(Wire[i])
  <2>1. Wire \in Seq(Msg)
    BY MessagesKnown
  <2>2. \A i \in DOMAIN Wire : i > 0
    BY <2>1
  <2> QED
    BY <1>2, <2>2 DEF QuietEnd, QuietFrom
<1>5. ~Failed'
  <2>1. \A m \in Heard(Wire) : ~Fault(m, Current)
    BY <1>3, <1>4 DEF Heard, Quiet, Fault
  <2>2. ~Errs(NoResult, Current)
    <3>1. DOMAIN <<>> = {}
      OBVIOUS
    <3> QED
      BY <3>1 DEF NoResult, Result, Errs
  <2> QED
    BY <1>2, <2>1, <2>2 DEF Failed
<1>6. ~Dead => /\ OfTypes(toServer, CopyTypes) /\ OfTypes(Wire, {"A"})
               /\ ~send_ready_for_query /\ ~ignore_till_sync
  BY <1>2 DEF Round, Rests, Waits
<1>7. (Dead' <=> Dead) /\ UNCHANGED <<send_ready_for_query, ignore_till_sync>>
  BY <1>1 DEF Dead, serverVars
<1>8. ~Over'
  <2>1. \A m \in Heard(Wire) : m.type # "Z"
    BY <1>4 DEF Heard, Quiet
  <2> QED
    BY <1>2, <1>6, <1>7, <2>1 DEF Over
<1>9. ErrorsKept'
  <2>1. OfTypes(Wire, Closing)
    BY <1>4 DEF OfTypes, Quiet, Closing
  <2>2. ErrorsClose(Wire)' /\ OfTypes(Wire, Closing)'
    BY <1>2, <2>1 DEF ErrorsClose, OfTypes
  <2>3. result' = NoResult /\ result'.err = <<>>
    BY <1>2 DEF NoResult, Result
  <2> QED
    BY <2>2, <2>3 DEF ErrorsKept
<1>10. ASSUME ~Dead
       PROVE  /\ ~(toServer' # <<>> /\ Head(toServer').type = "S")
              /\ Follow(toServer', LastAsk(queryclass'), "S")
  <2>1. toServer \in Seq(Msg)
    BY RequestsKnown
  <2>2. t \in Seq(Msg) /\ (t # <<>> => Head(t).type # "S") /\ Follow(t, LastAsk(c.class), "S")
    BY <1>3, RequestIs
  <2> HIDE DEF t
  <2>3. toServer' = toServer \o t
    BY <1>2, <1>10
  <2>4. OfTypes(toServer, CopyTypes)
    BY <1>6, <1>10
  <2>5. Follow(toServer, LastAsk(c.class), "S")
    BY <2>4 DEF Follow, OfTypes, CopyTypes
  <2>6. Follow(toServer \o t, LastAsk(c.class), "S")
    BY <2>1, <2>2, <2>5, FollowConcat
  <2>7. toServer # <<>> => Head(toServer).type # "S"
    <3>1. toServer # <<>> => 1 \in DOMAIN toServer /\ Head(toServer) = toServer[1]
      BY <2>1
    <3> QED
      BY <2>4, <3>1 DEF OfTypes, CopyTypes
  <2>8. ASSUME NEW s \in Seq(Msg), NEW u \in Seq(Msg), s \o u # <<>>
        PROVE  Head(s \o u) = IF s = <<>> THEN Head(u) ELSE Head(s)
    BY <2>8
  <2>9. toServer = <<>> /\ toServer \o t # <<>> => t # <<>>
    BY <2>1, <2>2
  <2>10. ~(toServer \o t # <<>> /\ Head(toServer \o t).type = "S")
    BY <2>1, <2>2, <2>7, <2>8, <2>9
  <2> QED
    BY <1>2, <2>3, <2>6, <2>10
<1>11. HasTold'
  <2>1. ~Dead => \A m \in Heard(Wire)' : m.type # "E"
    BY <1>2, <1>6 DEF Heard, OfTypes
  <2> QED
    BY <1>6, <1>7, <1>10, <2>1 DEF HasTold
<1> QED
  BY <1>2, <1>5, <1>8, <1>9, <1>11 DEF Finishes

\* No other call enters it.
LEMMA ClientFinishes ==
    ASSUME Typed, Round, RowsFit, QuietEnd, Finishes, Application \/ LibpqStep
    PROVE  Finishes'
<1>1. CASE call'.fn # "PQexecFinish"
  BY <1>1 DEF Finishes
<1>2. CASE ExecSends
  BY <1>2, SendsFinishes
<1>3. CASE ParseMessage
  <2>1. UNCHANGED call
    BY <1>3 DEF ParseMessage
  <2> QED
    BY <1>1, <1>3, <2>1, ParseFinishes
<1>4. CASE GetResultFails
  <2>1. call.fn # "PQexecFinish" => call' \in {NoCall, call}
    BY <1>4 DEF GetResultFails, InGetResult, ExecReturns
  <2> QED
    BY <1>1, <1>4, <2>1, FailsFinishes DEF NoCall
<1>5. CASE GetResultReads \/ GetResultReturns \/ GetResultNull
  <2>1. call.fn # "PQexecFinish" => call' \in {NoCall, call}
    BY <1>5 DEF GetResultReads, GetResultReturns, GetResultNull
  <2> QED
    BY <1>1, <1>5, <2>1, GetResultFinishes DEF NoCall
<1>6. CASE ExecStartDiscards \/ GetCopyDataStep \/ ParseInputReturns
  <2>1. call' \in {NoCall, call} /\ call.fn # "PQexecFinish"
    BY <1>6 DEF ExecStartDiscards, ExecReturns, GetCopyDataStep, ParseInputReturns
  <2> QED
    BY <1>1, <2>1 DEF NoCall
<1>7. CASE Application
  <2>1. call.fn = "none" /\ (call' = call \/ \E fn : fn # "PQexecFinish" /\ call' = InCall(fn))
    <3>1. CASE \E c \in Commands : PQexec(c) \/ PQsendQuery(c)
      <4>1. PICK c \in Commands : PQexec(c) \/ PQsendQuery(c)
        BY <3>1
      <4>2. CASE PQexec(c)
        BY <4>2 DEF PQexec, Calls, Idle
      <4>3. CASE PQsendQuery(c)
        BY <4>3 DEF PQsendQuery, Calls, Idle
      <4> QED
        BY <4>1, <4>2, <4>3
    <3>2. CASE PQgetResult \/ PQputCopyData \/ PQputCopyEnd \/ PQgetCopyData \/ PQconsumeInput
      BY <3>2 DEF PQgetResult, PQputCopyData, PQputCopyEnd, PQgetCopyData, PQconsumeInput, Calls, Idle
    <3> QED
      BY <1>7, <3>1, <3>2 DEF Application
  <2>2. call'.fn # "PQexecFinish"
    BY <2>1 DEF InCall
  <2> QED
    BY <1>1, <2>2
<1> QED
  BY <1>2, <1>3, <1>4, <1>5, <1>6, <1>7 DEF LibpqStep

-----------------------------------------------------------------------------
\* After its failure a command is not taken up again: the server skips to the
\* Sync, or waits for the next command.
LEMMA QuitsStep ==
    ASSUME Typed, InOrder, Quits, ServerStep \/ CopyFails
    PROVE  /\ Quits' /\ UNCHANGED committed /\ srv = "main"
           /\ UNCHANGED toClient \/ ReadyForQuery
<1>1. /\ toServer \in Seq(Msg) /\ xact = Nobody
      /\ toServer # <<>> /\ OfTypes(toServer, CopyTypes) =>
             OfTypes(Tail(toServer), CopyTypes) /\ Head(toServer).type \in CopyTypes
  BY RequestsKnown, OfTypesProperties DEF Quits
<1>2. srv = "main"
  BY DEF Quits, ServerStep, ReadyForQuery, ReadQuery, ReadExecute, ReadParseBindDescribe, ReadSync,
         ReadCopyLeftover, RunStatement, ReceiveCopyBegin, CopyGetData, CopyFails, Reads
<1>3. CASE ReadyForQuery
  <2>1. UNCHANGED <<toServer, srv, xact, ignore_till_sync, committed>>
    BY <1>3 DEF ReadyForQuery
  <2> QED
    BY <1>2, <1>3, <2>1 DEF Quits
<1>4. CASE ReadQuery \/ ReadExecute \/ ReadParseBindDescribe
  <2>1. toServer # <<>> /\ Head(toServer).type \in {"Q", "E", "P", "B", "D"} /\ toServer' = Tail(toServer)
    BY <1>4 DEF ReadQuery, ReadExecute, ReadParseBindDescribe, Reads
  <2>2. Head(toServer).type \notin CopyTypes
    BY <2>1 DEF CopyTypes
  <2>3. ignore_till_sync
    BY <1>1, <2>1, <2>2 DEF Quits
  <2>4. Skips
    BY <1>4, <2>3 DEF ReadQuery, ReadExecute, ReadParseBindDescribe
  <2> QED
    BY <1>1, <1>2, <2>3, <2>4 DEF Quits, Skips
<1>5. CASE ReadSync
  <2>1. toServer # <<>> /\ Head(toServer).type = "S" /\ toServer' = Tail(toServer)
    BY <1>5 DEF ReadSync, Reads
  <2>2. finish_xact_command /\ UNCHANGED <<toClient, srv>>
    BY <1>1, <1>5 DEF ReadSync
  <2>3. xact' = Nobody /\ committed' = committed
    BY <1>1, <2>2 DEF finish_xact_command
  <2>4. OfTypes(toServer', CopyTypes)
    <3>1. \A i \in DOMAIN Tail(toServer) : /\ i + 1 \in DOMAIN toServer /\ Tail(toServer)[i] = toServer[i + 1]
                                           /\ 1 < i + 1
      BY <1>1, <2>1
    <3>2. 1 \in DOMAIN toServer /\ Head(toServer) = toServer[1]
      BY <1>1, <2>1
    <3> QED
      BY <2>1, <3>1, <3>2 DEF OfTypes, InOrder, EndsLast
  <2> QED
    BY <1>2, <2>2, <2>3, <2>4 DEF Quits
<1>6. CASE ReadCopyLeftover
  <2>1. toServer # <<>> /\ toServer' = Tail(toServer)
    BY <1>6 DEF ReadCopyLeftover, Reads
  <2> QED
    BY <1>1, <1>2, <1>6, <2>1 DEF ReadCopyLeftover, Quits, Skips
<1>7. ~(RunStatement \/ ReceiveCopyBegin \/ CopyGetData \/ CopyFails)
  BY <1>2 DEF RunStatement, ReceiveCopyBegin, CopyGetData, CopyFails
<1> QED
  BY <1>3, <1>4, <1>5, <1>6, <1>7 DEF ServerStep

\* A step of the server while PQexecFinish waits on a live connection.
Serving ==
    /\ Typed /\ Round /\ Round' /\ InOrder /\ Finishes
    /\ ~Dead /\ ~Dead' /\ call.fn = "PQexecFinish"
    /\ UNCHANGED clientVars /\ ServerMoves

\* What such a step says and does is enough for its command to stay in order.
LEMMA TurnFinishes ==
    ASSUME Serving, NEW t \in Seq(Msg), Wire' = Wire \o t,
           (\E m \in Heard(t) : m.type = "Z") => send_ready_for_query,
           \A m \in Heard(t) : m.type = "E" => m.cmd = Current,
           IF Failed THEN OfTypes(t, Closing) ELSE \A i \in DOMAIN t : i # Len(t) => t[i].type # "E",
           send_ready_for_query' =>
               send_ready_for_query \/ (Concluded' /\ (Current \in committed' \/ Failed')),
           Failed' => Current \notin committed' /\ Quits',
           ignore_till_sync' => Failed',
           srv' = "main" /\ toServer' # <<>> /\ Head(toServer').type = "S" =>
               Concluded' /\ (xact' = Current \/ Failed')
    PROVE  Finishes'
<1>1. /\ Typed /\ Round /\ Round' /\ InOrder /\ ServerMoves /\ call.fn = "PQexecFinish" /\ ~Dead
      /\ UNCHANGED <<status, queryclass, call, asyncStatus, result, asked>>
  BY DEF Serving, clientVars, parserVars, ServerMoves
<1>2. /\ status = "OK" /\ (Failed => Current \notin committed /\ Quits) /\ (Over => Done)
      /\ ErrorsKept /\ HasTold
  BY <1>1 DEF Serving, Finishes
<1>3. Current' = Current
  BY <1>1 DEF Current
<1>4. Wire \in Seq(Msg) /\ toServer \in Seq(Msg)
  BY <1>1, MessagesKnown, RequestsKnown
<1>5. Heard(Wire') = Heard(Wire) \cup Heard(t)
  BY <1>4, HeardConcat
<1>6. (Failed => Failed') /\ (Concluded => Concluded')
  <2>1. Failed => Failed'
    BY <1>1, <1>3, <1>5 DEF Failed, Fault
  <2>2. Concluded => Concluded'
    BY <1>1, <1>3, <1>5 DEF Concluded, Concludes
  <2> QED
    BY <2>1, <2>2
<1>7. Pending' \subseteq Pending /\ committed \subseteq committed'
  BY <1>1, PendingShrinks
<1>8. send_ready_for_query' => Pending' = {}
  <2> SUFFICES ASSUME send_ready_for_query' PROVE Pending' = {}
    OBVIOUS
  <2>1. IF asyncStatus' = "IDLE" THEN Rests' ELSE (Requested \/ Runs \/ Ends \/ Ended)'
    BY <1>1 DEF Round, Serving
  <2>2. Ends'
    BY <2>1 DEF Rests, Requested, Runs, Ended, Waits
  <2> QED
    BY <2>2 DEF Ends, OfTypes, Pending, Waiting
<1>9. Over' => Done'
  <2>1. Over => Done'
    BY <1>2, <1>3, <1>6, <1>7 DEF Done
  <2>2. CASE \E m \in Heard(Wire') : m.type = "Z"
    BY <1>1, <1>5, <2>1, <2>2 DEF Over
  <2>3. CASE asyncStatus' = "IDLE" /\ ~Errs(call'.last, Lost)
    BY <1>1, <2>1, <2>3 DEF Over
  <2>4. CASE send_ready_for_query'
    <3>1. CASE send_ready_for_query
      BY <1>1, <2>1, <3>1 DEF Over
    <3>2. CASE ~send_ready_for_query
      BY <1>3, <1>8, <2>4, <3>2 DEF Done
    <3> QED
      BY <3>1, <3>2
  <2> QED
    BY <2>2, <2>3, <2>4 DEF Over
<1>10. ErrorsKept'
  <2>1. ErrorsClose(Wire')
    <3>1. CASE Failed
      BY <1>2, <1>4, <3>1, HeardConcat DEF ErrorsKept
    <3>2. CASE ~Failed
      <4>1. \A m \in Heard(Wire) : m.type # "E"
        BY <1>1, <1>2, <3>2 DEF HasTold, Failed, Fault
      <4> QED
        BY <1>4, <3>2, <4>1, HeardConcat
    <3> QED
      BY <3>1, <3>2
  <2>2. (Errs(result', Current') \/ Errs(call'.last, Current')) => OfTypes(Wire', Closing)
    <3> SUFFICES ASSUME Errs(result, Current) \/ Errs(call.last, Current) PROVE OfTypes(Wire', Closing)
      BY <1>1, <1>3
    <3>1. Failed /\ OfTypes(Wire, Closing)
      BY <1>2 DEF Failed, ErrorsKept
    <3> QED
      BY <1>4, <3>1, HeardConcat
  <2> QED
    BY <1>1, <1>2, <1>3, <2>1, <2>2 DEF ErrorsKept
<1>11. HasTold'
  <2>1. Follow(toServer', LastAsk(queryclass'), "S")
    <3>1. Follow(toServer, LastAsk(queryclass), "S")
      BY <1>1, <1>2 DEF HasTold
    <3>2. CASE UNCHANGED toServer
      BY <1>1, <3>1, <3>2
    <3>3. CASE toServer # <<>> /\ toServer' = Tail(toServer)
      BY <1>1, <1>4, <3>1, <3>3, FollowTail
    <3> QED
      BY <1>1, <3>2, <3>3 DEF ServerMoves
  <2>2. \A m \in Heard(Wire') : m.type = "E" => m.cmd = Current'
    BY <1>1, <1>2, <1>3, <1>5 DEF HasTold
  <2> QED
    BY <1>3, <2>1, <2>2 DEF HasTold
<1> QED
  BY <1>1, <1>2, <1>3, <1>9, <1>10, <1>11 DEF Finishes

\* What is known while it waits: about whom the server speaks.
LEMMA ServingFacts ==
    ASSUME Serving
    PROVE  /\ Typed /\ Round /\ InOrder /\ ServerMoves /\ ~Dead /\ link = "up"
           /\ UNCHANGED <<status, queryclass, call, asyncStatus, result, inBuffer, asked>>
           /\ Current' = Current /\ Sent = Current /\ Current \in Nat /\ Current # Nobody
           /\ Failed => Concluded /\ Current \notin committed /\ Quits
           /\ HasTold
           /\ toServer \in Seq(Msg)
<1>1. /\ Typed /\ Round /\ Round' /\ InOrder /\ ServerMoves /\ call.fn = "PQexecFinish" /\ ~Dead
      /\ UNCHANGED <<status, queryclass, call, asyncStatus, result, inBuffer, asked>>
  BY DEF Serving, clientVars, parserVars, ServerMoves
<1>2. /\ (Failed => Current \notin committed /\ Quits) /\ ErrorsKept /\ HasTold
  BY <1>1 DEF Serving, Finishes
<1>3. /\ Current' = Current /\ Sent = Current
  BY <1>1 DEF Current, Sent
<1>4. Len(asked) > 0 /\ Len(asked) \in Nat
  BY <1>1 DEF Typed, ClientTyped, ServerTyped
<1>5. Current \in Nat /\ Current # Nobody
  BY <1>4 DEF Current, Nobody
<1>6. link = "up"
  BY <1>1 DEF Typed, ServerTyped, Dead
<1>7. Failed => Concluded
  <2>1. DOMAIN <<>> = {}
    OBVIOUS
  <2>2. Errs(call.last, Current) => call.last # NoResult
    BY <2>1 DEF Errs, NoResult, Result
  <2>3. Errs(result, Current) => asyncStatus = "READY"
    BY <1>2, <2>1 DEF Errs, ErrorsKept
  <2>4. (\E m \in Heard(Wire) : Fault(m, Current)) => \E m \in Heard(Wire) : Concludes(m, Current, queryclass)
    BY DEF Fault, Concludes
  <2> QED
    BY <2>2, <2>3, <2>4 DEF Failed, Concluded
<1> QED
  BY <1>1, <1>2, <1>3, <1>5, <1>6, <1>7, RequestsKnown

\* More is said: what was said before still is.
LEMMA SaidMore ==
    ASSUME Serving, NEW t \in Seq(Msg), Wire' = Wire \o t
    PROVE  /\ Failed' <=> Failed \/ \E m \in Heard(t) : Fault(m, Current)
           /\ Concluded' <=> Concluded \/ \E m \in Heard(t) : Concludes(m, Current, queryclass)
<1>1. Heard(Wire') = Heard(Wire) \cup Heard(t)
  BY ServingFacts, MessagesKnown, HeardConcat
<1> QED
  BY <1>1, ServingFacts DEF Failed, Concluded

\* Nothing is said, one thing is.
LEMMA SaidOne ==
    ASSUME NEW m \in Msg
    PROVE  /\ <<m>> \in Seq(Msg) /\ Heard(<<m>>) = {m}
           /\ \A i \in DOMAIN <<m>> : i = Len(<<m>>)
           /\ \A T : OfTypes(<<m>>, T) <=> m.type \in T
           /\ <<>> \in Seq(Msg) /\ Heard(<<>>) = {} /\ \A T : OfTypes(<<>>, T) /\ DOMAIN <<>> = {}
           /\ \A s \in Seq(Msg) : s \o <<>> = s
<1>1. ASSUME NEW x
      PROVE  /\ 1 \in DOMAIN <<x>> /\ <<x>>[1] = x
             /\ \A i \in DOMAIN <<x>> : <<x>>[i] = x /\ i = Len(<<x>>)
  OBVIOUS
<1>2. DOMAIN <<>> = {} /\ <<>> \in Seq(Msg) /\ <<m>> \in Seq(Msg)
  OBVIOUS
<1>3. Heard(<<m>>) = {m}
  BY <1>1 DEF Heard
<1>4. \A T : OfTypes(<<m>>, T) <=> m.type \in T
  BY <1>1 DEF OfTypes
<1>5. Heard(<<>>) = {} /\ \A T : OfTypes(<<>>, T)
  BY <1>2 DEF Heard, OfTypes
<1>6. \A s \in Seq(Msg) : s \o <<>> = s
  OBVIOUS
<1> QED
  BY <1>1, <1>2, <1>3, <1>4, <1>5, <1>6

\* An answer of one message.
LEMMA OneAnswer ==
    ASSUME Serving, NEW type \in Types, NEW k \in Nat, Answer(<<type>>, k)
    PROVE  \E m \in Msg : m.type = type /\ m.cmd = k /\ Wire' = Wire \o <<m>>
<1> DEFINE m == Message(type, k)
<1>1. m \in Msg /\ m.type = type /\ m.cmd = k
  BY DEF Message, Msg
<1>2. <<type>> \in Seq(Types)
  OBVIOUS
<1>3. Messages(<<type>>, k) = <<m>>
  BY DEF Messages
<1>4. Wire' = Wire \o Messages(<<type>>, k)
  BY <1>2, ServingFacts, AnswerWire
<1> QED
  BY <1>1, <1>3, <1>4

\* After the failure the server says nothing of the command.
LEMMA FailedTurn ==
    ASSUME Serving, Failed, ServerStep \/ CopyFails PROVE Finishes'
<1>1. /\ Quits' /\ UNCHANGED committed /\ srv = "main" /\ (UNCHANGED toClient \/ ReadyForQuery)
      /\ Concluded /\ Current \notin committed /\ Current' = Current
  BY ServingFacts, QuitsStep
<1>2. ASSUME NEW t \in Seq(Msg), Wire' = Wire \o t, OfTypes(t, Closing),
             \A m \in Heard(t) : m.type # "E",
             (\E m \in Heard(t) : m.type = "Z") => send_ready_for_query
      PROVE  Finishes'
  <2>1. Failed' /\ Concluded'
    BY <1>1, <1>2, SaidMore
  <2> QED
    BY <1>1, <1>2, <2>1, TurnFinishes
<1>3. CASE UNCHANGED toClient
  <2>1. Wire' = Wire \o <<>>
    <3>1. Wire' = Wire
      BY <1>3, ServingFacts DEF Wire
    <3> QED
      BY <3>1, ServingFacts, MessagesKnown
  <2>2. <<>> \in Seq(Msg) /\ Heard(<<>>) = {} /\ OfTypes(<<>>, Closing)
    <3>1. DOMAIN <<>> = {}
      OBVIOUS
    <3> QED
      BY <3>1 DEF Heard, OfTypes
  <2> QED
    BY <1>2, <2>1, <2>2
<1>4. CASE ReadyForQuery
  <2>1. Answer(<<"Z">>, Nobody) /\ send_ready_for_query
    BY <1>4 DEF ReadyForQuery
  <2>2. PICK m \in Msg : m.type = "Z" /\ Wire' = Wire \o <<m>>
    <3>1. "Z" \in Types /\ Nobody \in Nat
      BY DEF Types, Nobody
    <3> QED
      BY <2>1, <3>1, OneAnswer
  <2>3. <<m>> \in Seq(Msg) /\ Heard(<<m>>) = {m} /\ OfTypes(<<m>>, Closing)
    BY <2>2, SaidOne DEF Closing
  <2> QED
    BY <1>2, <2>1, <2>2, <2>3
<1> QED
  BY <1>1, <1>3, <1>4

\* What the server says of a command before it is done with it.
Plain == Types \ {"E", "Z", "A"}

\* The output of a statement is such.
LEMMA OutputPlain ==
    /\ Output \in Seq(Plain)
    /\ \A n \in 0..Len(Output) : SubSeq(Output, 1, n) \in Seq(Plain)
<1>0. {"D", "T", "H", "d", "c"} \subseteq Plain
  BY DEF Plain, Types
<1>1. /\ <<"D">> \in Seq(Plain) /\ <<"T", "D">> \in Seq(Plain) /\ <<>> \in Seq(Plain)
      /\ <<"H", "d", "c">> \in Seq(Plain)
  BY <1>0
<1>2. Output \in Seq(Plain)
  BY <1>1 DEF Output
<1>3. ASSUME NEW s \in Seq(Plain), NEW n \in 0..Len(s) PROVE SubSeq(s, 1, n) \in Seq(Plain)
  <2>1. n \in Int /\ \A i \in 1..n : s[i] \in Plain
    BY <1>3
  <2> QED
    BY <2>1, SubSeqProperties
<1> QED
  BY <1>2, <1>3

\* So are the answers to Parse, Bind and Describe, and which ones end an answer.
LEMMA ReplyPlain ==
    ASSUME NEW c, NEW type \in {"P", "B", "D"}
    PROVE  /\ Reply(type, c) \in Seq(Plain)
           /\ type = "P" => \E i \in DOMAIN Reply(type, c) : Reply(type, c)[i] = "1"
           /\ type = "D" => \E i \in DOMAIN Reply(type, c) : Reply(type, c)[i] \in {"T", "n"}
<1>0. {"1", "2", "t", "T", "n"} \subseteq Plain
  BY DEF Plain, Types
<1>1. CASE type = "P"
  BY <1>0, <1>1 DEF Reply
<1>2. CASE type = "B"
  BY <1>0, <1>2 DEF Reply
<1>3. CASE type = "D"
  <2> DEFINE s == IF c.class = "DESCRIBE" THEN <<"t">> ELSE <<>>
             t == IF c.stmts = <<"rows">> THEN <<"T">> ELSE <<"n">>
  <2>1. <<"t">> \in Seq(Plain) /\ <<>> \in Seq(Plain) /\ <<"T">> \in Seq(Plain) /\ <<"n">> \in Seq(Plain)
    BY <1>0
  <2>2. s \in Seq(Plain) /\ t \in Seq(Plain)
    BY <2>1
  <2>3. 1 \in DOMAIN t /\ t[1] \in {"T", "n"}
    OBVIOUS
  <2>4. Reply(type, c) = s \o t
    BY <1>3 DEF Reply
  <2> HIDE DEF s, t
  <2>5. ASSUME NEW u \in Seq(Plain), NEW v \in Seq(Plain), 1 \in DOMAIN v
        PROVE  u \o v \in Seq(Plain) /\ \E i \in DOMAIN (u \o v) : (u \o v)[i] = v[1]
    <3>1. u \o v \in Seq(Plain) /\ Len(u) + 1 \in DOMAIN (u \o v) /\ (u \o v)[Len(u) + 1] = v[1]
      BY <2>5
    <3> QED
      BY <3>1
  <2>6. s \o t \in Seq(Plain) /\ \E i \in DOMAIN (s \o t) : (s \o t)[i] = t[1]
    BY <2>2, <2>3, <2>5
  <2> QED
    BY <1>3, <2>3, <2>4, <2>6
<1> QED
  BY <1>1, <1>2, <1>3

\* An answer about the command: what it tells.
LEMMA AnswerTells ==
    ASSUME Serving, NEW types \in Seq(Types), Answer(types, Current)
    PROVE  \E t \in Seq(Msg) :
             /\ Wire' = Wire \o t
             /\ DOMAIN t = DOMAIN types /\ Len(t) = Len(types)
             /\ \A i \in DOMAIN types : t[i].type = types[i] /\ t[i].cmd = Current
             /\ \A i \in DOMAIN types : t[i] \in Heard(t)
             /\ \A m \in Heard(t) : \E i \in DOMAIN types : m = t[i]
<1> DEFINE t == Messages(types, Current)
<1>1. Wire' = Wire \o t /\ t \in Seq(Msg)
  BY ServingFacts, AnswerWire
<1>2. /\ DOMAIN t = DOMAIN types
      /\ \A i \in DOMAIN types : t[i].type = types[i] /\ t[i].cmd = Current
  BY DEF Messages, Message
<1> HIDE DEF t
<1>3. Len(t) = Len(types)
  BY <1>1, <1>2
<1>4. /\ \A i \in DOMAIN types : t[i] \in Heard(t)
      /\ \A m \in Heard(t) : \E i \in DOMAIN types : m = t[i]
  BY <1>2 DEF Heard
<1> QED
  BY <1>1, <1>2, <1>3, <1>4

\* The command fails.
LEMMA FailsTurn ==
    ASSUME Serving, ~Failed, NEW types \in Seq(Plain), NEW e \in BOOLEAN, Fails(types, Current, e),
           Current \in Pending, e \/ OfTypes(toServer', CopyTypes)
    PROVE  Finishes'
<1> DEFINE ts == Append(types, "E")
<1>1. /\ Answer(ts, Current)
      /\ srv' = "main" /\ xact' = Nobody /\ ignore_till_sync' = e /\ UNCHANGED committed
  BY DEF Fails
<1>2. /\ "E" \in Types /\ Plain \subseteq Types /\ "E" \notin Plain /\ "Z" \notin Plain
      /\ types \in Seq(Types)
  <2>1. "E" \in Types /\ Plain \subseteq Types /\ "E" \notin Plain /\ "Z" \notin Plain
    BY DEF Types, Plain
  <2> QED
    BY <2>1
<1>3. ASSUME NEW S, NEW s \in Seq(S), NEW x
      PROVE  /\ Len(Append(s, x)) \in DOMAIN Append(s, x) /\ Append(s, x)[Len(Append(s, x))] = x
             /\ \A i \in DOMAIN Append(s, x) : i # Len(Append(s, x)) => Append(s, x)[i] \in S
  BY <1>3
<1>4. /\ Len(ts) \in DOMAIN ts /\ ts[Len(ts)] = "E"
      /\ \A i \in DOMAIN ts : i # Len(ts) => ts[i] \in Plain
      /\ ts \in Seq(Types)
  BY <1>2, <1>3
<1> HIDE DEF ts
<1>5. PICK t \in Seq(Msg) :
             /\ Wire' = Wire \o t
             /\ DOMAIN t = DOMAIN ts /\ Len(t) = Len(ts)
             /\ \A i \in DOMAIN ts : t[i].type = ts[i] /\ t[i].cmd = Current
             /\ \A i \in DOMAIN ts : t[i] \in Heard(t)
             /\ \A m \in Heard(t) : \E i \in DOMAIN ts : m = t[i]
  BY <1>1, <1>4, AnswerTells
<1>6. \E m \in Heard(t) : Fault(m, Current) /\ Concludes(m, Current, queryclass)
  BY <1>4, <1>5 DEF Fault, Concludes
<1>7. Failed' /\ Concluded'
  BY <1>5, <1>6, SaidMore
<1>8. Current \notin committed'
  <2>1. \A j \in committed : j < Current
    BY ServingFacts DEF InOrder
  <2>2. Current \in Nat
    BY ServingFacts
  <2>3. ~(Current < Current)
    BY <2>2
  <2> QED
    BY <1>1, <2>1, <2>3
<1>9. Quits'
  BY <1>1 DEF Quits
<1>10. /\ ~\E m \in Heard(t) : m.type = "Z"
       /\ \A m \in Heard(t) : m.type = "E" => m.cmd = Current
       /\ \A i \in DOMAIN t : i # Len(t) => t[i].type # "E"
  <2>1. \A i \in DOMAIN ts : ts[i] # "Z"
    BY <1>2, <1>4
  <2> QED
    BY <1>2, <1>4, <1>5, <2>1
<1> QED
  BY <1>5, <1>7, <1>8, <1>9, <1>10, TurnFinishes

\* The server says something of the command that is no failure, and goes on.
LEMMA GoesOnTurn ==
    ASSUME Serving, ~Failed, NEW types \in Seq(Plain), Answer(types, Current) \/ (types = <<>> /\ UNCHANGED toClient),
           ~ignore_till_sync',
           NEW c \in BOOLEAN,
           c => \/ Concluded
                \/ \E i \in DOMAIN types :
                       \/ types[i] \in {"C", "I"}
                       \/ types[i] = "1" /\ queryclass = "PREPARE"
                       \/ types[i] \in {"T", "n"} /\ queryclass = "DESCRIBE",
           send_ready_for_query' => c /\ Current \in committed',
           srv' = "main" /\ toServer' # <<>> /\ Head(toServer').type = "S" => c /\ xact' = Current
    PROVE  Finishes'
<1>1. Plain \subseteq Types /\ "E" \notin Plain /\ "Z" \notin Plain /\ types \in Seq(Types)
  <2>1. Plain \subseteq Types /\ "E" \notin Plain /\ "Z" \notin Plain
    BY DEF Types, Plain
  <2> QED
    BY <2>1
<1>2. PICK t \in Seq(Msg) :
             /\ Wire' = Wire \o t
             /\ DOMAIN t = DOMAIN types
             /\ \A i \in DOMAIN types : t[i].type = types[i] /\ t[i].cmd = Current
             /\ \A i \in DOMAIN types : t[i] \in Heard(t)
             /\ \A m \in Heard(t) : \E i \in DOMAIN types : m = t[i]
  <2>1. CASE Answer(types, Current)
    BY <1>1, <2>1, AnswerTells
  <2>2. CASE types = <<>> /\ UNCHANGED toClient
    <3>1. Wire' = Wire \o <<>> /\ <<>> \in Seq(Msg)
      <4>1. Wire' = Wire
        BY <2>2, ServingFacts DEF Wire
      <4> QED
        BY <4>1, ServingFacts, MessagesKnown
    <3>2. DOMAIN <<>> = {}
      OBVIOUS
    <3>3. Heard(<<>>) = {}
      BY <3>2 DEF Heard
    <3> QED
      BY <2>2, <3>1, <3>2, <3>3
  <2> QED
    BY <2>1, <2>2
<1>3. \A i \in DOMAIN types : types[i] \in Plain
  OBVIOUS
<1>4. /\ ~\E m \in Heard(t) : m.type \in {"Z", "E"}
      /\ \A i \in DOMAIN t : t[i].type # "E"
  BY <1>1, <1>2, <1>3
<1>5. ~Failed'
  BY <1>2, <1>4, SaidMore DEF Fault
<1>6. c => Concluded'
  <2>1. ASSUME NEW i \in DOMAIN types,
               \/ types[i] \in {"C", "I"}
               \/ types[i] = "1" /\ queryclass = "PREPARE"
               \/ types[i] \in {"T", "n"} /\ queryclass = "DESCRIBE"
        PROVE  Concludes(t[i], Current, queryclass) /\ t[i] \in Heard(t)
    BY <1>2, <2>1 DEF Concludes
  <2> QED
    BY <1>2, <2>1, SaidMore
<1> QED
  BY <1>2, <1>4, <1>5, <1>6, TurnFinishes

\* What is read of the request is about the command, which is pending then.
LEMMA ReadsOfIt ==
    ASSUME Serving, NEW types, Reads(types), types \cap CopyTypes = {}
    PROVE  /\ toServer # <<>> /\ toServer' = Tail(toServer) /\ Head(toServer).type \in types
           /\ srv = "main" /\ ~send_ready_for_query
           /\ xact \in {Nobody, Current}
           /\ Head(toServer).type \in Asks \cup {End}
           /\ Head(toServer).type \notin CopyTypes /\ Head(toServer).cmd = Current
           /\ Current \in Waiting
<1>1. Typed /\ Round /\ InOrder /\ ~Dead /\ UNCHANGED clientVars /\ Sent = Current
  BY ServingFacts DEF Serving
<1>2. /\ toServer # <<>> /\ toServer' = Tail(toServer) /\ Head(toServer).type \in types
      /\ srv = "main" /\ ~send_ready_for_query
      /\ Asked /\ Requested
  BY <1>1, ReadingRound
<1>3. Head(toServer).type \notin CopyTypes
  BY <1>2
<1>4. Head(toServer).cmd = Sent /\ Head(toServer).type \in Asks \cup {End}
  BY <1>1, <1>2, <1>3, ReadsRound DEF Requested
<1>5. Head(toServer).cmd \in Waiting
  BY <1>1, <1>2, <1>3, WaitingTail
<1> QED
  BY <1>1, <1>2, <1>3, <1>4, <1>5 DEF Asked

\* The command starts to run, or leftovers of a COPY are dropped.
LEMMA StartsTurn ==
    ASSUME Serving, ~Failed, ReadQuery \/ ReadExecute \/ ReadCopyLeftover
    PROVE  Finishes'
<1>1. HasTold /\ ~Dead /\ toServer \in Seq(Msg)
  BY ServingFacts
<1>2. ~ignore_till_sync
  BY <1>1 DEF HasTold
<1>3. <<>> \in Seq(Plain)
  OBVIOUS
<1>4. CASE ReadQuery \/ ReadExecute
  <2>1. Starts(Head(toServer).cmd) /\ ~send_ready_for_query
    BY <1>2, <1>4 DEF ReadQuery, ReadExecute, Reads
  <2>2. srv' = "query" /\ ~send_ready_for_query' /\ ~ignore_till_sync' /\ UNCHANGED toClient
    BY <1>2, <2>1 DEF Starts
  <2> QED
    BY <1>3, <2>2, GoesOnTurn
<1>5. CASE ReadCopyLeftover
  <2>1. /\ toServer # <<>> /\ toServer' = Tail(toServer) /\ Head(toServer).type \in {"d", "c", "f"}
        /\ ~send_ready_for_query /\ Skips
    BY <1>5 DEF ReadCopyLeftover, Reads
  <2>2. ~send_ready_for_query' /\ ~ignore_till_sync' /\ UNCHANGED toClient
    BY <1>2, <2>1 DEF Skips
  <2>3. ~(toServer' # <<>> /\ Head(toServer').type = "S")
    <3>1. toServer' # <<>> /\ Head(toServer').type = "S" => Head(toServer).type = LastAsk(queryclass)
      BY <1>1, <2>1, FollowTail DEF HasTold
    <3> QED
      BY <2>1, <3>1 DEF LastAsk
  <2> QED
    BY <1>3, <2>2, <2>3, GoesOnTurn
<1> QED
  BY <1>4, <1>5

\* Parse, Bind and Describe: the last one before the Sync ends the answer.
LEMMA ParseTurn ==
    ASSUME Serving, ~Failed, ReadParseBindDescribe
    PROVE  Finishes'
<1> DEFINE type == Head(toServer).type
<1>1. HasTold /\ ~Dead /\ toServer \in Seq(Msg)
  BY ServingFacts
<1>2. ~ignore_till_sync
  BY <1>1 DEF HasTold
<1>3. Reads({"P", "B", "D"}) /\ {"P", "B", "D"} \cap CopyTypes = {}
  BY DEF ReadParseBindDescribe, CopyTypes
<1>4. /\ toServer # <<>> /\ toServer' = Tail(toServer) /\ type \in {"P", "B", "D"}
      /\ srv = "main" /\ ~send_ready_for_query
      /\ type \in Asks \cup {End}
      /\ Head(toServer).cmd = Current /\ Current \in Waiting
  BY <1>3, ReadsOfIt
<1>5. CASE Fails(<<>>, Head(toServer).cmd, TRUE)
  <2>1. <<>> \in Seq(Plain) /\ Current \in Pending
    BY <1>4 DEF Pending
  <2> QED
    BY <1>4, <1>5, <2>1, FailsTurn
<1>6. CASE /\ Answer(Reply(type, asked[Head(toServer).cmd]), Head(toServer).cmd)
           /\ xact' = Head(toServer).cmd
           /\ UNCHANGED <<srv, todo, committed, send_ready_for_query, ignore_till_sync>>
  <2> DEFINE types == Reply(type, asked[Current])
  <2>1. /\ types \in Seq(Plain)
        /\ type = "P" => \E i \in DOMAIN types : types[i] = "1"
        /\ type = "D" => \E i \in DOMAIN types : types[i] \in {"T", "n"}
    BY <1>4, ReplyPlain
  <2>2. Answer(types, Current) /\ xact' = Current /\ ~ignore_till_sync' /\ ~send_ready_for_query'
    BY <1>2, <1>4, <1>6
  <2> HIDE DEF types
  <2> DEFINE c == toServer' # <<>> /\ Head(toServer').type = "S"
  <2>3. c => type = LastAsk(queryclass)
    BY <1>1, <1>4, FollowTail DEF HasTold
  <2>4. queryclass \in {"EXTENDED", "PREPARE", "DESCRIBE"}
    <3>1. queryclass # "SIMPLE"
      BY <1>4 DEF Asks, End, CopyTypes
    <3> QED
      BY <3>1, ServingFacts DEF Typed, ClientTyped, Classes
  <2>5. c => \/ type = "P" /\ queryclass = "PREPARE"
             \/ type = "D" /\ queryclass = "DESCRIBE"
    BY <1>4, <2>3, <2>4 DEF LastAsk
  <2>6. c => \E i \in DOMAIN types :
                \/ types[i] \in {"C", "I"}
                \/ types[i] = "1" /\ queryclass = "PREPARE"
                \/ types[i] \in {"T", "n"} /\ queryclass = "DESCRIBE"
    BY <2>1, <2>5
  <2>7. c \in BOOLEAN
    OBVIOUS
  <2>8. srv' = "main" /\ toServer' # <<>> /\ Head(toServer').type = "S" => c /\ xact' = Current
    BY <2>2
  <2> HIDE DEF c
  <2> QED
    BY <2>1, <2>2, <2>6, <2>7, <2>8, GoesOnTurn
<1> QED
  BY <1>2, <1>5, <1>6 DEF ReadParseBindDescribe

\* The Sync commits, or fails.
LEMMA SyncTurn ==
    ASSUME Serving, ~Failed, ReadSync
    PROVE  Finishes'
<1>1. HasTold /\ ~Dead /\ toServer \in Seq(Msg) /\ Current # Nobody /\ InOrder
  BY ServingFacts
<1>2. Reads({"S"}) /\ {"S"} \cap CopyTypes = {}
  BY DEF ReadSync, CopyTypes
<1>3. /\ toServer # <<>> /\ toServer' = Tail(toServer) /\ Head(toServer).type = "S"
      /\ srv = "main" /\ xact \in {Nobody, Current}
  BY <1>2, ReadsOfIt
<1>4. Concluded /\ xact = Current
  BY <1>1, <1>3 DEF HasTold
<1>5. OfTypes(toServer', CopyTypes)
  <2>1. \A i \in DOMAIN Tail(toServer) : /\ i + 1 \in DOMAIN toServer /\ Tail(toServer)[i] = toServer[i + 1]
                                         /\ 1 < i + 1
    BY <1>1, <1>3
  <2>2. 1 \in DOMAIN toServer /\ Head(toServer) = toServer[1]
    BY <1>1, <1>3
  <2> QED
    BY <1>1, <1>3, <2>1, <2>2 DEF OfTypes, InOrder, EndsLast
<1>6. <<>> \in Seq(Plain)
  OBVIOUS
<1>7. CASE Fails(<<>>, xact, FALSE)
  <2>1. Current \in Pending
    BY <1>1, <1>4 DEF Pending
  <2>2. Fails(<<>>, Current, FALSE)
    BY <1>4, <1>7
  <2> QED
    BY <1>5, <1>6, <2>1, <2>2, FailsTurn
<1>8. CASE /\ finish_xact_command /\ send_ready_for_query' = TRUE /\ ignore_till_sync' = FALSE
           /\ UNCHANGED <<toClient, srv, todo>>
  <2>1. Current \in committed'
    BY <1>1, <1>4, <1>8 DEF finish_xact_command
  <2>2. ~(toServer' # <<>> /\ Head(toServer').type = "S")
    <3>1. toServer' # <<>> => 1 \in DOMAIN toServer' /\ Head(toServer') = toServer'[1]
      <4>1. ASSUME NEW s \in Seq(Msg), s # <<>> PROVE 1 \in DOMAIN s /\ Head(s) = s[1]
        BY <4>1
      <4>2. toServer' \in Seq(Msg)
        BY <1>1, <1>3
      <4> QED
        BY <4>1, <4>2
    <3> QED
      BY <1>5, <3>1 DEF OfTypes, CopyTypes
  <2> QED
    BY <1>4, <1>6, <1>8, <2>1, <2>2, GoesOnTurn
<1> QED
  BY <1>7, <1>8 DEF ReadSync

\* What runs is the command.
LEMMA RunsIt ==
    ASSUME Serving, srv \in {"query", "copyin"}
    PROVE  /\ xact = Current /\ Current \in Pending
           /\ doing_extended_query_message = (queryclass # "SIMPLE")
           /\ ~send_ready_for_query /\ ~ignore_till_sync
           /\ queryclass = "SIMPLE" => OfTypes(toServer, CopyTypes)
           /\ srv = "copyin" => queryclass = "SIMPLE"
<1>1. /\ xact = Sent
      /\ doing_extended_query_message = (queryclass # "SIMPLE")
      /\ ~send_ready_for_query /\ ~ignore_till_sync
      /\ queryclass = "SIMPLE" => OfTypes(toServer, CopyTypes)
      /\ queryclass # "SIMPLE" => srv = "query"
  BY ServingFacts, RunningRound
<1>2. Sent = Current /\ Current # Nobody
  BY ServingFacts
<1> QED
  BY <1>1, <1>2 DEF Pending

\* A statement completes: the last of a simple query commits, and the server
\* will be ready.
LEMMA CompletesTurn ==
    ASSUME Serving, ~Failed, srv \in {"query", "copyin"},
           NEW types \in Seq(Plain), NEW type \in {"C", "I"}, Completes(Append(types, type)),
           queryclass = "SIMPLE" => OfTypes(toServer', CopyTypes)
    PROVE  Finishes'
<1> DEFINE ts == Append(types, type)
<1>1. /\ xact = Current
      /\ doing_extended_query_message = (queryclass # "SIMPLE")
      /\ ~send_ready_for_query /\ ~ignore_till_sync
  BY RunsIt
<1>2. ts \in Seq(Plain) /\ \E i \in DOMAIN ts : ts[i] \in {"C", "I"}
  <2>1. type \in Plain
    BY DEF Plain, Types
  <2>2. ASSUME NEW S, NEW s \in Seq(S), NEW x \in S
        PROVE  Append(s, x) \in Seq(S) /\ Len(s) + 1 \in DOMAIN Append(s, x) /\ Append(s, x)[Len(s) + 1] = x
    OBVIOUS
  <2>3. ts \in Seq(Plain) /\ Len(types) + 1 \in DOMAIN ts /\ ts[Len(types) + 1] = type
    BY <2>1, <2>2
  <2> QED
    BY <2>3
<1> HIDE DEF ts
<1>3. Answer(ts, Current) /\ ~ignore_till_sync'
  BY <1>1 DEF Completes, ts
<1>4. send_ready_for_query' => Current \in committed'
  <2>1. CASE doing_extended_query_message \/ ~(Len(todo) <= 1)
    BY <1>1, <2>1 DEF Completes
  <2>2. CASE ~doing_extended_query_message /\ Len(todo) <= 1
    <3>1. finish_xact_command
      BY <2>2 DEF Completes
    <3>2. Current # Nobody
      BY ServingFacts
    <3> QED
      BY <1>1, <3>1, <3>2 DEF finish_xact_command
  <2> QED
    BY <2>1, <2>2
<1>5. srv' = "main" /\ toServer' # <<>> /\ Head(toServer').type = "S" => xact' = Current
  <2>1. CASE queryclass # "SIMPLE"
    BY <1>1, <2>1 DEF Completes
  <2>2. CASE queryclass = "SIMPLE"
    <3>1. toServer' \in Seq(Msg)
      <4>1. toServer \in Seq(Msg) /\ ServerMoves
        BY ServingFacts
      <4> QED
        BY <4>1 DEF ServerMoves
    <3>2. toServer' # <<>> => 1 \in DOMAIN toServer' /\ Head(toServer') = toServer'[1]
      <4>1. ASSUME NEW s \in Seq(Msg), s # <<>> PROVE 1 \in DOMAIN s /\ Head(s) = s[1]
        BY <4>1
      <4> QED
        BY <3>1, <4>1
    <3> QED
      BY <2>2, <3>2 DEF OfTypes, CopyTypes
  <2> QED
    BY <2>1, <2>2
<1>6. TRUE \in BOOLEAN
  OBVIOUS
<1> QED
  BY <1>2, <1>3, <1>4, <1>5, <1>6, GoesOnTurn

\* A statement runs, or begins its COPY.
LEMMA RunsTurn ==
    ASSUME Serving, ~Failed, RunStatement \/ ReceiveCopyBegin \/ CopyFails
    PROVE  Finishes'
<1>1. srv \in {"query", "copyin"} /\ UNCHANGED toServer
  BY DEF RunStatement, ReceiveCopyBegin, CopyFails
<1>2. /\ xact = Current /\ Current \in Pending
      /\ doing_extended_query_message = (queryclass # "SIMPLE")
      /\ ~send_ready_for_query /\ ~ignore_till_sync
      /\ queryclass = "SIMPLE" => OfTypes(toServer', CopyTypes)
  BY <1>1, RunsIt
<1>3. ASSUME NEW types \in Seq(Plain), Fails(types, xact, doing_extended_query_message) PROVE Finishes'
  <2> DEFINE e == queryclass # "SIMPLE"
  <2>1. e \in BOOLEAN /\ Fails(types, Current, e) /\ (e \/ OfTypes(toServer', CopyTypes))
    BY <1>2, <1>3
  <2> HIDE DEF e
  <2> QED
    BY <1>2, <2>1, FailsTurn
<1>4. CASE RunStatement
  <2>1. CASE \E n \in 0..Len(Output) : Fails(SubSeq(Output, 1, n), xact, doing_extended_query_message)
    BY <1>3, <2>1, OutputPlain
  <2>2. CASE Completes(Append(Output, IF Running = "nothing" THEN "I" ELSE "C"))
    <3>1. (IF Running = "nothing" THEN "I" ELSE "C") \in {"C", "I"} /\ Output \in Seq(Plain)
      BY OutputPlain
    <3> QED
      BY <1>1, <1>2, <2>2, <3>1, CompletesTurn
  <2> QED
    BY <1>4, <2>1, <2>2 DEF RunStatement
<1>5. <<>> \in Seq(Plain)
  OBVIOUS
<1>6. CASE ReceiveCopyBegin
  <2>1. CASE Fails(<<>>, xact, doing_extended_query_message)
    BY <1>3, <1>5, <2>1
  <2>2. CASE /\ Answer(<<"G">>, xact) /\ srv' = "copyin"
             /\ UNCHANGED <<todo, xact, ignore_till_sync, send_ready_for_query, committed>>
    <3>1. "G" \in Plain
      BY DEF Plain, Types
    <3>2. <<"G">> \in Seq(Plain) /\ FALSE \in BOOLEAN
      BY <3>1
    <3>3. Answer(<<"G">>, Current)
      BY <1>2, <2>2
    <3>4. srv' # "main" /\ ~ignore_till_sync' /\ ~send_ready_for_query'
      BY <1>2, <2>2
    <3> QED
      BY <3>2, <3>3, <3>4, GoesOnTurn
  <2> QED
    BY <1>6, <2>1, <2>2 DEF ReceiveCopyBegin
<1>7. CASE CopyFails
  BY <1>3, <1>5, <1>7 DEF CopyFails
<1> QED
  BY <1>4, <1>6, <1>7

\* A COPY FROM STDIN reads on.
LEMMA CopyTurn ==
    ASSUME Serving, ~Failed, CopyGetData
    PROVE  Finishes'
<1>1. srv = "copyin" /\ toServer # <<>> /\ toServer' = Tail(toServer)
  BY DEF CopyGetData
<1>2. /\ xact = Current /\ Current \in Pending /\ queryclass = "SIMPLE"
      /\ doing_extended_query_message = FALSE
      /\ ~send_ready_for_query /\ ~ignore_till_sync
      /\ OfTypes(toServer, CopyTypes)
  BY <1>1, RunsIt
<1>3. OfTypes(toServer', CopyTypes) /\ <<>> \in Seq(Plain)
  <2>1. toServer \in Seq(Msg)
    BY ServingFacts
  <2> QED
    BY <1>1, <1>2, <2>1, OfTypesProperties
<1>4. CASE Fails(<<>>, xact, doing_extended_query_message)
  <2>1. Fails(<<>>, Current, FALSE)
    BY <1>2, <1>4
  <2> QED
    BY <1>2, <1>3, <2>1, FailsTurn
<1>5. CASE Completes(<<"C">>)
  <2>1. <<"C">> = Append(<<>>, "C")
    OBVIOUS
  <2>2. Completes(Append(<<>>, "C"))
    BY <1>5, <2>1
  <2> QED
    BY <1>1, <1>3, <2>2, CompletesTurn
<1>6. CASE UNCHANGED <<toClient, srv, todo, xact, ignore_till_sync, send_ready_for_query, committed>>
  <2>1. srv' # "main" /\ ~ignore_till_sync' /\ ~send_ready_for_query' /\ UNCHANGED toClient /\ FALSE \in BOOLEAN
    BY <1>1, <1>2, <1>6
  <2> QED
    BY <1>3, <2>1, GoesOnTurn
<1> QED
  BY <1>4, <1>5, <1>6 DEF CopyGetData

\* The server is ready; or notifies.
LEMMA ReadyTurn ==
    ASSUME Serving, ReadyForQuery \/ ProcessIncomingNotify
    PROVE  Finishes'
<1>1. /\ HasTold /\ ~Dead /\ (Failed => Concluded /\ Current \notin committed /\ Quits)
      /\ Current' = Current
  BY ServingFacts
<1>2. UNCHANGED <<toServer, srv, xact, ignore_till_sync, committed>>
  BY DEF ReadyForQuery, ProcessIncomingNotify
<1>3. \E m \in Msg : /\ Wire' = Wire \o <<m>> /\ m.type \in {"A", "Z"}
                     /\ m.type = "Z" => send_ready_for_query
  <2>1. CASE ReadyForQuery
    <3>1. Answer(<<"Z">>, Nobody) /\ send_ready_for_query
      BY <2>1 DEF ReadyForQuery
    <3>2. "Z" \in Types /\ Nobody \in Nat
      BY DEF Types, Nobody
    <3>3. \E m \in Msg : m.type = "Z" /\ m.cmd = Nobody /\ Wire' = Wire \o <<m>>
      BY <3>1, <3>2, OneAnswer
    <3> QED
      BY <3>1, <3>3
  <2>2. CASE ProcessIncomingNotify
    <3>1. Answer(<<"A">>, notified + 1)
      BY <2>2 DEF ProcessIncomingNotify
    <3>2. "A" \in Types /\ notified + 1 \in Nat
      <4>1. notified \in Nat
        BY ServingFacts DEF Typed, ServerTyped
      <4> QED
        BY <4>1 DEF Types
    <3>3. \E m \in Msg : m.type = "A" /\ m.cmd = notified + 1 /\ Wire' = Wire \o <<m>>
      BY <3>1, <3>2, OneAnswer
    <3> QED
      BY <3>3
  <2> QED
    BY <2>1, <2>2
<1>4. PICK m \in Msg : /\ Wire' = Wire \o <<m>> /\ m.type \in {"A", "Z"}
                       /\ m.type = "Z" => send_ready_for_query
  BY <1>3
<1>5. /\ <<m>> \in Seq(Msg) /\ Heard(<<m>>) = {m} /\ OfTypes(<<m>>, Closing)
      /\ \A i \in DOMAIN <<m>> : i = Len(<<m>>)
  BY <1>4, SaidOne DEF Closing
<1>6. (Failed' <=> Failed) /\ (Concluded => Concluded')
  BY <1>4, <1>5, SaidMore DEF Fault
<1>7. send_ready_for_query' => send_ready_for_query
  BY DEF ReadyForQuery, ProcessIncomingNotify
<1>8. Failed => Quits'
  BY <1>1, <1>2 DEF Quits
<1>9. ignore_till_sync' => Failed'
  BY <1>1, <1>2, <1>6 DEF HasTold
<1>10. srv' = "main" /\ toServer' # <<>> /\ Head(toServer').type = "S" =>
               Concluded' /\ (xact' = Current \/ Failed')
  BY <1>1, <1>2, <1>6 DEF HasTold
<1>11. /\ (\E x \in Heard(<<m>>) : x.type = "Z") => send_ready_for_query
       /\ \A x \in Heard(<<m>>) : x.type = "E" => x.cmd = Current
       /\ IF Failed THEN OfTypes(<<m>>, Closing) ELSE \A i \in DOMAIN <<m>> : i # Len(<<m>>) => <<m>>[i].type # "E"
  BY <1>4, <1>5
<1> QED
  BY <1>1, <1>2, <1>4, <1>5, <1>6, <1>7, <1>8, <1>9, <1>10, <1>11, TurnFinishes

\* Every step of the server while PQexecFinish waits, the connection alive ...
LEMMA LiveFinishes ==
    ASSUME ~CopyInExtended, Typed, Round, InOrder, Finishes, ~Dead, UNCHANGED clientVars,
           ServerStep \/ CopyFails \/ ProcessIncomingNotify
    PROVE  Finishes'
<1>1. CASE call.fn # "PQexecFinish"
  BY <1>1 DEF clientVars, Finishes
<1>2. CASE call.fn = "PQexecFinish"
  <2>1. Round'
    BY ServerRound
  <2>2. ~Dead'
    BY ServerLives
  <2>3. ServerMoves
    BY ServerMovesStep DEF ServerMoves, ProcessIncomingNotify
  <2>4. Serving
    BY <1>2, <2>1, <2>2, <2>3 DEF Serving
  <2>5. CASE ReadyForQuery \/ ProcessIncomingNotify
    BY <2>4, <2>5, ReadyTurn
  <2>6. CASE Failed /\ (ServerStep \/ CopyFails)
    BY <2>4, <2>6, FailedTurn
  <2>7. CASE ~Failed /\ (ServerStep \/ CopyFails) /\ ~ReadyForQuery
    BY <2>4, <2>7, StartsTurn, ParseTurn, SyncTurn, RunsTurn, CopyTurn DEF ServerStep
  <2> QED
    BY <2>5, <2>6, <2>7
<1> QED
  BY <1>1, <1>2

\* ... or cut off: it works on, and nobody hears of it.
LEMMA DeadFinishes ==
    ASSUME Typed, InOrder, Finishes, Dead, UNCHANGED clientVars,
           ServerStep \/ CopyFails \/ ProcessIncomingNotify
    PROVE  Finishes'
<1>1. CASE call.fn # "PQexecFinish"
  BY <1>1 DEF clientVars, Finishes
<1>2. CASE call.fn = "PQexecFinish"
  <2>1. /\ UNCHANGED <<status, queryclass, call, asyncStatus, result, inBuffer>>
        /\ ServerMoves /\ UNCHANGED link /\ srv # "exit"
    BY ServerMovesStep, ServerSays DEF ServerMoves, ProcessIncomingNotify, clientVars, parserVars
  <2>2. Wire' = Wire /\ Current' = Current
    BY <2>1, DeadSilent DEF Wire, Current, ServerMoves
  <2>3. /\ status = "OK" /\ (Failed => Current \notin committed /\ Quits) /\ (Over => Done) /\ ErrorsKept
    BY <1>2 DEF Finishes
  <2>4. (Failed' <=> Failed) /\ (Concluded' <=> Concluded)
    BY <2>1, <2>2 DEF Failed, Concluded
  <2>5. link = "cut" /\ Dead'
    BY <2>1 DEF Dead
  <2>6. Failed => Quits' /\ UNCHANGED committed
    <3>1. CASE ProcessIncomingNotify
      BY <2>3, <3>1 DEF ProcessIncomingNotify, Quits
    <3> QED
      BY <2>3, <3>1, QuitsStep
  <2>7. Over' => Over
    BY <2>1, <2>2, <2>5 DEF Over
  <2>8. Pending' \subseteq Pending /\ committed \subseteq committed'
    BY <2>1, PendingShrinks
  <2>9. Over' => Done'
    BY <2>2, <2>3, <2>4, <2>7, <2>8 DEF Done
  <2>10. ErrorsKept'
    BY <2>1, <2>2, <2>3 DEF ErrorsKept
  <2>11. HasTold'
    BY <2>5 DEF HasTold
  <2> QED
    BY <2>1, <2>2, <2>3, <2>4, <2>6, <2>9, <2>10, <2>11 DEF Finishes
<1> QED
  BY <1>1, <1>2

\* What is not quiet comes before the end of the query.
LEMMA HeardBefore ==
    ASSUME NEW s \in Seq(Msg), NEW t \in Seq(Msg), NEW n \in DOMAIN s, QuietFrom(s \o t, n)
    PROVE  \A m \in Heard(s \o t) : ~Quiet(m) => m \in Heard(s)
<1>1. \A i \in DOMAIN (s \o t) : i \in Nat /\ (i <= n => i \in DOMAIN s /\ (s \o t)[i] = s[i])
  <2>1. n \in Nat /\ n <= Len(s)
    OBVIOUS
  <2>2. \A i \in DOMAIN (s \o t) : i \in Nat /\ (i <= Len(s) => i \in DOMAIN s /\ (s \o t)[i] = s[i])
    OBVIOUS
  <2> QED
    BY <2>1, <2>2
<1>2. SUFFICES ASSUME NEW i \in DOMAIN (s \o t), ~Quiet((s \o t)[i]) PROVE (s \o t)[i] \in Heard(s)
  BY DEF Heard
<1>3. ~(i > n)
  BY <1>2 DEF QuietFrom
<1>4. n \in Nat
  OBVIOUS
<1>5. i <= n
  BY <1>1, <1>3, <1>4
<1> QED
  BY <1>1, <1>5 DEF Heard

\* When the connection breaks, what is told of the command before the end of
\* its query is as before.
LEMMA BreaksFinishes ==
    ASSUME Typed, QuietEnd, InOrder, Finishes, ServerExits \/ LinkCut, UNCHANGED clientVars
    PROVE  Finishes'
<1>1. CASE call.fn # "PQexecFinish"
  BY <1>1 DEF clientVars, Finishes
<1>2. CASE call.fn = "PQexecFinish"
  <2>1. /\ UNCHANGED <<status, queryclass, call, asyncStatus, result, inBuffer, asked, committed>>
        /\ ~Dead /\ Dead' /\ EventMoves
    BY EventMovesStep DEF ServerExits, LinkCut, Dead, EventMoves, clientVars, parserVars
  <2>2. /\ Current' = Current /\ Current # Nobody
    BY <1>2, <2>1 DEF Current, Typed, ClientTyped, Nobody
  <2>3. /\ status = "OK" /\ (Failed => Current \notin committed /\ Quits) /\ (Over => Done) /\ ErrorsKept
    BY <1>2 DEF Finishes
  <2>4. Pending' \subseteq Pending
    BY <2>1, EventInOrder DEF clientVars
  <2>5. Quits => Quits'
    <3>1. OfTypes(toServer, CopyTypes) => OfTypes(toServer', CopyTypes)
      <4>1. DOMAIN <<>> = {}
        OBVIOUS
      <4> QED
        BY <2>1, <4>1 DEF EventMoves, OfTypes
    <3>2. CASE LinkCut
      BY <3>1, <3>2 DEF LinkCut, serverVars, Quits
    <3>3. CASE ServerExits
      <4>1. DOMAIN <<>> = {}
        OBVIOUS
      <4> QED
        BY <3>3, <4>1 DEF ServerExits, Quits, OfTypes
    <3> QED
      BY <3>2, <3>3
  <2>6. Wire \in Seq(Msg) /\ inBuffer \in Seq(Msg) /\ toClient \in Seq(Msg)
    BY MessagesKnown
  <2>7. \/ Wire' = Wire
        \/ \E m \in Msg : Wire' = Wire \o <<m>> /\ m.type = "E" /\ m.cmd = Nobody
        \/ Wire' = inBuffer
    <3>1. CASE UNCHANGED toClient
      BY <2>1, <3>1 DEF Wire
    <3>2. CASE toClient' = <<>>
      <4>1. Wire' = inBuffer
        BY <2>1, <2>6, <3>2 DEF Wire
      <4> QED
        BY <4>1
    <3>3. CASE ServerExits /\ Answer(<<"E">>, Nobody)
      <4>1. link = "up" /\ UNCHANGED inBuffer
        BY <2>1 DEF Dead, Typed, ServerTyped
      <4>2. <<"E">> \in Seq(Types) /\ Nobody \in Nat
        <5>1. "E" \in Types
          BY DEF Types
        <5> QED
          BY <5>1 DEF Nobody
      <4>3. Wire' = Wire \o Messages(<<"E">>, Nobody)
        BY <3>3, <4>1, <4>2, AnswerWire
      <4>4. Messages(<<"E">>, Nobody) = <<Message("E", Nobody)>>
        BY DEF Messages
      <4>5. Message("E", Nobody) \in Msg /\ Message("E", Nobody).type = "E" /\ Message("E", Nobody).cmd = Nobody
        BY DEF Message, Msg, Types, Nobody
      <4> QED
        BY <4>3, <4>4, <4>5
    <3> QED
      BY <3>1, <3>2, <3>3 DEF ServerExits, LinkCut
  <2>8. /\ Failed' => Failed
        /\ Over' => Over
        /\ ErrorsKept'
        /\ Over' => Concluded' /\ (Current \in committed \/ Failed')
    <3>1. ASSUME Heard(Wire') = Heard(Wire) \/ \E m \in Msg : /\ Heard(Wire') = Heard(Wire) \cup {m}
                                                                /\ m.type = "E" /\ m.cmd = Nobody
          PROVE  /\ Failed' => Failed
                 /\ Over' => Over
                 /\ Over' => Concluded' /\ (Current \in committed \/ Failed')
      <4>1. (Failed' <=> Failed) /\ (Concluded => Concluded')
        BY <2>1, <2>2, <3>1 DEF Failed, Concluded, Fault
      <4>2. Over' => Over
        BY <2>1, <3>1 DEF Over
      <4> QED
        BY <2>3, <4>1, <4>2 DEF Done
    <3>2. CASE Wire' = Wire
      <4>1. ErrorsKept'
        BY <2>1, <2>2, <2>3, <3>2 DEF ErrorsKept
      <4> QED
        BY <3>1, <3>2, <4>1
    <3>3. CASE \E m \in Msg : Wire' = Wire \o <<m>> /\ m.type = "E" /\ m.cmd = Nobody
      <4>1. PICK m \in Msg : Wire' = Wire \o <<m>> /\ m.type = "E" /\ m.cmd = Nobody
        BY <3>3
      <4>2. <<m>> \in Seq(Msg) /\ Heard(<<m>>) = {m} /\ OfTypes(<<m>>, Closing)
        BY <4>1, SaidOne DEF Closing
      <4>3. /\ Heard(Wire') = Heard(Wire) \cup {m}
            /\ ErrorsClose(Wire) => ErrorsClose(Wire')
            /\ OfTypes(Wire, Closing) => OfTypes(Wire', Closing)
        <5> DEFINE t == <<m>>
        <5>1. t \in Seq(Msg) /\ Heard(t) = {m} /\ OfTypes(t, Closing) /\ Wire' = Wire \o t
          BY <4>1, <4>2
        <5> HIDE DEF t
        <5> QED
          BY <2>6, <5>1, HeardConcat
      <4>4. ErrorsKept'
        BY <2>1, <2>2, <2>3, <4>3 DEF ErrorsKept
      <4> QED
        BY <3>1, <4>1, <4>3, <4>4
    <3>4. CASE Wire' = inBuffer
      <4>1. \A i \in DOMAIN inBuffer : i \in DOMAIN Wire /\ Wire[i] = inBuffer[i]
        BY <2>6 DEF Wire
      <4>2. Heard(Wire') \subseteq Heard(Wire)
        BY <3>4, <4>1 DEF Heard
      <4>3. (ErrorsClose(Wire) => ErrorsClose(Wire')) /\ (OfTypes(Wire, Closing) => OfTypes(Wire', Closing))
        BY <3>4, <4>1 DEF ErrorsClose, OfTypes
      <4>4. ErrorsKept'
        BY <2>1, <2>2, <2>3, <4>3 DEF ErrorsKept
      <4>5. (Failed' => Failed) /\ (Over' => Over)
        <5>1. Failed' => Failed
          BY <2>1, <2>2, <4>2 DEF Failed
        <5>2. Over' => Over
          BY <2>1, <4>2 DEF Over
        <5> QED
          BY <5>1, <5>2
      <4>6. ASSUME NEW m, Fault(m, Current) \/ Concludes(m, Current, queryclass) PROVE ~Quiet(m)
        BY <2>2, <4>6 DEF Fault, Concludes, Quiet
      <4>7. ASSUME Over' PROVE \A m \in Heard(Wire) : ~Quiet(m) => m \in Heard(Wire')
        <5>1. CASE asyncStatus = "IDLE"
          <6>1. QuietFrom(Wire, 0)
            BY <5>1 DEF QuietEnd
          <6>2. \A i \in DOMAIN Wire : i > 0
            BY <2>6
          <6> QED
            BY <6>1, <6>2 DEF QuietFrom, Heard
        <5>2. CASE \E m \in Heard(Wire') : m.type = "Z"
          <6>1. PICK n \in DOMAIN inBuffer : inBuffer[n].type = "Z"
            BY <3>4, <5>2 DEF Heard
          <6>2. QuietFrom(Wire, n)
            BY <4>1, <6>1 DEF QuietEnd
          <6>3. QuietFrom(inBuffer \o toClient, n)
            BY <6>2 DEF Wire
          <6>4. \A m \in Heard(inBuffer \o toClient) : ~Quiet(m) => m \in Heard(inBuffer)
            BY <2>6, <6>1, <6>3, HeardBefore
          <6> QED
            BY <3>4, <6>4 DEF Wire
        <5> QED
          BY <2>1, <4>7, <5>1, <5>2 DEF Over
      <4>8. ASSUME Over' PROVE (Failed => Failed') /\ (Concluded => Concluded')
        <5>1. \A m \in Heard(Wire) : ~Quiet(m) => m \in Heard(Wire')
          BY <4>7, <4>8
        <5> QED
          BY <2>1, <2>2, <4>6, <5>1 DEF Failed, Concluded
      <4> QED
        BY <2>3, <4>4, <4>5, <4>8 DEF Done
    <3> QED
      BY <2>7, <3>2, <3>3, <3>4
  <2>9. Over' => Done'
    BY <2>1, <2>2, <2>3, <2>4, <2>8 DEF Done
  <2>10. HasTold'
    BY <2>1 DEF HasTold
  <2> QED
    BY <2>1, <2>2, <2>3, <2>5, <2>8, <2>9, <2>10 DEF Finishes
<1> QED
  BY <1>1, <1>2

\* Every step keeps what PQexecFinish knows.
LEMMA FinishesStep ==
    ASSUME ~CopyInExtended, AnswerInv, InOrder, Finishes, [Next]_vars PROVE Finishes'
<1>1. Typed /\ Round /\ RowsFit /\ (Dead => QuietEnd)
  BY DEF AnswerInv
<1>2. QuietEnd
  BY <1>1, RoundQuiet
<1>3. CASE Application \/ LibpqStep
  BY <1>1, <1>2, <1>3, ClientFinishes
<1>4. CASE (ServerStep \/ CopyFails \/ ProcessIncomingNotify) /\ UNCHANGED clientVars
  BY <1>1, <1>4, LiveFinishes, DeadFinishes
<1>5. CASE (ServerExits \/ LinkCut) /\ UNCHANGED clientVars
  BY <1>1, <1>2, <1>5, BreaksFinishes
<1>6. CASE UNCHANGED vars
  <2>1. /\ UNCHANGED <<asked, toServer, toClient, link, srv, todo, xact, ignore_till_sync, send_ready_for_query>>
        /\ UNCHANGED <<committed, status, asyncStatus, queryclass, result, inBuffer, call>>
    BY <1>6 DEF vars, wireVars, serverVars, clientVars, parserVars
  <2> QED
    BY <2>1 DEF Finishes, Failed, Quits, Over, Done, Concluded, Pending, Waiting, ErrorsKept, HasTold, Wire,
                Current, Dead
<1> QED
  BY <1>3, <1>4, <1>5, <1>6 DEF Next, Server

\* No PQexec has been called yet.
LEMMA FinishesInit == ASSUME Init PROVE Finishes
BY DEF Init, ClientInit, NoCall, Finishes

-----------------------------------------------------------------------------
\* What was said of the commands: the one PQexec is about is not answered yet,
\* nor are those to come, and one reported as done, failed or not sent is not
\* pending any more.
Settled ==
    /\ Len(asked) <= MaxCommands
    /\ answer \in [1..MaxCommands -> Promise!Answers]
    /\ \A k \in 1..MaxCommands : k > Len(asked) => answer[k] = "none"
    /\ call.fn \in {"PQexecStart", "PQexecFinish"} => answer[Current] = "none"
    /\ \A k \in 1..MaxCommands : answer[k] \in {"ok", "failed", "null"} => k \notin Pending

\* PQexec returns and says of its command what is so.
Reports(kind) ==
    /\ call.fn \in {"PQexecStart", "PQexecFinish"} /\ call' = NoCall
    /\ kind \in Promise!Answers \ {"none"}
    /\ answer' = [answer EXCEPT ![Current] = kind]
    /\ kind = "ok" => Current \in committed
    /\ kind \in {"failed", "null"} => Current \notin committed
    /\ kind \in {"ok", "failed", "null"} => Current \notin Pending
    /\ UNCHANGED <<asked, toServer, xact, committed>>

\* PQexecStart returns NULL: the command was not sent.
LEMMA NullReports ==
    ASSUME Typed, InOrder, call.fn = "PQexecStart", ExecReturns(NoResult, TRUE),
           UNCHANGED <<asked, toServer, xact, committed>>
    PROVE  Reports("null")
<1>1. Len(asked) \in Nat /\ Current = Len(asked) /\ Sent = Current - 1
  BY DEF Typed, ServerTyped, Current, Sent
<1>2. Current \notin 1..Sent
  BY <1>1
<1>3. Current \notin committed /\ Current \notin Pending
  BY <1>2 DEF InOrder
<1>4. "null" \in Promise!Answers \ {"none"}
  BY DEF Promise!Answers
<1>5. call' = NoCall /\ answer' = [answer EXCEPT ![Current] = "null"]
  BY DEF ExecReturns
<1> QED
  BY <1>3, <1>4, <1>5 DEF Reports

\* What a result makes of a command.
LEMMA KindsOf ==
    ASSUME NEW n \in Nat, NEW res \in Results(n)
    PROVE  /\ Kind(res) \in {"copy", "failed", "lost", "ok"}
           /\ Kind(res) = "ok" => \A k : ~Errs(res, k)
           /\ Kind(res) = "failed" => res.err # <<>> /\ \A i \in DOMAIN res.err : res.err[i] > Nobody
<1>1. /\ (res.err # <<>>) = (res.status = "FATAL_ERROR")
      /\ res.err \in Seq(Int)
  BY DEF Results
<1>2. DOMAIN <<>> = {}
  OBVIOUS
<1>3. CASE res.status \in CopyStatuses
  <2>1. Kind(res) = "copy"
    BY <1>3 DEF Kind, CopyStatuses
  <2> QED
    BY <2>1
<1>4. CASE res.status = "FATAL_ERROR"
  BY <1>1, <1>4 DEF Kind, CopyStatuses
<1>5. CASE res.status \notin CopyStatuses \cup {"FATAL_ERROR"}
  <2>1. Kind(res) = "ok" /\ res.err = <<>>
    BY <1>1, <1>5 DEF Kind
  <2> QED
    BY <1>2, <2>1 DEF Errs
<1> QED
  BY <1>3, <1>4, <1>5

\* PQexecFinish is through: what it has collected is what became of the command.
LEMMA NullEnds ==
    ASSUME Typed, QuietEnd, Finishes, Collects, call.fn = "PQexecFinish", GetResultNull
    PROVE  \E kind : Reports(kind)
<1>1. /\ asyncStatus = "IDLE" /\ ExecReturns(call.last, call.last = NoResult)
      /\ UNCHANGED <<asked, toServer, xact, committed>>
  BY DEF GetResultNull, serverVars, wireVars
<1>2. /\ Len(asked) \in Nat /\ call.last \in Results(Len(asked)) /\ Current # Nobody /\ Current \in Nat
  BY DEF Typed, ServerTyped, ClientTyped, Current, Nobody
<1>3. /\ (Failed => Current \notin committed) /\ (Over => Done) /\ ErrorsKept
  BY DEF Finishes
<1>4. \A m \in Heard(Wire) : ~Fault(m, Current) /\ ~Concludes(m, Current, queryclass)
  <2>1. QuietFrom(Wire, 0) /\ Wire \in Seq(Msg)
    BY <1>1, MessagesKnown DEF QuietEnd
  <2>2. \A i \in DOMAIN Wire : i > 0
    BY <2>1
  <2>3. \A m \in Heard(Wire) : Quiet(m)
    BY <2>1, <2>2 DEF Heard, QuietFrom
  <2> QED
    BY <1>2, <2>3 DEF Quiet, Fault, Concludes
<1>5. ~Errs(result, Current)
  <2>1. DOMAIN <<>> = {}
    OBVIOUS
  <2> QED
    BY <1>1, <1>3, <2>1 DEF ErrorsKept, Errs
<1>6. Failed <=> Errs(call.last, Current)
  BY <1>4, <1>5 DEF Failed
<1>7. Concluded <=> call.last # NoResult
  BY <1>1, <1>4 DEF Concluded
<1>8. /\ Kind(call.last) \in {"copy", "failed", "lost", "ok"}
      /\ Kind(call.last) = "ok" => \A k : ~Errs(call.last, k)
      /\ Kind(call.last) = "failed" =>
             call.last.err # <<>> /\ \A i \in DOMAIN call.last.err : call.last.err[i] > Nobody
  BY <1>2, KindsOf
<1>9. {"copy", "failed", "lost", "ok"} \subseteq Promise!Answers \ {"none"}
  BY DEF Promise!Answers
<1> DEFINE kind == Kind(call.last)
<1>10. CASE Errs(call.last, Lost)
  <2>1. kind \in {"copy", "lost"}
    <3>1. PICK i \in DOMAIN call.last.err : call.last.err[i] = Lost
      BY <1>10 DEF Errs
    <3>2. ~(Lost > Nobody)
      BY DEF Lost, Nobody
    <3>3. kind # "failed"
      BY <1>8, <3>1, <3>2
    <3>4. kind # "ok"
      BY <1>8, <1>10
    <3> QED
      BY <1>8, <3>3, <3>4
  <2>2. call.last # NoResult
    <3>1. DOMAIN <<>> = {}
      OBVIOUS
    <3> QED
      BY <1>10, <3>1 DEF Errs, NoResult, Result
  <2>3. call' = NoCall /\ answer' = [answer EXCEPT ![Current] = kind]
    BY <1>1, <2>2 DEF ExecReturns
  <2> HIDE DEF kind
  <2> QED
    BY <1>1, <1>9, <2>1, <2>3 DEF Reports
<1>11. CASE ~Errs(call.last, Lost)
  <2>1. Done
    BY <1>1, <1>3, <1>11 DEF Over
  <2>2. Current \notin Pending /\ call.last # NoResult /\ (Current \in committed \/ Errs(call.last, Current))
    BY <1>6, <1>7, <2>1 DEF Done
  <2>3. call' = NoCall /\ answer' = [answer EXCEPT ![Current] = kind]
    BY <1>1, <2>2 DEF ExecReturns
  <2>4. kind = "ok" => Current \in committed
    BY <1>8, <2>2
  <2>5. kind = "failed" => Current \notin committed
    <3> SUFFICES ASSUME kind = "failed" PROVE Errs(call.last, Current)
      BY <1>3, <1>6
    <3>1. \A i \in DOMAIN call.last.err : call.last.err[i] \in {Nobody, Current, Lost}
      BY DEF Collects, OwnResult
    <3>2. call.last.err # <<>> /\ \A i \in DOMAIN call.last.err : call.last.err[i] > Nobody
      BY <1>8
    <3>3. call.last.err \in Seq(Int)
      BY <1>2 DEF Results
    <3>4. 1 \in DOMAIN call.last.err
      BY <3>2, <3>3
    <3>5. call.last.err[1] = Current
      BY <3>1, <3>2, <3>4 DEF Nobody, Lost
    <3> QED
      BY <3>4, <3>5 DEF Errs
  <2>6. kind \in {"copy", "failed", "lost", "ok"}
    BY <1>8
  <2> HIDE DEF kind
  <2> QED
    BY <1>1, <1>9, <2>2, <2>3, <2>4, <2>5, <2>6 DEF Reports
<1> QED
  BY <1>10, <1>11

\* PQexecFinish takes a result: it returns at a COPY, or when the connection
\* is lost.
LEMMA HandlesReports ==
    ASSUME Typed, call.fn = "PQexecFinish", NEW res \in Results(Len(asked)), FinishHandles(res),
           res.status \in CopyStatuses \/ Errs(res, Lost),
           UNCHANGED <<asked, toServer, xact, committed>>
    PROVE  UNCHANGED answer \/ \E kind : Reports(kind)
<1> DEFINE last == Merged(call.last, res)
           kind == Kind(last)
<1>1. CASE UNCHANGED historyVars
  BY <1>1 DEF historyVars
<1>2. CASE ExecReturns(last, FALSE)
  <2>1. Len(asked) \in Nat /\ call.last \in Results(Len(asked))
    BY DEF Typed, ServerTyped, ClientTyped
  <2>2. last \in Results(Len(asked))
    BY <2>1, MergedTyped
  <2>3. kind \in {"copy", "lost"}
    <3>1. CASE res.status \in CopyStatuses
      <4>1. last = res
        BY <2>1, <3>1, MergedErrs DEF CopyStatuses
      <4>2. Kind(res) = "copy"
        BY <3>1 DEF Kind, CopyStatuses
      <4> QED
        BY <4>1, <4>2
    <3>2. CASE Errs(res, Lost)
      <4>1. Errs(last, Lost)
        BY <2>1, <3>2, MergedErrs
      <4>2. PICK i \in DOMAIN last.err : last.err[i] = Lost
        BY <4>1 DEF Errs
      <4>3. /\ kind \in {"copy", "failed", "lost", "ok"}
            /\ kind = "ok" => \A k : ~Errs(last, k)
            /\ kind = "failed" => \A j \in DOMAIN last.err : last.err[j] > Nobody
        BY <2>1, <2>2, KindsOf
      <4>4. ~(Lost > Nobody)
        BY DEF Lost, Nobody
      <4>5. kind # "failed"
        BY <4>2, <4>3, <4>4
      <4>6. kind # "ok"
        BY <4>1, <4>3
      <4> QED
        BY <4>3, <4>5, <4>6
    <3> QED
      BY <3>1, <3>2
  <2>4. call' = NoCall /\ answer' = [answer EXCEPT ![Current] = kind]
    BY <1>2 DEF ExecReturns
  <2>5. {"copy", "lost"} \subseteq Promise!Answers \ {"none"}
    BY DEF Promise!Answers
  <2> HIDE DEF kind
  <2>6. Reports(kind)
    BY <2>3, <2>4, <2>5 DEF Reports
  <2> QED
    BY <2>6
<1> QED
  BY <1>1, <1>2 DEF FinishHandles

\* Every step of the client says nothing of any command, or reports on one.
LEMMA ClientReports ==
    ASSUME Typed, InOrder, QuietEnd, Finishes, Collects, Application \/ LibpqStep
    PROVE  UNCHANGED answer \/ \E kind : Reports(kind)
<1>1. CASE Application
  BY <1>1 DEF Application, PQexec, PQsendQuery, PQgetResult, PQputCopyData, PQputCopyEnd, PQgetCopyData,
              PQconsumeInput, Calls
<1>2. CASE ParseMessage \/ GetResultReads \/ GetCopyDataStep \/ ParseInputReturns
  BY <1>2 DEF ParseMessage, GetResultReads, GetCopyDataStep, ParseInputReturns, historyVars
<1>3. CASE GetResultFails
  <2> DEFINE res == pqSaveErrorResult(<<Lost>>)
  <2>1. UNCHANGED <<asked, toServer, xact, committed>>
    BY <1>3 DEF GetResultFails, serverVars, wireVars
  <2>2. CASE call.fn = "PQexecFinish"
    <3>1. FinishHandles(res)
      BY <1>3, <2>2 DEF GetResultFails
    <3>2. <<Lost>> \in Seq(Int) /\ <<Lost>> # <<>>
      BY DEF Lost
    <3>3. res \in Results(Len(asked))
      BY <3>2, SaveErrorTyped
    <3>4. Errs(res, Lost)
      <4>1. asyncStatus = "BUSY" /\ result.err = <<>>
        BY <1>3, <2>2 DEF GetResultFails, Finishes, ErrorsKept
      <4>2. result.status # "FATAL_ERROR"
        BY <4>1 DEF Typed, ClientTyped, Results
      <4>3. res.err = <<Lost>>
        BY <4>2 DEF pqSaveErrorResult, FatalError, Result
      <4>4. ASSUME NEW x PROVE 1 \in DOMAIN <<x>> /\ <<x>>[1] = x
        OBVIOUS
      <4> HIDE DEF res
      <4> QED
        BY <4>3, <4>4 DEF Errs
    <3> HIDE DEF res
    <3> QED
      BY <2>1, <2>2, <3>1, <3>3, <3>4, HandlesReports
  <2>3. CASE call.fn = "PQgetResult"
    BY <1>3, <2>3 DEF GetResultFails, historyVars
  <2>4. CASE call.fn = "PQexecStart"
    <3>1. ExecReturns(NoResult, TRUE) \/ UNCHANGED historyVars
      BY <1>3, <2>4 DEF GetResultFails
    <3> QED
      BY <2>1, <2>4, <3>1, NullReports DEF historyVars
  <2> QED
    BY <1>3, <2>2, <2>3, <2>4 DEF GetResultFails, InGetResult
<1>4. CASE GetResultReturns
  <2>1. CASE call.fn = "PQexecFinish"
    <3>1. /\ FinishHandles(Prepared) /\ UNCHANGED <<asked, toServer, xact, committed>>
          /\ UNCHANGED status /\ asyncStatus \in {"READY", "COPY_IN", "COPY_OUT"}
      BY <1>4, <2>1 DEF GetResultReturns, ResultReady, CopyStatuses, serverVars, wireVars
    <3>2. Prepared \in Results(Len(asked))
      BY <3>1, PreparedTyped
    <3>3. CASE Prepared.status \in CopyStatuses
      BY <2>1, <3>1, <3>2, <3>3, HandlesReports
    <3>4. CASE Prepared.status \notin CopyStatuses
      <4>1. status' # "BAD"
        BY <2>1, <3>1 DEF Finishes
      <4> QED
        BY <3>1, <3>4, <4>1 DEF FinishHandles, historyVars
    <3> QED
      BY <3>3, <3>4
  <2>2. CASE call.fn # "PQexecFinish"
    BY <1>4, <2>2 DEF GetResultReturns, historyVars
  <2> QED
    BY <2>1, <2>2
<1>5. CASE GetResultNull
  <2>1. CASE call.fn = "PQexecFinish"
    BY <1>5, <2>1, NullEnds
  <2>2. CASE call.fn # "PQexecFinish"
    BY <1>5, <2>2 DEF GetResultNull, historyVars
  <2> QED
    BY <2>1, <2>2
<1>6. CASE ExecStartDiscards
  <2>1. call.fn = "PQexecStart" /\ UNCHANGED <<asked, xact, committed>>
    BY <1>6 DEF ExecStartDiscards, serverVars
  <2>2. UNCHANGED historyVars \/ (ExecReturns(NoResult, TRUE) /\ UNCHANGED toServer)
    BY <1>6 DEF ExecStartDiscards, FlushFails
  <2> QED
    BY <2>1, <2>2, NullReports DEF historyVars
<1>7. CASE ExecSends
  <2>1. call.fn = "PQexecStart" /\ UNCHANGED <<asked, xact, committed>>
    BY <1>7 DEF ExecSends, SendUnchanged, serverVars
  <2>2. \/ UNCHANGED historyVars
        \/ (SendFails(asked[Current]) \/ Refuses) /\ ExecReturns(NoResult, TRUE)
    BY <1>7 DEF ExecSends
  <2>3. SendFails(asked[Current]) \/ Refuses => UNCHANGED toServer
    BY DEF SendFails, FlushFails, Refuses
  <2> QED
    BY <2>1, <2>2, <2>3, NullReports DEF historyVars
<1> QED
  BY <1>1, <1>2, <1>3, <1>4, <1>5, <1>6, <1>7 DEF LibpqStep

\* A command is given when no call is pending, and is the one PQexec is about.
LEMMA AskedMoves ==
    ASSUME Typed, Application \/ LibpqStep
    PROVE  /\ \/ UNCHANGED asked
              \/ Len(asked) < MaxCommands /\ Len(asked') = Len(asked) + 1 /\ call.fn = "none"
           /\ call'.fn \in {"PQexecStart", "PQexecFinish"} =>
                  call.fn \in {"PQexecStart", "PQexecFinish"} \/ Len(asked') = Len(asked) + 1
<1>1. CASE LibpqStep
  <2>1. UNCHANGED asked
    BY <1>1 DEF LibpqStep, ParseMessage, GetResultFails, GetResultReads, GetResultReturns, GetResultNull,
                ExecStartDiscards, ExecSends, GetCopyDataStep, ParseInputReturns
  <2>2. call'.fn \in {"PQexecStart", "PQexecFinish"} => call.fn \in {"PQexecStart", "PQexecFinish"}
    <3>1. CASE ParseMessage \/ GetResultReads
      BY <3>1 DEF ParseMessage, GetResultReads
    <3>2. CASE ParseInputReturns
      BY <3>2 DEF ParseInputReturns, NoCall
    <3>3. CASE GetCopyDataStep
      <4>1. call' = call \/ call' = NoCall
        BY <3>3 DEF GetCopyDataStep
      <4> QED
        BY <4>1 DEF NoCall
    <3>4. CASE GetResultFails
      <4>1. call.fn = "PQgetResult" => call' = NoCall
        BY <3>4 DEF GetResultFails
      <4>2. call.fn \in {"PQexecStart", "PQexecFinish", "PQgetResult"}
        BY <3>4 DEF GetResultFails, InGetResult
      <4> QED
        BY <4>1, <4>2 DEF NoCall
    <3>5. CASE GetResultReturns
      <4>1. call.fn = "PQexecFinish" \/ call' = NoCall
        BY <3>5 DEF GetResultReturns
      <4> QED
        BY <4>1 DEF NoCall
    <3>6. CASE GetResultNull
      <4>1. call' = NoCall
        BY <3>6 DEF GetResultNull, ExecReturns
      <4> QED
        BY <4>1 DEF NoCall
    <3>7. CASE ExecStartDiscards \/ ExecSends
      BY <3>7 DEF ExecStartDiscards, ExecSends
    <3> QED
      BY <1>1, <3>1, <3>2, <3>3, <3>4, <3>5, <3>6, <3>7 DEF LibpqStep
  <2> QED
    BY <2>1, <2>2
<1>2. ASSUME NEW c \in Commands, PQexec(c) \/ PQsendQuery(c)
      PROVE  /\ \/ UNCHANGED <<asked, call>>
                \/ Len(asked) < MaxCommands /\ Len(asked') = Len(asked) + 1
             /\ call.fn = "none"
  <2>1. asked \in Seq(Commands)
    BY DEF Typed, ServerTyped
  <2>2. Len(Append(asked, c)) = Len(asked) + 1
    BY <2>1
  <2>3. \/ UNCHANGED <<asked, call>>
        \/ Len(asked) < MaxCommands /\ asked' = Append(asked, c)
    BY <1>2 DEF PQexec, PQsendQuery
  <2>4. call.fn = "none"
    BY <1>2 DEF PQexec, PQsendQuery, Calls, Idle
  <2> QED
    BY <2>2, <2>3, <2>4
<1>3. CASE PQgetResult \/ PQputCopyData \/ PQputCopyEnd \/ PQgetCopyData \/ PQconsumeInput
  <2>1. UNCHANGED asked /\ (call' = call \/ \E fn \in {"PQgetResult", "parseInput", "PQgetCopyData"} : call' = InCall(fn))
    BY <1>3 DEF PQgetResult, PQputCopyData, PQputCopyEnd, PQgetCopyData, PQconsumeInput
  <2> QED
    BY <2>1 DEF InCall
<1>4. CASE \E c \in Commands : PQexec(c) \/ PQsendQuery(c)
  BY <1>2, <1>4
<1> QED
  BY <1>1, <1>3, <1>4 DEF Application

\* Every step keeps that.
LEMMA SettledStep ==
    ASSUME Typed, Typed', Round, InOrder, QuietEnd, Finishes, Collects, Settled, [Next]_vars
    PROVE  Settled'
<1>1. /\ Len(asked) \in Nat /\ Len(asked') \in Nat /\ MaxCommands \in Nat
      /\ Sent \in 0..Len(asked) /\ Sent' \in 0..Len(asked')
  <2>1. asked \in Seq(Commands) /\ asked' \in Seq(Commands)
    BY DEF Typed, ServerTyped
  <2>2. Len(asked) \in Nat /\ Len(asked') \in Nat /\ MaxCommands \in Nat
    BY <2>1, MaxCommandsAssumption
  <2>3. Sent = IF call.fn = "PQexecStart" THEN Len(asked) - 1 ELSE Len(asked)
    BY DEF Sent, Current
  <2>4. Sent' = IF call'.fn = "PQexecStart" THEN Len(asked') - 1 ELSE Len(asked')
    BY DEF Sent, Current
  <2>5. (call.fn = "PQexecStart" => Len(asked) > 0) /\ (call'.fn = "PQexecStart" => Len(asked') > 0)
    BY DEF Typed, ClientTyped
  <2> QED
    BY <2>2, <2>3, <2>4, <2>5
<1>2. CASE (ServerMoves \/ EventMoves) /\ UNCHANGED clientVars
  <2>1. UNCHANGED <<asked, call, answer>>
    BY <1>2 DEF ServerMoves, EventMoves, clientVars, historyVars
  <2>2. Pending' \subseteq Pending
    BY <1>2, <2>1, PendingShrinks, EventInOrder
  <2> QED
    BY <2>1, <2>2 DEF Settled, Current
<1>3. CASE ClientMoves /\ (Application \/ LibpqStep)
  <2>1. CASE UNCHANGED answer
    <3>1. /\ \/ UNCHANGED asked
             \/ Len(asked) < MaxCommands /\ Len(asked') = Len(asked) + 1 /\ call.fn = "none"
          /\ call'.fn \in {"PQexecStart", "PQexecFinish"} =>
                  call.fn \in {"PQexecStart", "PQexecFinish"} \/ Len(asked') = Len(asked) + 1
      BY <1>3, AskedMoves
    <3>2. Len(asked') <= MaxCommands /\ Len(asked') >= Len(asked)
      BY <1>1, <3>1 DEF Settled
    <3>3. \A k \in 1..MaxCommands : k > Len(asked') => answer'[k] = "none"
      BY <1>1, <2>1, <3>2 DEF Settled
    <3>4. call'.fn \in {"PQexecStart", "PQexecFinish"} => answer'[Current'] = "none"
      <4> SUFFICES ASSUME call'.fn \in {"PQexecStart", "PQexecFinish"} PROVE answer[Len(asked')] = "none"
        BY <2>1 DEF Current
      <4>1. CASE Len(asked') = Len(asked) + 1
        <5>1. Len(asked') \in 1..MaxCommands /\ Len(asked') > Len(asked)
          BY <1>1, <3>2, <4>1
        <5> QED
          BY <5>1 DEF Settled
      <4>2. CASE Len(asked') # Len(asked) + 1
        <5>1. UNCHANGED asked /\ call.fn \in {"PQexecStart", "PQexecFinish"}
          BY <3>1, <4>2
        <5> QED
          BY <5>1 DEF Settled, Current
      <4> QED
        BY <4>1, <4>2
    <3>5. ASSUME NEW k \in 1..MaxCommands, answer[k] \in {"ok", "failed", "null"}, k \in Pending' PROVE FALSE
      <4>1. k = Sent' /\ Sent' = Sent + 1
        BY <1>3, <3>5, ClientInOrder DEF Settled
      <4>2. k <= Len(asked)
        BY <1>1, <3>5 DEF Settled
      <4>3. Sent # Len(asked)
        BY <1>1, <4>1, <4>2
      <4>4. call.fn = "PQexecStart" /\ Sent = Len(asked) - 1
        BY <4>3 DEF Sent, Current
      <4>5. k = Len(asked)
        BY <1>1, <4>1, <4>4
      <4> QED
        BY <3>5, <4>4, <4>5 DEF Settled, Current
    <3> QED
      BY <2>1, <3>2, <3>3, <3>4, <3>5 DEF Settled
  <2>2. CASE \E kind : Reports(kind)
    <3>1. PICK kind : Reports(kind)
      BY <2>2
    <3>2. /\ UNCHANGED <<asked, toServer, xact>> /\ call' = NoCall
          /\ answer' = [answer EXCEPT ![Current] = kind] /\ kind \in Promise!Answers
          /\ kind \in {"ok", "failed", "null"} => Current \notin Pending
      BY <3>1 DEF Reports
    <3>3. Pending' = Pending /\ Current' = Current
      BY <3>2 DEF Pending, Waiting, Current
    <3>4. answer' \in [1..MaxCommands -> Promise!Answers]
      BY <3>2 DEF Settled
    <3>5. \A k \in 1..MaxCommands : answer'[k] = IF k = Current THEN kind ELSE answer[k]
      BY <3>2 DEF Settled
    <3>6. \A k \in 1..MaxCommands : k > Len(asked) => k # Current
      BY <1>1 DEF Current
    <3>7. call'.fn = "none"
      BY <3>2 DEF NoCall
    <3> QED
      BY <3>2, <3>3, <3>4, <3>5, <3>6, <3>7 DEF Settled
  <2> QED
    BY <1>3, <2>1, <2>2, ClientReports
<1> QED
  BY <1>2, <1>3, StepMoves

\* Nothing was said of any command at first.
LEMMA SettledInit == ASSUME Init PROVE Settled /\ Promise!Init
<1>1. /\ asked = <<>> /\ toServer = <<>> /\ xact = Nobody /\ committed = {}
      /\ answer = [k \in 1..MaxCommands |-> "none"] /\ call.fn = "none"
  BY DEF Init, BackendInit, ClientInit, NoCall
<1>2. Len(<<>>) = 0 /\ DOMAIN <<>> = {} /\ 0 <= MaxCommands
  BY MaxCommandsAssumption
<1>3. "none" \in Promise!Answers
  BY DEF Promise!Answers
<1>4. answer \in [1..MaxCommands -> Promise!Answers] /\ \A k \in 1..MaxCommands : answer[k] = "none"
  BY <1>1, <1>3
<1> QED
  BY <1>1, <1>2, <1>4 DEF Settled, Promise!Init

\* Every step is one of the promise, or says and applies nothing.
LEMMA PromiseStep ==
    ASSUME Typed, Round, InOrder, QuietEnd, Finishes, Collects, Settled, [Next]_vars
    PROVE  [Promise!Next]_<<answer, committed>>
<1>1. Len(asked) \in Nat /\ MaxCommands \in Nat /\ Sent \in 0..Len(asked)
  <2>1. Len(asked) \in Nat /\ MaxCommands \in Nat
    BY MaxCommandsAssumption DEF Typed, ServerTyped
  <2>2. Sent = IF call.fn = "PQexecStart" THEN Len(asked) - 1 ELSE Len(asked)
    BY DEF Sent, Current
  <2>3. call.fn = "PQexecStart" => Len(asked) > 0
    BY DEF Typed, ClientTyped
  <2> QED
    BY <2>1, <2>2, <2>3
<1>2. CASE ServerMoves /\ UNCHANGED clientVars
  <2>1. UNCHANGED answer
    BY <1>2 DEF clientVars, historyVars
  <2>2. CASE UNCHANGED committed
    BY <2>1, <2>2
  <2>3. CASE xact \in Pending /\ committed' = committed \cup {xact}
    <3>1. xact \in 1..Sent /\ \A j \in committed : j < xact
      BY <2>3 DEF InOrder
    <3>2. xact \in 1..MaxCommands
      BY <1>1, <3>1 DEF Settled
    <3>3. answer[xact] \in Promise!Answers /\ answer[xact] \notin {"ok", "failed", "null"}
      BY <2>3, <3>2 DEF Settled
    <3>4. answer[xact] \in {"none", "lost", "copy"}
      BY <3>3 DEF Promise!Answers
    <3>5. Promise!Commit(xact)
      BY <2>1, <2>3, <3>1, <3>4 DEF Promise!Commit
    <3> QED
      BY <3>2, <3>5 DEF Promise!Next
  <2> QED
    BY <1>2, <2>2, <2>3, PendingShrinks
<1>3. CASE EventMoves /\ UNCHANGED clientVars
  BY <1>3 DEF EventMoves, clientVars, historyVars
<1>4. CASE ClientMoves /\ (Application \/ LibpqStep)
  <2>1. UNCHANGED committed
    BY <1>4 DEF ClientMoves, serverVars
  <2>2. CASE UNCHANGED answer
    BY <2>1, <2>2
  <2>3. CASE \E kind : Reports(kind)
    <3>1. PICK kind : Reports(kind)
      BY <2>3
    <3>2. Current \in 1..MaxCommands
      <4>1. call.fn \in {"PQexecStart", "PQexecFinish"}
        BY <3>1 DEF Reports
      <4>2. Len(asked) > 0
        BY <4>1 DEF Typed, ClientTyped
      <4> QED
        BY <1>1, <4>2 DEF Settled, Current
    <3>3. answer[Current] = "none"
      BY <3>1 DEF Reports, Settled
    <3>4. Promise!Return(Current, kind) /\ kind \in Promise!Answers \ {"none"}
      BY <3>1, <3>3 DEF Reports, Promise!Return
    <3> QED
      BY <3>2, <3>4 DEF Promise!Next
  <2> QED
    BY <1>4, <2>2, <2>3, ClientReports
<1> QED
  BY <1>2, <1>3, <1>4, StepMoves

\* PQexec keeps its promise over every failure of the server, of the link and
\* of a statement, at any step of either end: a command it reports as done is
\* committed, one it reports as failed or not sent never is, neither before nor
\* after, and commands are committed at most once and in the order they were
\* given (PQexecFinish and PQgetResult of fe-exec.c against PostgresMain).
THEOREM PromiseKept == ASSUME ~CopyInExtended PROVE Spec => KeepsPromise
<1> DEFINE Inv == AnswerInv /\ InOrder /\ Finishes /\ Settled
<1>1. Init => Inv /\ Promise!Init
  <2>1. Init => AnswerInv
    BY TypedInit, RoundInit, AnswersInit DEF AnswerInv, Init, BackendInit, Dead
  <2> QED
    BY <2>1, InOrderInit, FinishesInit, SettledInit
<1>2. ASSUME Inv, [Next]_vars PROVE Inv' /\ [Promise!Next]_<<answer, committed>>
  <2>1. AnswerInv'
    BY <1>2, AnswerStep
  <2>2. Typed /\ Typed' /\ Round /\ (Dead => QuietEnd) /\ Collects
    BY <1>2, <2>1 DEF AnswerInv
  <2>3. QuietEnd
    BY <2>2, RoundQuiet
  <2>4. InOrder'
    BY <1>2, <2>2, InOrderStep
  <2>5. Finishes'
    BY <1>2, FinishesStep
  <2>6. Settled'
    BY <1>2, <2>2, <2>3, SettledStep
  <2>7. [Promise!Next]_<<answer, committed>>
    BY <1>2, <2>2, <2>3, PromiseStep
  <2> QED
    BY <2>1, <2>4, <2>5, <2>6, <2>7
<1>3. Inv /\ [Next]_vars => Inv'
  BY <1>2
<1>4. Inv /\ [Next]_vars => [Promise!Next]_<<answer, committed>>
  BY <1>2
<1> HIDE DEF Inv
<1> QED
  BY <1>1, <1>3, <1>4, PTL DEF Spec, KeepsPromise, Promise!Spec
=============================================================================
