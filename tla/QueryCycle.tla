----------------------------- MODULE QueryCycle -----------------------------
(***************************************************************************)
(* libpq and a backend at the two ends of a connection: LibpqExec and      *)
(* Backend, interleaved, with the failures of either end and of the link.  *)
(* What PGSQLConnection's open and execCommand get from PQexec they get    *)
(* from here.                                                              *)
(***************************************************************************)
EXTENDS LibpqExec

vars == <<asked, wireVars, serverVars, clientVars>>

Init == BackendInit /\ ClientInit

Server == ServerStep /\ UNCHANGED clientVars

Next ==
    \/ Application
    \/ LibpqStep
    \/ Server
    \/ CopyFails /\ UNCHANGED clientVars
    \/ ProcessIncomingNotify /\ UNCHANGED clientVars
    \/ ServerExits /\ UNCHANGED clientVars
    \/ LinkCut /\ UNCHANGED clientVars

Spec == Init /\ [][Next]_vars

\* libpq goes on while a call has not returned, and the server with what it
\* has read.  Neither the application nor a failure is bound to do anything.
FairSpec == Spec /\ WF_vars(LibpqStep) /\ WF_vars(Server)

-----------------------------------------------------------------------------
(* Types *)

Types == {"Q", "P", "B", "D", "E", "S", "d", "c", "f",
          "1", "2", "t", "T", "n", "C", "I", "Z", "A", "G", "H"}

MessagesOK(ms) == \A i \in DOMAIN ms : ms[i].type \in Types /\ ms[i].cmd \in Nat

\* A result has an error message exactly when it is an error.
ResultOK(res) ==
    /\ res.status \in {"none", "COMMAND_OK", "EMPTY_QUERY", "TUPLES_OK", "FATAL_ERROR"}
                          \cup CopyStatuses
    /\ (res.err # <<>>) = (res.status = "FATAL_ERROR")
    /\ \A k \in res.from : k \in 0..Len(asked)

\* The types of the variables, and where a result may be.
TypeOK ==
    /\ MessagesOK(toServer) /\ MessagesOK(toClient) /\ MessagesOK(inBuffer)
    /\ link \in {"up", "cut"}
    /\ srv \in {"main", "query", "copyin", "exit"}
    /\ xact \in 0..Len(asked)
    /\ srv \in {"query", "copyin"} => xact # Nobody
    /\ srv = "copyin" => todo # <<>>
    /\ committed \subseteq 1..Len(asked)
    /\ status \in {"OK", "BAD"}
    /\ asyncStatus \in {"IDLE", "BUSY", "READY"} \cup CopyStatuses
    /\ queryclass \in Classes
    /\ ResultOK(result) /\ ResultOK(call.last) /\ ResultOK(returned.res)
    /\ asyncStatus = "READY" => result # NoResult

-----------------------------------------------------------------------------
(* Safety *)

\* PQexec answers with what the server said of this command, never with what
\* was left of another one: a query sent and not fetched, an interrupted COPY,
\* an answer that came late.  This is PQexecStart's draining.
AnswerIsOwn ==
    returned.cmd # Nobody =>
        /\ returned.res.from \subseteq {returned.cmd, Nobody}
        /\ \A i \in DOMAIN returned.res.err :
               returned.res.err[i] \in {returned.cmd, Nobody, Lost}

\* PQerrorMessage says what the result PQexec returned says, merged errors
\* included: PGSQLConnection reads the one to learn about the other.
ErrorMessageAgrees ==
    returned.cmd # Nobody => returned.null \/ errorMessage = returned.res.err

\* What was sent to libpq and is not parsed yet, read or still on the way.
Wire == inBuffer \o toClient
Notifications == {i \in DOMAIN Wire : Wire[i].type = "A"}

\* Whatever else libpq discards (the rest of a query, rows of a COPY OUT,
\* messages that come to an idle connection), no notification is dropped,
\* doubled or overtaken: the ones parsed are the first ones, and the others
\* come, each once and in their order, as long as the connection lives.
NotifiedInOrder ==
    /\ notifies = [i \in DOMAIN notifies |-> i]
    /\ \A i, j \in Notifications : i < j => Wire[i].cmd < Wire[j].cmd
    /\ ~Dead => {Wire[i].cmd : i \in Notifications} = Len(notifies) + 1 .. notified

\* When libpq holds the connection for idle, the server is idle too: it waits
\* in its main loop, and no answer is on the way.  The next command and its
\* answer then belong together.
InSync ==
    asyncStatus = "IDLE" /\ ~Dead =>
        /\ srv = "main" /\ ~send_ready_for_query /\ ~ignore_till_sync
        /\ \A i \in DOMAIN toServer : toServer[i].type \in {"d", "c", "f"}
        /\ \A i \in DOMAIN Wire : Wire[i].type = "A"

\* The comment over PQexec (fe-exec.c 1623): "If the query was not even sent,
\* return NULL".  For a query that was sent "a new PGresult is returned".
NullIsNotSent ==
    \A k \in 1..MaxCommands : answer[k] = "null" =>
        /\ k \notin committed /\ xact # k
        /\ \A i \in DOMAIN toServer : toServer[i].cmd # k

Promise == INSTANCE ExecPromise

\* PQexec keeps its promise over every failure: a command reported as done is
\* committed, one reported as failed or not sent never is, and commands are
\* committed in the order they were given, each at most once.
KeepsPromise == Promise!Spec

-----------------------------------------------------------------------------
(* Liveness *)

\* A call into libpq returns, whatever the server and the link do: PQexec ends
\* its loops, also over a COPY nobody ended and over a connection that is lost.
CallReturns == ~Idle ~> Idle
=============================================================================
