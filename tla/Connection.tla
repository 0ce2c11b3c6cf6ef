----------------------------- MODULE Connection -----------------------------
(***************************************************************************)
(* Connections to the database, PGSQLConnection.m: their settings, the     *)
(* session of libpq they hold, and the error of the last call.  Server,    *)
(* port, database, user and password are one value here, a place; a        *)
(* connection string stands for the place it names, and a session is a     *)
(* number that libpq hands out.                                            *)
(*                                                                         *)
(* Calls are made one after another, as the app makes them.  The variable  *)
(* failed is a history variable: whether the last call of a connection     *)
(* failed.                                                                 *)
(***************************************************************************)
EXTENDS Integers, FiniteSets

CONSTANTS
    Conns,         \* the objects that may be made
    Places,
    DefaultPlace,  \* localhost, 5432, template1
    Sessions,      \* more than there are objects: bounds the leaks seen
    Nil

ASSUME ConnectionAssumption ==
    /\ DefaultPlace \in Places
    /\ Nil \notin Conns \cup Places \cup Sessions

VARIABLES
    made,                    \* the objects that exist
    settings,                \* the place set by setServer and its like
    connectionString,
    pgconn,
    isConnected,
    errorDescription,        \* whether there is one
    globalPGSQLConnection,
    sessionAt,               \* libpq: the place of each open session
    failed

stringVars == <<settings, connectionString>>
sessionVars == <<pgconn, isConnected, sessionAt>>
outcomeVars == <<errorDescription, failed>>
vars == <<made, stringVars, sessionVars, outcomeVars, globalPGSQLConnection>>

-----------------------------------------------------------------------------
(* Objects *)

Init ==
    /\ made = {}
    /\ settings = [c \in Conns |-> DefaultPlace]
    /\ connectionString = [c \in Conns |-> Nil]
    /\ pgconn = [c \in Conns |-> Nil]
    /\ isConnected = [c \in Conns |-> FALSE]
    /\ errorDescription = [c \in Conns |-> FALSE]
    /\ globalPGSQLConnection = Nil
    /\ sessionAt = <<>>
    /\ failed = [c \in Conns |-> FALSE]

\* The first object made becomes the default connection.
becomeDefault(c) ==
    globalPGSQLConnection' = IF globalPGSQLConnection = Nil THEN c ELSE globalPGSQLConnection

init(c) ==
    /\ c \notin made
    /\ made' = made \cup {c}
    /\ becomeDefault(c)
    /\ UNCHANGED <<stringVars, sessionVars, outcomeVars>>

set(c, place) ==
    /\ c \in made
    /\ settings' = [settings EXCEPT ![c] = place]
    /\ UNCHANGED <<made, connectionString, sessionVars, outcomeVars, globalPGSQLConnection>>

setConnectionString(c, value) ==
    /\ c \in made
    /\ connectionString' = [connectionString EXCEPT ![c] = value]
    /\ UNCHANGED <<made, settings, sessionVars, outcomeVars, globalPGSQLConnection>>

-----------------------------------------------------------------------------
(* Sessions *)

\* close ends the session, if there is one and the object says so.
Holds(c) == pgconn[c] # Nil /\ isConnected[c]

\* Slip: a second connect forgets the session of the first.
openWithoutClose(c) == sessionAt

openAfterClose(c) ==
    [s \in DOMAIN sessionAt \ (IF Holds(c) THEN {pgconn[c]} ELSE {}) |-> sessionAt[s]]

\* A connection string is made from the settings once and then kept.
stringOf(c, place) ==
    IF connectionString[c] = Nil THEN place ELSE connectionString[c]

\* PQconnectdb answers with a session or with one that is bad, which is
\* finished at once.  The string is used from now on.
Connect(c, place, answers) ==
    LET rest == openAfterClose(c)
        at == stringOf(c, place)
    IN  /\ connectionString' = [connectionString EXCEPT ![c] = at]
        /\ isConnected' = [isConnected EXCEPT ![c] = answers]
        /\ errorDescription' = [errorDescription EXCEPT ![c] = ~answers]
        /\ failed' = [failed EXCEPT ![c] = ~answers]
        /\ \/ /\ answers
              /\ \E s \in Sessions \ DOMAIN rest :
                   /\ \A t \in Sessions \ DOMAIN rest : s <= t
                   /\ pgconn' = [pgconn EXCEPT ![c] = s]
                   /\ sessionAt' =
                        [t \in DOMAIN rest \cup {s} |-> IF t = s THEN at ELSE rest[t]]
           \/ /\ ~answers
              /\ pgconn' = [pgconn EXCEPT ![c] = Nil]
              /\ sessionAt' = rest

connect(c, answers) ==
    /\ c \in made
    /\ Connect(c, settings[c], answers)
    /\ UNCHANGED <<made, settings, globalPGSQLConnection>>

\* Without a session close changes nothing.
close(c) ==
    /\ c \in made
    /\ Holds(c)
    /\ sessionAt' = openAfterClose(c)
    /\ pgconn' = [pgconn EXCEPT ![c] = Nil]
    /\ isConnected' = [isConnected EXCEPT ![c] = FALSE]
    /\ UNCHANGED <<made, stringVars, outcomeVars, globalPGSQLConnection>>

\* The default connection is never freed, it retains itself.
dealloc(c) ==
    /\ c \in made
    /\ c # globalPGSQLConnection
    /\ made' = made \ {c}
    /\ sessionAt' = openAfterClose(c)
    /\ pgconn' = [pgconn EXCEPT ![c] = Nil]
    /\ isConnected' = [isConnected EXCEPT ![c] = FALSE]
    /\ settings' = [settings EXCEPT ![c] = DefaultPlace]
    /\ connectionString' = [connectionString EXCEPT ![c] = Nil]
    /\ errorDescription' = [errorDescription EXCEPT ![c] = FALSE]
    /\ failed' = [failed EXCEPT ![c] = FALSE]
    /\ UNCHANGED globalPGSQLConnection

\* The clone d of c has its settings, not its connection string, and connects
\* if c is connected.
clone(c, d, answers) ==
    /\ c \in made /\ d \notin made
    /\ made' = made \cup {d}
    /\ becomeDefault(d)
    /\ settings' = [settings EXCEPT ![d] = settings[c]]
    /\ IF isConnected[c] THEN Connect(d, settings[c], answers)
       ELSE UNCHANGED <<connectionString, sessionVars, errorDescription, failed>>

-----------------------------------------------------------------------------
(* Commands and queries.  What the server answers: *)

Answers == {"tuples", "done", "empty", "error", "nothing"}

\* Of these execCommand takes only a command that is done for a success.
execCommand(c, answer) ==
    LET done == pgconn[c] # Nil /\ answer = "done"
    IN  /\ c \in made
        /\ errorDescription' = [errorDescription EXCEPT ![c] = ~done]
        /\ failed' = [failed EXCEPT ![c] = ~done]
        /\ UNCHANGED <<made, stringVars, sessionVars, globalPGSQLConnection>>

\* Slip: the error of an earlier call is left.
errorLeft(c, bad) == errorDescription[c] \/ bad

errorOfCall(c, bad) == bad

\* open is for queries, and the app sends its commands through it as well.
open(c, answer) ==
    LET bad == pgconn[c] = Nil \/ answer \in {"error", "nothing"}
    IN  /\ c \in made
        /\ errorDescription' = [errorDescription EXCEPT ![c] = errorOfCall(c, bad)]
        /\ failed' = [failed EXCEPT ![c] = bad]
        /\ UNCHANGED <<made, stringVars, sessionVars, globalPGSQLConnection>>

Next ==
    \E c \in Conns :
        \/ init(c)
        \/ \E place \in Places : set(c, place)
        \/ \E value \in Places \cup {Nil} : setConnectionString(c, value)
        \/ \E answers \in BOOLEAN :
            connect(c, answers) \/ \E d \in Conns : clone(c, d, answers)
        \/ close(c)
        \/ dealloc(c)
        \/ \E answer \in Answers : execCommand(c, answer) \/ open(c, answer)

Spec == Init /\ [][Next]_vars

-----------------------------------------------------------------------------
(* Properties *)

\* Through any series of connects, failed ones, closes and clones, the open
\* sessions are those the connections hold, each held by one, and isConnected
\* tells which connections hold one: none is forgotten by a reconnect, closed
\* twice, or used after it was closed.
SessionsAreHeld ==
    /\ \A c \in Conns : isConnected[c] <=> pgconn[c] # Nil
    /\ DOMAIN sessionAt = {pgconn[c] : c \in Conns} \ {Nil}
    /\ \A c, d \in Conns : c # d /\ pgconn[c] = pgconn[d] => pgconn[c] = Nil

\* Whatever the calls, successful or not, on a session or without one, there
\* is an error exactly if the last connect, execCommand or open failed: an
\* error is never left over for the next call's caller to find.
ErrorIsOfLastCall == \A c \in Conns : errorDescription[c] <=> failed[c]
=============================================================================
