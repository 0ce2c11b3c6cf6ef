-------------------------- MODULE ConnectionProofs --------------------------
(***************************************************************************)
(* No session is leaked or shared, for any number of connections.          *)
(*                                                                         *)
(* Everything follows from what close leaves: the sessions of the others.  *)
(* A session that PQconnectdb then hands out is none of those.             *)
(***************************************************************************)
EXTENDS Connection, TLAPS

HeldInv ==
    /\ pgconn \in [Conns -> Sessions \cup {Nil}]
    /\ isConnected \in [Conns -> BOOLEAN]
    /\ SessionsAreHeld

\* close leaves the sessions of the other connections.
LEMMA CloseLeavesOthers ==
    ASSUME HeldInv, NEW c \in Conns
    PROVE  \A s : s \in DOMAIN openAfterClose(c) <=>
                    s # Nil /\ \E d \in Conns : d # c /\ pgconn[d] = s
<1>1. Holds(c) <=> pgconn[c] # Nil
  BY Zenon DEF HeldInv, SessionsAreHeld, Holds
<1>2. DOMAIN openAfterClose(c) = DOMAIN sessionAt \ (IF Holds(c) THEN {pgconn[c]} ELSE {})
  BY Zenon DEF openAfterClose
<1>3. \A s : s \in DOMAIN sessionAt <=> s # Nil /\ \E d \in Conns : pgconn[d] = s
  BY DEF HeldInv, SessionsAreHeld
<1>4. \A d \in Conns : d # c /\ pgconn[d] = pgconn[c] => pgconn[c] = Nil
  BY DEF HeldInv, SessionsAreHeld
<1> QED
  BY <1>1, <1>2, <1>3, <1>4

\* A connection that gives up its session, or has none.
LEMMA DroppingKeepsHeld ==
    ASSUME HeldInv, NEW c \in Conns,
           pgconn' = [pgconn EXCEPT ![c] = Nil],
           isConnected' = [isConnected EXCEPT ![c] = FALSE],
           sessionAt' = openAfterClose(c)
    PROVE  HeldInv'
<1>1. /\ pgconn' \in [Conns -> Sessions \cup {Nil}] /\ pgconn'[c] = Nil
      /\ \A d \in Conns : d # c => pgconn'[d] = pgconn[d]
  BY DEF HeldInv
<1>2. isConnected' \in [Conns -> BOOLEAN] /\ ~isConnected'[c]
  BY Zenon DEF HeldInv
<1>3. \A d \in Conns : d # c => (isConnected'[d] <=> isConnected[d])
  BY Zenon DEF HeldInv
<1>4. \A d \in Conns : isConnected'[d] <=> pgconn'[d] # Nil
  BY <1>1, <1>2, <1>3, Zenon DEF HeldInv, SessionsAreHeld
<1>5. \A s : s \in DOMAIN sessionAt' <=> s # Nil /\ \E d \in Conns : pgconn'[d] = s
  BY <1>1, CloseLeavesOthers
<1>6. \A d, e \in Conns : d # e /\ pgconn'[d] = pgconn'[e] => pgconn'[d] = Nil
  BY <1>1 DEF HeldInv, SessionsAreHeld
<1>7. DOMAIN sessionAt' = {pgconn'[d] : d \in Conns} \ {Nil}
  BY <1>5
<1> QED
  BY <1>1, <1>2, <1>4, <1>6, <1>7 DEF HeldInv, SessionsAreHeld

\* connect, answered with a session or not.
LEMMA ConnectKeepsHeld ==
    ASSUME HeldInv, NEW c \in Conns, NEW place, NEW answers \in BOOLEAN,
           Connect(c, place, answers)
    PROVE  HeldInv'
<1>1. CASE ~answers
  <2>1. pgconn' = [pgconn EXCEPT ![c] = Nil] /\ sessionAt' = openAfterClose(c)
    BY <1>1 DEF Connect
  <2>2. isConnected' = [isConnected EXCEPT ![c] = FALSE]
    BY <1>1, Zenon DEF Connect
  <2> QED
    BY <2>1, <2>2, DroppingKeepsHeld
<1>2. CASE answers
  <2>1. PICK s \in Sessions \ DOMAIN openAfterClose(c) :
          /\ pgconn' = [pgconn EXCEPT ![c] = s]
          /\ DOMAIN sessionAt' = DOMAIN openAfterClose(c) \cup {s}
    BY <1>2 DEF Connect
  <2>2. /\ pgconn' \in [Conns -> Sessions \cup {Nil}] /\ pgconn'[c] = s
        /\ s # Nil
        /\ \A d \in Conns : d # c => pgconn'[d] = pgconn[d]
    BY <2>1, ConnectionAssumption DEF HeldInv
  <2>3. isConnected' = [isConnected EXCEPT ![c] = TRUE]
    BY <1>2, Zenon DEF Connect
  <2>4. isConnected' \in [Conns -> BOOLEAN] /\ isConnected'[c]
    BY <2>3, Zenon DEF HeldInv
  <2>5. \A d \in Conns : d # c => (isConnected'[d] <=> isConnected[d])
    BY <2>3, Zenon DEF HeldInv
  <2>6. \A d \in Conns : isConnected'[d] <=> pgconn'[d] # Nil
    BY <2>2, <2>4, <2>5, Zenon DEF HeldInv, SessionsAreHeld
  <2>7. \A t : t \in DOMAIN openAfterClose(c) <=>
                 t # Nil /\ \E d \in Conns : d # c /\ pgconn[d] = t
    BY CloseLeavesOthers
  <2>8. \A t : t \in DOMAIN sessionAt' <=> t # Nil /\ \E d \in Conns : pgconn'[d] = t
    BY <2>1, <2>2, <2>7
  <2>9. \A d, e \in Conns : d # e /\ pgconn'[d] = pgconn'[e] => pgconn'[d] = Nil
    BY <2>1, <2>2, <2>7 DEF HeldInv, SessionsAreHeld
  <2>10. DOMAIN sessionAt' = {pgconn'[d] : d \in Conns} \ {Nil}
    BY <2>8
  <2> QED
    BY <2>2, <2>4, <2>6, <2>9, <2>10 DEF HeldInv, SessionsAreHeld
<1> QED
  BY <1>1, <1>2

\* A call that leaves the sessions alone.
LEMMA OthersKeepHeld ==
    ASSUME HeldInv, UNCHANGED <<pgconn, isConnected, sessionAt>> PROVE HeldInv'
BY DEF HeldInv, SessionsAreHeld

\* HeldInv is inductive: one case per call.
LEMMA HeldInvStep == HeldInv /\ [Next]_vars => HeldInv'
<1> SUFFICES ASSUME HeldInv, [Next]_vars PROVE HeldInv'
  OBVIOUS
<1>1. CASE UNCHANGED vars
  BY <1>1, OthersKeepHeld DEF vars, sessionVars
<1>2. ASSUME NEW c \in Conns,
             \/ init(c)
             \/ \E place \in Places : set(c, place)
             \/ \E value \in Places \cup {Nil} : setConnectionString(c, value)
             \/ \E answer \in Answers : execCommand(c, answer) \/ open(c, answer)
      PROVE  HeldInv'
  BY <1>2, OthersKeepHeld
  DEF init, set, setConnectionString, execCommand, open, sessionVars
<1>3. ASSUME NEW c \in Conns, NEW answers \in BOOLEAN, connect(c, answers)
      PROVE  HeldInv'
  BY <1>3, ConnectKeepsHeld DEF connect
<1>4. ASSUME NEW c \in Conns, NEW d \in Conns, NEW answers \in BOOLEAN,
             clone(c, d, answers)
      PROVE  HeldInv'
  <2>1. Connect(d, settings[c], answers) \/ UNCHANGED <<pgconn, isConnected, sessionAt>>
    BY <1>4 DEF clone, sessionVars
  <2> QED
    BY <2>1, ConnectKeepsHeld, OthersKeepHeld
<1>5. ASSUME NEW c \in Conns, close(c) \/ dealloc(c) PROVE HeldInv'
  BY <1>5, DroppingKeepsHeld DEF close, dealloc
<1> QED
  BY <1>1, <1>2, <1>3, <1>4, <1>5 DEF Next

\* PGSQLConnection.m 138-223: whatever is connected, reconnected, refused,
\* closed, cloned and freed, the open sessions are those that connections
\* hold, one each.
THEOREM SessionsAreAlwaysHeld == Spec => []SessionsAreHeld
<1>1. Init => HeldInv
  BY DEF Init, HeldInv, SessionsAreHeld
<1>2. HeldInv => SessionsAreHeld
  BY DEF HeldInv
<1> QED
  BY <1>1, <1>2, HeldInvStep, PTL DEF Spec

-----------------------------------------------------------------------------
(* Errors. *)

ErrorInv ==
    /\ errorDescription \in [Conns -> BOOLEAN]
    /\ failed \in [Conns -> BOOLEAN]
    /\ ErrorIsOfLastCall

\* A call that notes its outcome for its connection, in both places.
LEMMA OutcomeKeepsErrorInv ==
    ASSUME ErrorInv, NEW c \in Conns, NEW bad \in BOOLEAN,
           errorDescription' = [errorDescription EXCEPT ![c] = bad],
           failed' = [failed EXCEPT ![c] = bad]
    PROVE  ErrorInv'
<1>1. /\ errorDescription' \in [Conns -> BOOLEAN]
      /\ failed' \in [Conns -> BOOLEAN]
  BY Zenon DEF ErrorInv
<1>2. ASSUME NEW d \in Conns PROVE errorDescription'[d] <=> failed'[d]
  <2>1. CASE d = c
    BY <2>1, Zenon DEF ErrorInv
  <2>2. CASE d # c
    <3>1. errorDescription'[d] = errorDescription[d] /\ failed'[d] = failed[d]
      BY <2>2, Zenon DEF ErrorInv
    <3>2. errorDescription[d] <=> failed[d]
      BY Zenon DEF ErrorInv, ErrorIsOfLastCall
    <3> QED
      BY <3>1, <3>2, Zenon
  <2> QED
    BY <2>1, <2>2, Zenon
<1> QED
  BY <1>1, <1>2, Zenon DEF ErrorInv, ErrorIsOfLastCall

\* A call that has no outcome.
LEMMA NoOutcomeKeepsErrorInv ==
    ASSUME ErrorInv, UNCHANGED <<errorDescription, failed>> PROVE ErrorInv'
<1>1. errorDescription' = errorDescription /\ failed' = failed
  OBVIOUS
<1> QED
  BY <1>1, Zenon DEF ErrorInv, ErrorIsOfLastCall

\* ErrorInv is inductive: one case per kind of call.
LEMMA ErrorInvStep == ErrorInv /\ [Next]_vars => ErrorInv'
<1> SUFFICES ASSUME ErrorInv, [Next]_vars PROVE ErrorInv'
  OBVIOUS
<1>1. CASE UNCHANGED vars
  BY <1>1, NoOutcomeKeepsErrorInv DEF vars, outcomeVars
<1>2. ASSUME NEW c \in Conns,
             \/ init(c) \/ close(c)
             \/ \E place \in Places : set(c, place)
             \/ \E value \in Places \cup {Nil} : setConnectionString(c, value)
      PROVE  ErrorInv'
  BY <1>2, NoOutcomeKeepsErrorInv DEF init, close, set, setConnectionString, outcomeVars
<1>3. ASSUME NEW c \in Conns, NEW place, NEW answers \in BOOLEAN, Connect(c, place, answers)
      PROVE  ErrorInv'
  <2>1. CASE answers
    <3>1. /\ errorDescription' = [errorDescription EXCEPT ![c] = FALSE]
          /\ failed' = [failed EXCEPT ![c] = FALSE]
      BY <1>3, <2>1, Zenon DEF Connect
    <3> QED
      BY <3>1, OutcomeKeepsErrorInv, Zenon
  <2>2. CASE ~answers
    <3>1. /\ errorDescription' = [errorDescription EXCEPT ![c] = TRUE]
          /\ failed' = [failed EXCEPT ![c] = TRUE]
      BY <1>3, <2>2, Zenon DEF Connect
    <3> QED
      BY <3>1, OutcomeKeepsErrorInv, Zenon
  <2> QED
    BY <2>1, <2>2
<1>4. ASSUME NEW c \in Conns, NEW answers \in BOOLEAN, connect(c, answers)
      PROVE  ErrorInv'
  BY <1>3, <1>4, Zenon DEF connect
<1>5. ASSUME NEW c \in Conns, NEW d \in Conns, NEW answers \in BOOLEAN,
             clone(c, d, answers)
      PROVE  ErrorInv'
  <2>1. Connect(d, settings[c], answers) \/ UNCHANGED <<errorDescription, failed>>
    BY <1>5, Zenon DEF clone
  <2> QED
    BY <2>1, <1>3, NoOutcomeKeepsErrorInv, Zenon
<1>6. ASSUME NEW c \in Conns, dealloc(c) PROVE ErrorInv'
  <2>1. /\ errorDescription' = [errorDescription EXCEPT ![c] = FALSE]
        /\ failed' = [failed EXCEPT ![c] = FALSE]
    BY <1>6, Zenon DEF dealloc
  <2> QED
    BY <2>1, OutcomeKeepsErrorInv, Zenon
<1>7. ASSUME NEW c \in Conns, NEW answer \in Answers, execCommand(c, answer)
      PROVE  ErrorInv'
  <2> DEFINE bad == ~(pgconn[c] # Nil /\ answer = "done")
  <2>1. /\ errorDescription' = [errorDescription EXCEPT ![c] = bad]
        /\ failed' = [failed EXCEPT ![c] = bad]
    BY <1>7, Zenon DEF execCommand
  <2>2. bad \in BOOLEAN
    OBVIOUS
  <2> QED
    BY <2>1, <2>2, OutcomeKeepsErrorInv, Zenon
<1>8. ASSUME NEW c \in Conns, NEW answer \in Answers, open(c, answer)
      PROVE  ErrorInv'
  <2> DEFINE bad == pgconn[c] = Nil \/ answer \in {"error", "nothing"}
  <2>1. /\ errorDescription' = [errorDescription EXCEPT ![c] = bad]
        /\ failed' = [failed EXCEPT ![c] = bad]
    BY <1>8, Zenon DEF open, errorOfCall
  <2>2. bad \in BOOLEAN
    OBVIOUS
  <2> QED
    BY <2>1, <2>2, OutcomeKeepsErrorInv, Zenon
<1> QED
  BY <1>1, <1>2, <1>4, <1>5, <1>6, <1>7, <1>8, Zenon DEF Next

\* PGSQLConnection.m 157, 256-296, 335-420: through every exit of connect,
\* execCommand and open, an error is there exactly if the last of them failed.
THEOREM ErrorsAreOfTheLastCall == Spec => []ErrorIsOfLastCall
<1>1. Init => ErrorInv
  BY Zenon DEF Init, ErrorInv, ErrorIsOfLastCall
<1>2. ErrorInv => ErrorIsOfLastCall
  BY DEF ErrorInv
<1> QED
  BY <1>1, <1>2, ErrorInvStep, PTL DEF Spec
=============================================================================
