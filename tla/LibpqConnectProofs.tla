------------------------- MODULE LibpqConnectProofs -------------------------
(***************************************************************************)
(* Theorems about making a connection, for every number of addresses and   *)
(* sockets.                                                                *)
(*                                                                         *)
(* The invariant says when a call is in progress, and what the flags that  *)
(* the retries leave behind still allow.  Inv /\ TriesAreBounded is        *)
(* inductive; the properties follow from it, ModeIsKept and FewTries with  *)
(* themselves as a part of what is inductive.                              *)
(***************************************************************************)
EXTENDS LibpqConnect, TLAPS

One(condition) == IF condition THEN 1 ELSE 0

\* The call is in progress in the states of PQconnectPoll; before a socket is
\* connected there is no SSL.
CallInProgress ==
    /\ calling <=> status \notin {"OK", "BAD"}
    /\ status = "NEEDED" => sock = None
    /\ status \in {"NEEDED", "STARTED"} => ssl = None

\* SSL is asked for and used where the flags allow it.
SSLIsAllowed ==
    /\ status = "SSL_STARTUP" => allow_ssl_try
    /\ calling /\ ssl # None => allow_ssl_try

NoSSLOnUnixSocket ==
    /\ unixSocket => status # "SSL_STARTUP"
    /\ unixSocket /\ calling => ssl = None

\* The flags follow the mode.
FlagsFollowMode ==
    /\ sslmode = "disable" /\ calling => ~allow_ssl_try
    /\ sslmode = "require" => unixSocket \/ allow_ssl_try
    /\ sslmode # "allow" => ~wait_ssl_try
    /\ sslmode = "prefer" /\ calling /\ "clear" \in startups => ~allow_ssl_try

AddressIsListed == calling => addr_cur # 0

Inv ==
    /\ TypeOK
    /\ SocketIsHeld
    /\ CallInProgress
    /\ SSLIsAllowed
    /\ NoSSLOnUnixSocket
    /\ FlagsFollowMode
    /\ AddressIsListed

\* The retry with or without SSL that is still possible.
SSLRetryLeft ==
    \/ sslmode = "allow" /\ wait_ssl_try
    \/ sslmode = "prefer" /\ allow_ssl_try

\* The tries that are still possible: every one in progress or to come uses up
\* an address or a flag.
TriesLeft ==
    (addresses - addr_cur) + One(status = "NEEDED")
        + One(SSLRetryLeft) + One(pversion = 3) + One(send_appname)

TriesAreBounded == calling => tries + TriesLeft <= addresses + 3

FewAtReturn == ~calling => FewTries

IInv == Inv /\ TriesAreBounded /\ FewAtReturn /\ ModeIsKept

-----------------------------------------------------------------------------
(* What a step leaves alone. *)

\* The settings of a connection do not change.
LEMMA SettingsStay == Next => UNCHANGED settingVars
BY Zenon
DEF Next, Poll, AddressFails, LastAddressFails, OpenSocket, Connected,
    ConnectRefused, RequestSSL, SendStartup, SSLAccepted, SSLRefused, SSLMade,
    HandshakeRetry, HandshakeFails, AllowRetry, PreferRetry, ProtocolRetry,
    AuthRequest, AuthOk, AppNameRetry, Ready, ReadyToSetEnv, SetEnv, GiveUp,
    ReadsEof, Connect, NameNotResolved, PQfinish, ConnectionLost,
    Polling, Goes, Fails, Retry, NextAddress, CountTry, WantsSSL, Startup,
        PrefersRetry, RetryWithoutSSL, ErrorRead, Completes, closePGconn,
        settingVars, socketVars, retryVars, sslTryVars, historyVars

\* A startup packet is sent by SendStartup alone.
LEMMA StartupsStay == Next => UNCHANGED startups \/ startups' = {} \/ SendStartup
BY Zenon
DEF Next, Poll, AddressFails, LastAddressFails, OpenSocket, Connected,
    ConnectRefused, RequestSSL, SSLAccepted, SSLRefused, SSLMade,
    HandshakeRetry, HandshakeFails, AllowRetry, PreferRetry, ProtocolRetry,
    AuthRequest, AuthOk, AppNameRetry, Ready, ReadyToSetEnv, SetEnv, GiveUp,
    ReadsEof, Connect, NameNotResolved, PQfinish, ConnectionLost,
    Polling, Goes, Fails, Retry, NextAddress, CountTry, WantsSSL, Startup,
        PrefersRetry, RetryWithoutSSL, ErrorRead, Completes, closePGconn,
        settingVars, socketVars, retryVars, sslTryVars, historyVars

\* So the settings stay of their types.
LEMMA SettingsOKStep == SettingsOK /\ Next => SettingsOK'
BY SettingsStay DEF SettingsOK, settingVars

\* What sending a startup packet does to the flags, put apart.
LEMMA SendStartupStep ==
    ASSUME FlagsOK, SettingsOK, SendStartup
    PROVE  /\ calling /\ status = "MADE" /\ status' = "AWAITING_RESPONSE"
           /\ ~WantsSSL
           /\ allow_ssl_try' => allow_ssl_try
           /\ startups' = startups \cup {Startup}
           /\ UNCHANGED <<settingVars, addr_cur, wait_ssl_try, pversion, send_appname,
                          calling, tries>>
BY Zenon DEF SendStartup, Goes, Polling

-----------------------------------------------------------------------------
(* The invariant *)

\* What the connection holds and what its flags allow, step by step.
LEMMA FlagsStep ==
    ASSUME Inv, SettingsOK', Next
    PROVE  /\ FlagsOK' /\ SocketsOK' /\ StateOK' /\ SocketIsHeld'
           /\ CallInProgress' /\ SSLIsAllowed' /\ NoSSLOnUnixSocket' /\ FlagsFollowMode'
<1>0. /\ SettingsOK /\ FlagsOK /\ SocketsOK /\ StateOK /\ SocketIsHeld
      /\ CallInProgress /\ SSLIsAllowed /\ NoSSLOnUnixSocket /\ FlagsFollowMode
  BY DEF Inv, TypeOK
<1> USE <1>0, ConnectAssumption
    DEF SettingsOK, Modes, FlagsOK, SocketsOK, StateOK, SocketIsHeld,
        CallInProgress, SSLIsAllowed, NoSSLOnUnixSocket, FlagsFollowMode,
        Polling, Goes, Fails, Retry, NextAddress, CountTry, WantsSSL, Startup,
        PrefersRetry, RetryWithoutSSL, ErrorRead, Completes, closePGconn,
        settingVars, socketVars, retryVars, sslTryVars, historyVars
<1>1. CASE AddressFails
  BY <1>1 DEF AddressFails
<1>2. CASE LastAddressFails
  BY <1>2 DEF LastAddressFails
<1>3. CASE OpenSocket
  BY <1>3 DEF OpenSocket
<1>4. CASE Connected
  BY <1>4 DEF Connected
<1>5. CASE ConnectRefused
  BY <1>5 DEF ConnectRefused
<1>6. CASE RequestSSL
  BY <1>6 DEF RequestSSL
<1>7. CASE SendStartup
  BY <1>7 DEF SendStartup
<1>8. CASE SSLAccepted
  BY <1>8 DEF SSLAccepted
<1>9. CASE SSLRefused
  BY <1>9 DEF SSLRefused
<1>10. CASE SSLMade
  BY <1>10 DEF SSLMade
<1>11. CASE HandshakeRetry
  BY <1>11 DEF HandshakeRetry
<1>12. CASE HandshakeFails
  BY <1>12 DEF HandshakeFails
<1>13. CASE AllowRetry
  BY <1>13 DEF AllowRetry
<1>14. CASE PreferRetry
  BY <1>14 DEF PreferRetry
<1>15. CASE ProtocolRetry
  BY <1>15 DEF ProtocolRetry
<1>16. CASE AuthRequest
  BY <1>16 DEF AuthRequest
<1>17. CASE AuthOk
  BY <1>17 DEF AuthOk
<1>18. CASE AppNameRetry
  BY <1>18 DEF AppNameRetry
<1>19. CASE Ready
  BY <1>19 DEF Ready
<1>20. CASE ReadyToSetEnv
  BY <1>20 DEF ReadyToSetEnv
<1>21. CASE SetEnv
  BY <1>21 DEF SetEnv
<1>22. CASE GiveUp
  BY <1>22 DEF GiveUp
<1>23. CASE ReadsEof
  BY <1>23 DEF ReadsEof
<1>24. CASE Connect
  BY <1>24 DEF Connect
<1>25. CASE NameNotResolved
  BY <1>25 DEF NameNotResolved
<1>26. CASE PQfinish
  BY <1>26 DEF PQfinish
<1>27. CASE ConnectionLost
  BY <1>27 DEF ConnectionLost
<1> QED
  BY <1>1, <1>2, <1>3, <1>4, <1>5, <1>6, <1>7, <1>8, <1>9, <1>10, <1>11, <1>12, <1>13,
     <1>14, <1>15, <1>16, <1>17, <1>18, <1>19, <1>20, <1>21, <1>22, <1>23, <1>24,
     <1>25, <1>26, <1>27 DEF Next, Poll

\* The place in the list of addresses, step by step.
LEMMA CountsStep ==
    ASSUME Inv, SettingsOK', FlagsOK', Next
    PROVE  CountsOK' /\ AddressIsListed'
<1>0. SettingsOK /\ FlagsOK /\ CountsOK /\ CallInProgress /\ AddressIsListed
  BY DEF Inv, TypeOK
<1> USE <1>0, ConnectAssumption
    DEF SettingsOK, Modes, FlagsOK, CountsOK, CallInProgress, AddressIsListed,
        Polling, Goes, Fails, Retry, NextAddress, CountTry, WantsSSL, Startup,
        PrefersRetry, RetryWithoutSSL, ErrorRead, Completes, closePGconn,
        settingVars, socketVars, retryVars, sslTryVars, historyVars
<1>1. CASE AddressFails
  BY <1>1 DEF AddressFails
<1>2. CASE LastAddressFails
  BY <1>2 DEF LastAddressFails
<1>3. CASE OpenSocket
  BY <1>3 DEF OpenSocket
<1>4. CASE Connected
  BY <1>4 DEF Connected
<1>5. CASE ConnectRefused
  BY <1>5 DEF ConnectRefused
<1>6. CASE RequestSSL
  BY <1>6 DEF RequestSSL
<1>7. CASE SendStartup
  BY <1>7 DEF SendStartup
<1>8. CASE SSLAccepted
  BY <1>8 DEF SSLAccepted
<1>9. CASE SSLRefused
  BY <1>9 DEF SSLRefused
<1>10. CASE SSLMade
  BY <1>10 DEF SSLMade
<1>11. CASE HandshakeRetry
  BY <1>11 DEF HandshakeRetry
<1>12. CASE HandshakeFails
  BY <1>12 DEF HandshakeFails
<1>13. CASE AllowRetry
  BY <1>13 DEF AllowRetry
<1>14. CASE PreferRetry
  BY <1>14 DEF PreferRetry
<1>15. CASE ProtocolRetry
  BY <1>15 DEF ProtocolRetry
<1>16. CASE AuthRequest
  BY <1>16 DEF AuthRequest
<1>17. CASE AuthOk
  BY <1>17 DEF AuthOk
<1>18. CASE AppNameRetry
  BY <1>18 DEF AppNameRetry
<1>19. CASE Ready
  BY <1>19 DEF Ready
<1>20. CASE ReadyToSetEnv
  BY <1>20 DEF ReadyToSetEnv
<1>21. CASE SetEnv
  BY <1>21 DEF SetEnv
<1>22. CASE GiveUp
  BY <1>22 DEF GiveUp
<1>23. CASE ReadsEof
  BY <1>23 DEF ReadsEof
<1>24. CASE Connect
  BY <1>24 DEF Connect
<1>25. CASE NameNotResolved
  BY <1>25 DEF NameNotResolved
<1>26. CASE PQfinish
  BY <1>26 DEF PQfinish
<1>27. CASE ConnectionLost
  BY <1>27 DEF ConnectionLost
<1> QED
  BY <1>1, <1>2, <1>3, <1>4, <1>5, <1>6, <1>7, <1>8, <1>9, <1>10, <1>11, <1>12, <1>13,
     <1>14, <1>15, <1>16, <1>17, <1>18, <1>19, <1>20, <1>21, <1>22, <1>23, <1>24,
     <1>25, <1>26, <1>27 DEF Next, Poll

LEMMA InvStep == Inv /\ Next => Inv'
BY SettingsOKStep, FlagsStep, CountsStep DEF Inv, TypeOK

\* Every try is paid for: step by step.
LEMMA TriesStep ==
    ASSUME Inv, Inv', TriesAreBounded, Next
    PROVE  TriesAreBounded'
<1>0. /\ SettingsOK /\ FlagsOK /\ CountsOK /\ CallInProgress
      /\ SettingsOK' /\ FlagsOK' /\ CountsOK'
  BY DEF Inv, TypeOK
<1>a. CASE SendStartup
  <2>1. SSLRetryLeft' => SSLRetryLeft
    BY <1>0, <1>a, SendStartupStep, Zenon DEF SSLRetryLeft, settingVars
  <2>2. /\ calling /\ status = "MADE" /\ status' = "AWAITING_RESPONSE"
        /\ UNCHANGED <<addresses, addr_cur, pversion, send_appname, tries>>
    BY <1>0, <1>a, SendStartupStep DEF settingVars
  <2> QED
    BY <1>0, <2>1, <2>2 DEF TriesAreBounded, TriesLeft, One, CountsOK, SettingsOK
<1> USE <1>0, ConnectAssumption
    DEF SettingsOK, Modes, FlagsOK, CountsOK, CallInProgress, TriesAreBounded,
        TriesLeft, SSLRetryLeft, One,
        Polling, Goes, Fails, Retry, NextAddress, CountTry, WantsSSL, Startup,
        PrefersRetry, RetryWithoutSSL, ErrorRead, Completes, closePGconn,
        settingVars, socketVars, retryVars, sslTryVars, historyVars
<1>1. CASE AddressFails
  BY <1>1 DEF AddressFails
<1>2. CASE LastAddressFails
  BY <1>2 DEF LastAddressFails
<1>3. CASE OpenSocket
  BY <1>3 DEF OpenSocket
<1>4. CASE Connected
  BY <1>4 DEF Connected
<1>5. CASE ConnectRefused
  BY <1>5 DEF ConnectRefused
<1>6. CASE RequestSSL
  BY <1>6 DEF RequestSSL
<1>7. CASE SendStartup
  BY <1>7, <1>a
<1>8. CASE SSLAccepted
  BY <1>8 DEF SSLAccepted
<1>9. CASE SSLRefused
  BY <1>9 DEF SSLRefused
<1>10. CASE SSLMade
  BY <1>10 DEF SSLMade
<1>11. CASE HandshakeRetry
  BY <1>11 DEF HandshakeRetry
<1>12. CASE HandshakeFails
  BY <1>12 DEF HandshakeFails
<1>13. CASE AllowRetry
  BY <1>13 DEF AllowRetry
<1>14. CASE PreferRetry
  BY <1>14 DEF PreferRetry
<1>15. CASE ProtocolRetry
  BY <1>15 DEF ProtocolRetry
<1>16. CASE AuthRequest
  BY <1>16 DEF AuthRequest
<1>17. CASE AuthOk
  BY <1>17 DEF AuthOk
<1>18. CASE AppNameRetry
  BY <1>18 DEF AppNameRetry
<1>19. CASE Ready
  BY <1>19 DEF Ready
<1>20. CASE ReadyToSetEnv
  BY <1>20 DEF ReadyToSetEnv
<1>21. CASE SetEnv
  BY <1>21 DEF SetEnv
<1>22. CASE GiveUp
  BY <1>22 DEF GiveUp
<1>23. CASE ReadsEof
  BY <1>23 DEF ReadsEof
<1>24. CASE Connect
  BY <1>24 DEF Connect
<1>25. CASE NameNotResolved
  BY <1>25 DEF NameNotResolved
<1>26. CASE PQfinish
  BY <1>26 DEF PQfinish
<1>27. CASE ConnectionLost
  BY <1>27 DEF ConnectionLost
<1> QED
  BY <1>1, <1>2, <1>3, <1>4, <1>5, <1>6, <1>7, <1>8, <1>9, <1>10, <1>11, <1>12, <1>13,
     <1>14, <1>15, <1>16, <1>17, <1>18, <1>19, <1>20, <1>21, <1>22, <1>23, <1>24,
     <1>25, <1>26, <1>27 DEF Next, Poll

\* The tries that are left are not negative.
LEMMA BoundedIsFew ==
    ASSUME Inv, TriesAreBounded, FewAtReturn
    PROVE  FewTries
<1> SUFFICES ASSUME calling PROVE FewTries
  BY DEF FewAtReturn
<1>1. SettingsOK /\ CountsOK /\ tries + TriesLeft <= addresses + 3
  BY DEF Inv, TypeOK, TriesAreBounded
<1> QED
  BY <1>1, ConnectAssumption DEF SettingsOK, CountsOK, TriesLeft, One, FewTries

\* The bound holds while the call is in progress, and its last step, which
\* fails, is one of the tries that were left.
LEMMA FewTriesStep ==
    ASSUME Inv, TriesAreBounded, FewAtReturn, Next
    PROVE  FewAtReturn'
<1> SUFFICES ASSUME ~calling' PROVE FewTries'
  BY DEF FewAtReturn
<1>1. SettingsOK /\ CountsOK /\ FlagsOK /\ CallInProgress
  BY DEF Inv, TypeOK
<1>2. addresses' = addresses
  BY SettingsStay DEF settingVars
<1>3. CASE LastAddressFails
  BY <1>1, <1>2, <1>3
     DEF LastAddressFails, Polling, CountTry, SettingsOK, CountsOK, TriesAreBounded,
         TriesLeft, One, FewTries
<1>4. CASE ~LastAddressFails
  <2>0. ~AddressFails /\ ~OpenSocket
    BY DEF AddressFails, OpenSocket, Polling
  <2>1. tries' = tries \/ tries' = 0
    BY <2>0, <1>4, Zenon
       DEF Next, Poll, Connected, ConnectRefused, RequestSSL, SendStartup, SSLAccepted,
    SSLRefused, SSLMade, HandshakeRetry, HandshakeFails, AllowRetry,
    PreferRetry, ProtocolRetry, AuthRequest, AuthOk, AppNameRetry, Ready,
    ReadyToSetEnv, SetEnv, GiveUp, ReadsEof, Connect, NameNotResolved, PQfinish,
    ConnectionLost,
        Polling, Goes, Fails, Retry, NextAddress, CountTry, WantsSSL, Startup,
        PrefersRetry, RetryWithoutSSL, ErrorRead, Completes, closePGconn,
        settingVars, socketVars, retryVars, sslTryVars, historyVars
  <2> QED
    BY <1>1, <1>2, <2>1, BoundedIsFew DEF FewTries, SettingsOK
<1> QED
  BY <1>3, <1>4

\* A startup packet is sent with or without SSL as the mode says.
LEMMA ModeStep ==
    ASSUME Inv, ModeIsKept, Next
    PROVE  ModeIsKept'
<1>0. /\ SettingsOK /\ FlagsOK /\ SSLIsAllowed /\ CallInProgress
      /\ NoSSLOnUnixSocket /\ FlagsFollowMode
  BY DEF Inv, TypeOK
<1>1. UNCHANGED <<sslmode, unixSocket>>
  BY SettingsStay DEF settingVars
<1>2. CASE UNCHANGED startups
  BY <1>1, <1>2 DEF ModeIsKept
<1>3. CASE startups' = {}
  BY <1>1, <1>3 DEF ModeIsKept
<1>4. CASE SendStartup
  <2>1. sslmode = "disable" \/ unixSocket => Startup = "clear"
    BY <1>0, <1>4, SendStartupStep
       DEF FlagsFollowMode, SSLIsAllowed, NoSSLOnUnixSocket, FlagsOK, SettingsOK, Startup
  <2>2. sslmode = "require" /\ ~unixSocket => ssl # None
    BY <1>0, <1>4, SendStartupStep
       DEF FlagsFollowMode, FlagsOK, SettingsOK, Modes, WantsSSL
  <2>3. sslmode = "require" /\ ~unixSocket => Startup = "encrypted"
    BY <2>2 DEF ModeIsKept, Startup
  <2>4. sslmode = "prefer" => Startup # "encrypted after clear"
    BY <1>0, <1>4, SendStartupStep
       DEF FlagsFollowMode, SSLIsAllowed, FlagsOK, SettingsOK, Startup
  <2>5. startups' = startups \cup {Startup}
    BY <1>0, <1>4, SendStartupStep
  <2>6. (sslmode = "disable" \/ unixSocket => startups \subseteq {"clear"})'
    BY <1>1, <2>1, <2>5 DEF ModeIsKept
  <2>7. (sslmode = "require" /\ ~unixSocket => startups \subseteq {"encrypted"})'
    BY <1>1, <2>3, <2>5 DEF ModeIsKept
  <2>8. (sslmode = "prefer" => "encrypted after clear" \notin startups)'
    BY <1>1, <2>4, <2>5 DEF ModeIsKept
  <2> QED
    BY <2>6, <2>7, <2>8 DEF ModeIsKept
<1> QED
  BY <1>2, <1>3, <1>4, StartupsStay

\* A step that changes nothing keeps the invariant.
LEMMA StutterStep == IInv /\ UNCHANGED vars => IInv'
<1> SUFFICES ASSUME IInv, UNCHANGED vars PROVE IInv'
  OBVIOUS
<1> USE DEF vars, settingVars, socketVars, retryVars, sslTryVars, historyVars
<1>1. TypeOK'
  <2>1. SettingsOK /\ FlagsOK /\ SocketsOK /\ CountsOK /\ StateOK
    BY DEF IInv, Inv, TypeOK
  <2>2. SettingsOK' /\ FlagsOK'
    BY <2>1 DEF SettingsOK, FlagsOK
  <2>3. SocketsOK' /\ CountsOK'
    BY <2>1 DEF SocketsOK, CountsOK
  <2>4. StateOK'
    BY <2>1 DEF StateOK
  <2> QED
    BY <2>2, <2>3, <2>4 DEF TypeOK
<1>2. (SocketIsHeld /\ CallInProgress /\ AddressIsListed /\ NoSSLOnUnixSocket)'
  BY DEF IInv, Inv, SocketIsHeld, CallInProgress, AddressIsListed, NoSSLOnUnixSocket
<1>3. (SSLIsAllowed /\ FlagsFollowMode)'
  BY DEF IInv, Inv, SSLIsAllowed, FlagsFollowMode
<1>4. (TriesAreBounded /\ FewAtReturn /\ ModeIsKept)'
  BY DEF IInv, TriesAreBounded, TriesLeft, SSLRetryLeft, FewAtReturn, FewTries, ModeIsKept
<1> QED
  BY <1>1, <1>2, <1>3, <1>4 DEF IInv, Inv

\* Before the first call nothing is open and everything is still allowed.
LEMMA InitInv == Init => IInv
<1> SUFFICES ASSUME Init PROVE IInv
  OBVIOUS
<1> USE ConnectAssumption DEF Init, Modes
<1>1. TypeOK
  <2>1. SettingsOK /\ FlagsOK
    BY DEF SettingsOK, FlagsOK
  <2>2. SocketsOK /\ CountsOK
    BY DEF SocketsOK, CountsOK
  <2>3. StateOK
    BY DEF StateOK
  <2> QED
    BY <2>1, <2>2, <2>3 DEF TypeOK
<1>2. /\ SocketIsHeld /\ CallInProgress /\ SSLIsAllowed /\ NoSSLOnUnixSocket
      /\ FlagsFollowMode /\ AddressIsListed
  BY DEF SocketIsHeld, CallInProgress, SSLIsAllowed, NoSSLOnUnixSocket, FlagsFollowMode,
         AddressIsListed
<1>3. TriesAreBounded /\ FewAtReturn /\ ModeIsKept
  BY DEF TriesAreBounded, FewAtReturn, FewTries, ModeIsKept
<1> QED
  BY <1>1, <1>2, <1>3 DEF IInv, Inv

\* The invariant of the specification.
LEMMA AlwaysIInv == Spec => []IInv
<1>1. IInv /\ [Next]_vars => IInv'
  BY InvStep, TriesStep, FewTriesStep, ModeStep, StutterStep DEF IInv
<1> QED
  BY InitInv, <1>1, PTL DEF Spec

-----------------------------------------------------------------------------
(* Theorems *)

\* Every variable keeps its type; the current address is one of the list.
THEOREM TypeCorrect == Spec => []TypeOK
BY AlwaysIInv, PTL DEF IInv, Inv

\* No retry, failure or reset leaves a socket open, or an SSL session behind.
THEOREM SocketAlwaysHeld == Spec => []SocketIsHeld
BY AlwaysIInv, PTL DEF IInv, Inv

\* A call tries every address once and at most three addresses again, however
\* many the name has.
THEOREM TriesAlwaysFew == Spec => []FewTries
BY BoundedIsFew, AlwaysIInv, PTL DEF IInv

\* What sslmode promises holds of every startup packet of every call.
THEOREM ModeAlwaysKept == Spec => []ModeIsKept
BY AlwaysIInv, PTL DEF IInv

\* The tests that fe-connect.c marks "redundant?" are.
THEOREM TestsAlwaysRedundant == Spec => []TestsAreRedundant
<1>1. Inv => TestsAreRedundant
  BY DEF Inv, TypeOK, SettingsOK, FlagsOK, FlagsFollowMode, SSLIsAllowed, TestsAreRedundant
<1> QED
  BY <1>1, AlwaysIInv, PTL DEF IInv
=============================================================================
