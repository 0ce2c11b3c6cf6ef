---------------------------- MODULE LibpqConnect ----------------------------
(***************************************************************************)
(* Making a connection: PQconnectdb, PQreset and PQfinish of libpq's       *)
(* fe-connect.c, around the state machine of PQconnectPoll.                *)
(*                                                                         *)
(* An attempt may go through several sockets: the next address of the      *)
(* host, and again the same address without SSL, with SSL, with protocol   *)
(* 2.0, or without an application name.  Each of these fallbacks is        *)
(* remembered in a flag of the connection object.                          *)
(*                                                                         *)
(* A step is what PQconnectPoll does with one address or one answer.  The  *)
(* server and the network are the choices in a step; whether the server    *)
(* takes SSL does not change.  Waiting and the contents of the startup     *)
(* packet and of the password exchange are left out.                       *)
(***************************************************************************)
EXTENDS Naturals

CONSTANTS
    Sockets,        \* the descriptors the kernel may hand out
    None,           \* no descriptor, no SSL session
    MaxAddresses    \* of a host name

ASSUME ConnectAssumption ==
    /\ None \notin Sockets
    /\ MaxAddresses \in Nat \ {0}

VARIABLES
    sslmode, unixSocket, appname,     \* the settings of the connection
    addresses,                        \* how many the name resolves to
    serverSSL,                        \* whether the server takes SSL
    options_valid, status, addr_cur,
    sock,
    ssl,                              \* the socket the SSL session was made on
    allow_ssl_try, wait_ssl_try,
    pversion, send_appname,
    asked,                            \* a password was asked for on this socket
    calling,                          \* PQconnectdb or PQreset has not returned
    open,                             \* kernel: the open sockets
    tries,                            \* history: addresses tried in this call
    startups                          \* history: the kinds of startup packets sent in it

settingVars == <<sslmode, unixSocket, appname, addresses, serverSSL>>
sslTryVars == <<allow_ssl_try, wait_ssl_try>>
retryVars == <<sslTryVars, pversion, send_appname>>
socketVars == <<sock, ssl, open>>
historyVars == <<tries, startups>>
vars == <<settingVars, options_valid, status, addr_cur, socketVars, retryVars, asked,
          calling, historyVars>>

\* verify-ca and verify-full are, for the states here, as require.
Modes == {"disable", "allow", "prefer", "require"}

Init ==
    /\ sslmode \in Modes
    /\ unixSocket \in BOOLEAN /\ appname \in BOOLEAN /\ serverSSL \in BOOLEAN
    /\ addresses \in 1..MaxAddresses
    /\ options_valid = TRUE
    /\ status = "BAD"
    /\ addr_cur = 0
    /\ sock = None /\ ssl = None /\ open = {}
    /\ allow_ssl_try = TRUE /\ wait_ssl_try = FALSE
    /\ pversion = 0 /\ send_appname = FALSE
    /\ asked = FALSE
    /\ calling = FALSE
    /\ tries = 0 /\ startups = {}

-----------------------------------------------------------------------------
(* Steps. *)

Polling(at) == calling /\ status = at

Goes(to) ==
    /\ status' = to
    /\ UNCHANGED <<settingVars, options_valid, addr_cur, sock, open, pversion, send_appname,
                   calling, tries>>

\* error_return: the call fails.
Fails ==
    /\ status' = "BAD"
    /\ calling' = FALSE
    /\ UNCHANGED <<settingVars, options_valid, retryVars, asked>>

\* Slip: the socket is forgotten, not closed.
RetryWithoutClose ==
    /\ sock' = None /\ ssl' = None
    /\ UNCHANGED open
    /\ status' = "NEEDED"
    /\ UNCHANGED <<settingVars, options_valid, addr_cur, asked, calling, historyVars>>

\* The same address is tried again, on another socket.
Retry ==
    /\ open' = open \ {sock}
    /\ sock' = None /\ ssl' = None
    /\ status' = "NEEDED"
    /\ UNCHANGED <<settingVars, options_valid, addr_cur, asked, calling, historyVars>>

\* Slip: a later address is tried with protocol 3.0 again.
NextAddressAfresh ==
    /\ addr_cur < addresses
    /\ addr_cur' = addr_cur + 1
    /\ pversion' = 3
    /\ UNCHANGED <<sslTryVars, send_appname>>

\* Slip: the end of the list is overlooked.
NextAddressAlways ==
    /\ addr_cur' = addr_cur + 1
    /\ UNCHANGED retryVars

NextAddress ==
    /\ addr_cur < addresses
    /\ addr_cur' = addr_cur + 1
    /\ UNCHANGED retryVars

\* Counted as far as FewTries needs it.
CountTry == tries' = IF tries > addresses + 3 THEN tries ELSE tries + 1

-----------------------------------------------------------------------------
(* PQconnectPoll: connecting.  An address fails when there is no socket for *)
(* it, or its options cannot be set, or connect says so at once.            *)

AddressFails ==
    /\ Polling("NEEDED")
    /\ NextAddress
    /\ CountTry
    /\ UNCHANGED <<settingVars, options_valid, status, socketVars, asked, calling, startups>>

LastAddressFails ==
    /\ Polling("NEEDED")
    /\ addr_cur = addresses
    /\ addr_cur' = 0
    /\ CountTry
    /\ Fails
    /\ UNCHANGED <<socketVars, startups>>

OpenSocket ==
    /\ Polling("NEEDED")
    /\ \E s \in Sockets \ open :
           sock' = s /\ open' = open \cup {s}
    /\ status' = "STARTED"
    /\ CountTry
    /\ asked' = FALSE
    /\ UNCHANGED <<settingVars, options_valid, addr_cur, ssl, retryVars, calling, startups>>

Connected ==
    /\ Polling("STARTED")
    /\ Goes("MADE")
    /\ UNCHANGED <<ssl, sslTryVars, asked, startups>>

\* The connect failed after all: on to the next address, if there is one.
ConnectRefused ==
    /\ Polling("STARTED")
    /\ NextAddress
    /\ status' = "NEEDED"
    /\ sock' = None /\ open' = open \ {sock}
    /\ UNCHANGED <<settingVars, options_valid, ssl, asked, calling, historyVars>>

-----------------------------------------------------------------------------
(* PQconnectPoll: the socket can be written.  SSL is requested first, if it *)
(* may be tried now; on a Unix socket it never is.                          *)

\* Slip: SSL is asked for again after it was ruled out.
WantsSSLAgain == ~unixSocket /\ ~wait_ssl_try /\ ssl = None

WantsSSL == allow_ssl_try /\ ~unixSocket /\ ~wait_ssl_try /\ ssl = None

RequestSSL ==
    /\ Polling("MADE")
    /\ WantsSSL
    /\ Goes("SSL_STARTUP")
    /\ UNCHANGED <<ssl, sslTryVars, asked, startups>>

Startup ==
    IF ssl = None THEN "clear"
    ELSE IF "clear" \in startups THEN "encrypted after clear" ELSE "encrypted"

SendStartup ==
    /\ Polling("MADE")
    /\ ~WantsSSL
    /\ allow_ssl_try' = (allow_ssl_try /\ ~unixSocket)
    /\ Goes("AWAITING_RESPONSE")
    /\ startups' = startups \cup {Startup}
    /\ UNCHANGED <<ssl, wait_ssl_try, asked>>

-----------------------------------------------------------------------------
(* PQconnectPoll: the answer to the request for SSL, and the handshake.     *)

SSLAccepted ==
    /\ Polling("SSL_STARTUP") /\ ssl = None
    /\ serverSSL
    /\ ssl' = sock
    /\ Goes("SSL_STARTUP")
    /\ UNCHANGED <<sslTryVars, asked, startups>>

\* Slip: to go on without SSL is all right for every mode.
SSLRefusedQuietly ==
    /\ Polling("SSL_STARTUP") /\ ssl = None
    /\ ~serverSSL
    /\ allow_ssl_try' = FALSE
    /\ Goes("MADE")
    /\ UNCHANGED <<ssl, wait_ssl_try, asked, startups>>

\* For require the refusal is an error: GiveUp.
SSLRefused ==
    /\ Polling("SSL_STARTUP") /\ ssl = None
    /\ ~serverSSL
    /\ sslmode # "require"
    /\ allow_ssl_try' = FALSE
    /\ Goes("MADE")
    /\ UNCHANGED <<ssl, wait_ssl_try, asked, startups>>

SSLMade ==
    /\ Polling("SSL_STARTUP") /\ ssl # None
    /\ Goes("MADE")
    /\ UNCHANGED <<ssl, sslTryVars, asked, startups>>

\* The test in the code; its last two parts are marked "redundant?" there.
PrefersRetry == sslmode = "prefer" /\ allow_ssl_try /\ ~wait_ssl_try

\* Slip: the retry without SSL does not rule SSL out.
RetryWithSSL == Retry /\ UNCHANGED retryVars

RetryWithoutSSL ==
    /\ Retry
    /\ allow_ssl_try' = FALSE
    /\ UNCHANGED <<wait_ssl_try, pversion, send_appname>>

HandshakeRetry ==
    /\ Polling("SSL_STARTUP") /\ ssl # None
    /\ PrefersRetry
    /\ RetryWithoutSSL

HandshakeFails ==
    /\ Polling("SSL_STARTUP") /\ ssl # None
    /\ ~PrefersRetry
    /\ ssl' = None
    /\ Fails
    /\ UNCHANGED <<addr_cur, sock, open, historyVars>>

-----------------------------------------------------------------------------
(* PQconnectPoll: an error of the server, as an answer to the startup       *)
(* packet or already to the request for SSL.                                *)

ErrorRead ==
    /\ calling
    /\ status = "AWAITING_RESPONSE" \/ (status = "SSL_STARTUP" /\ ssl = None)

AllowRetry ==
    /\ ErrorRead
    /\ sslmode = "allow" /\ ssl = None /\ allow_ssl_try /\ wait_ssl_try
    /\ Retry
    /\ wait_ssl_try' = FALSE
    /\ UNCHANGED <<allow_ssl_try, pversion, send_appname>>

PreferRetry ==
    /\ ErrorRead
    /\ PrefersRetry
    /\ RetryWithoutSSL

\* An error in the form of protocol 2: of an old server, or of a postmaster
\* that cannot fork.
ProtocolRetry ==
    /\ ErrorRead
    /\ pversion = 3
    /\ Retry
    /\ pversion' = 2
    /\ UNCHANGED <<sslTryVars, send_appname>>

-----------------------------------------------------------------------------
(* PQconnectPoll: authentication, and the messages up to ReadyForQuery.     *)

\* A password is asked for, and sent.
AuthRequest ==
    /\ Polling("AWAITING_RESPONSE")
    /\ ~asked
    /\ asked' = TRUE
    /\ Goes("AWAITING_RESPONSE")
    /\ UNCHANGED <<ssl, sslTryVars, startups>>

AuthOk ==
    /\ Polling("AWAITING_RESPONSE")
    /\ Goes("AUTH_OK")
    /\ UNCHANGED <<ssl, sslTryVars, asked, startups>>

\* A server older than 9.0 does not know application_name.
AppNameRetry ==
    /\ Polling("AUTH_OK")
    /\ send_appname /\ appname
    /\ Retry
    /\ send_appname' = FALSE
    /\ UNCHANGED <<sslTryVars, pversion>>

\* connectDBComplete returns with a connection.
Completes ==
    /\ status' = "OK"
    /\ calling' = FALSE
    /\ addr_cur' = 0
    /\ UNCHANGED <<settingVars, options_valid, socketVars, retryVars, asked, historyVars>>

Ready == Polling("AUTH_OK") /\ pversion = 3 /\ Completes

\* With protocol 2.0 the settings are made by queries first.
ReadyToSetEnv ==
    /\ Polling("AUTH_OK")
    /\ pversion = 2
    /\ Goes("SETENV")
    /\ UNCHANGED <<ssl, sslTryVars, asked, startups>>

SetEnv == Polling("SETENV") /\ Completes

-----------------------------------------------------------------------------
(* PQconnectPoll: errors, in any state with a socket.                       *)

\* An error of a system call, of the server, or of the password; a refusal or
\* an answer that no retry is for; connect_timeout is over.  The socket stays
\* until the connection is finished or reset.
GiveUp ==
    /\ calling /\ status # "NEEDED"
    /\ Fails
    /\ UNCHANGED <<addr_cur, socketVars, historyVars>>

\* A read finds the connection closed by the server.
ReadsEof ==
    /\ calling /\ status \in {"SSL_STARTUP", "AWAITING_RESPONSE", "AUTH_OK", "SETENV"}
    /\ Fails
    /\ sock' = None /\ ssl' = None /\ open' = open \ {sock}
    /\ UNCHANGED <<addr_cur, historyVars>>

Poll ==
    \/ AddressFails \/ LastAddressFails \/ OpenSocket \/ Connected \/ ConnectRefused
    \/ RequestSSL \/ SendStartup
    \/ SSLAccepted \/ SSLRefused \/ SSLMade \/ HandshakeRetry \/ HandshakeFails
    \/ AllowRetry \/ PreferRetry \/ ProtocolRetry
    \/ AuthRequest \/ AuthOk \/ AppNameRetry \/ Ready \/ ReadyToSetEnv \/ SetEnv
    \/ GiveUp \/ ReadsEof

-----------------------------------------------------------------------------
(* The calls. *)

\* closePGconn: the session ends, the settings and the flags stay.
closePGconn ==
    /\ open' = open \ {sock}
    /\ sock' = None /\ ssl' = None

\* The first call, by PQconnectdb, and every later one, by PQreset, with
\* connectDBStart.
Connect ==
    /\ ~calling
    /\ closePGconn
    /\ options_valid
    /\ calling' = TRUE
    /\ status' = "NEEDED"
    /\ addr_cur' = 1
    /\ pversion' = 3 /\ send_appname' = TRUE
    /\ allow_ssl_try' = (allow_ssl_try /\ sslmode # "disable")
    /\ wait_ssl_try' = (wait_ssl_try \/ sslmode = "allow")
    /\ tries' = 0 /\ startups' = {}
    /\ UNCHANGED <<settingVars, options_valid, asked>>

\* A name that cannot be resolved makes the options invalid, for good.
NameNotResolved ==
    /\ ~calling
    /\ closePGconn
    /\ options_valid' = FALSE
    /\ status' = "BAD"
    /\ addr_cur' = 0
    /\ tries' = 0 /\ startups' = {}
    /\ UNCHANGED <<settingVars, asked, calling, retryVars>>

\* The object is freed; the next call makes another.
PQfinish ==
    /\ ~calling
    /\ closePGconn
    /\ options_valid' = TRUE
    /\ status' = "BAD"
    /\ addr_cur' = 0
    /\ allow_ssl_try' = TRUE /\ wait_ssl_try' = FALSE
    /\ pversion' = 0 /\ send_appname' = FALSE
    /\ asked' = FALSE
    /\ tries' = 0 /\ startups' = {}
    /\ UNCHANGED <<settingVars, calling>>

\* A read or write of a query finds the connection closed.
ConnectionLost ==
    /\ status = "OK"
    /\ closePGconn
    /\ status' = "BAD"
    /\ UNCHANGED <<settingVars, options_valid, addr_cur, retryVars, asked, calling,
                   historyVars>>

Next == Poll \/ Connect \/ NameNotResolved \/ PQfinish \/ ConnectionLost

Spec == Init /\ [][Next]_vars

\* connectDBComplete polls on as soon as the socket is ready.  That it gets
\* ready at last is for connect_timeout to see to, or for the network.
FairSpec == Spec /\ WF_vars(Poll)

-----------------------------------------------------------------------------
(* Properties *)

SettingsOK ==
    /\ sslmode \in Modes
    /\ unixSocket \in BOOLEAN /\ appname \in BOOLEAN /\ serverSSL \in BOOLEAN
    /\ addresses \in 1..MaxAddresses

FlagsOK ==
    /\ options_valid \in BOOLEAN
    /\ allow_ssl_try \in BOOLEAN /\ wait_ssl_try \in BOOLEAN
    /\ pversion \in {0, 2, 3} /\ send_appname \in BOOLEAN
    /\ asked \in BOOLEAN
    /\ calling \in BOOLEAN

SocketsOK ==
    /\ sock \in Sockets \cup {None} /\ ssl \in Sockets \cup {None}
    /\ open \subseteq Sockets

CountsOK == addr_cur \in 0..addresses /\ tries \in Nat

StateOK ==
    /\ status \in {"NEEDED", "STARTED", "MADE", "SSL_STARTUP", "AWAITING_RESPONSE",
                   "AUTH_OK", "SETENV", "OK", "BAD"}
    /\ startups \subseteq {"clear", "encrypted", "encrypted after clear"}

TypeOK == SettingsOK /\ FlagsOK /\ SocketsOK /\ CountsOK /\ StateOK

\* Over all the fallbacks, failures and resets, the only open socket is the one
\* the connection holds, and an SSL session is one over that socket: none is
\* left open by a retry, and none is written to after its socket is gone.
SocketIsHeld ==
    /\ open = {sock} \ {None}
    /\ ssl \in {None, sock}

\* Every address is tried once, and an address again at most three times in
\* all: for SSL or its absence, for protocol 2.0, and without a name.  No
\* fallback repeats another's tries.
FewTries == tries <= addresses + 3

\* The table of sslmode (doc/src/sgml/libpq.sgml 381-447), through every retry
\* and every reset: "only try a non-SSL connection" for disable, "only try an
\* SSL connection" for require, and for prefer never SSL after a try without.
\* On a Unix socket there is no SSL.
ModeIsKept ==
    /\ sslmode = "disable" \/ unixSocket => startups \subseteq {"clear"}
    /\ sslmode = "require" /\ ~unixSocket => startups \subseteq {"encrypted"}
    /\ sslmode = "prefer" => "encrypted after clear" \notin startups

\* fe-connect.c asks "redundant?" of two tests in the retry of prefer after a
\* failed handshake (2093) and of one after an error (2300).  They are.
TestsAreRedundant ==
    sslmode = "prefer" =>
        /\ ~wait_ssl_try
        /\ calling /\ status = "SSL_STARTUP" => allow_ssl_try

\* A call returns, with a connection or without: the fallbacks do not go round
\* in circles.
CallReturns == calling ~> ~calling
=============================================================================
