---------------------------- MODULE WebTerminal ----------------------------
(***************************************************************************)
(* One web terminal: src/backend/app/ssh/webssh.py under the WebSocket     *)
(* guard of src/backend/app/tools/at.py, on the login session that         *)
(* src/backend/app/users/user.py opens and ends.                           *)
(*                                                                         *)
(* Three greenlets share one WebSocket and one SSH channel.  The READER    *)
(* is the request handler: handshake, credentials, connection, then        *)
(* _ws_to_ssh.  The PUMP is _ssh_to_ws.  The WATCH is the loop that        *)
(* wakes every WS_SESSION_RENEW_INTERVAL seconds, renews the login token   *)
(* in Redis while the socket is open and closes the socket once the token  *)
(* is gone.  Whichever of reader and pump stops first cleans up.           *)
(*                                                                         *)
(* geventwebsocket is external: close() only marks the socket closed and   *)
(* sends a frame, so a greenlet already blocked in receive() still takes   *)
(* the next frame of a browser that has not seen it; the call after that   *)
(* raises.  paramiko is external: a channel closes when either side says   *)
(* so or the connection drops.                                             *)
(***************************************************************************)
EXTENDS Naturals

CONSTANTS MaxInbox,    \* frames of the browser waiting to be read
          MaxOutages   \* how often Redis goes away

TerminalAssumption == MaxInbox \in Nat /\ MaxOutages \in Nat

VARIABLES token,    \* the login session in Redis, by its time to live
          redis,    \* Redis answers
          outages,  \* outages so far
          peer,     \* the browser: here, silent (vanished) or left (closed)
          inbox,    \* frames waiting for receive()
          ws,       \* the server's end of the WebSocket
          idle,     \* the idle limit has passed since the last frame
          reader, pump, watch,   \* where each greenlet is
          chan, trans,           \* the SSH channel and its transport
          closing,  \* SshBridge._closed
          late      \* frames forwarded after the socket was closed (at most 2)

session == <<token, redis, outages>>
ssh     == <<chan, trans>>
browser == <<peer, inbox>>
vars    == <<session, browser, ws, idle, reader, pump, watch, ssh, closing, late>>

CloseSteps == {"close", "close_chan", "close_trans", "close_ws"}

TypeOK ==
  /\ token \in {"full", "low", "gone"}
  /\ redis \in BOOLEAN
  /\ outages \in 0..MaxOutages
  /\ peer \in {"here", "silent", "left"}
  /\ inbox \in 0..MaxInbox
  /\ ws \in {"open", "closed"}
  /\ idle \in BOOLEAN
  /\ reader \in {"handshake", "renew", "creds", "admit", "connect", "refuse",
                 "read", "send", "join", "done"} \cup CloseSteps
  /\ pump \in {"none", "poll", "send", "done"} \cup CloseSteps
  /\ watch \in {"none", "sleep", "check", "renew", "done"}
  /\ chan \in {"none", "open", "closed", "dropped"}
  /\ trans \in {"none", "open", "closed", "dropped"}
  /\ closing \in BOOLEAN
  /\ late \in 0..2

\* The browser has just upgraded the connection with the token of a login.
\* login_dl sets the token and its expiry in two calls and answers after both,
\* so no browser holds a token without an expiry.
Init ==
  /\ token \in {"full", "low"}
  /\ redis = TRUE
  /\ outages = 0
  /\ peer = "here"
  /\ inbox = 0
  /\ ws = "open"
  /\ idle = FALSE
  /\ reader = "handshake"
  /\ pump = "none"
  /\ watch = "none"
  /\ chan = "none"
  /\ trans = "none"
  /\ closing = FALSE
  /\ late = 0

-----------------------------------------------------------------------------
(* The login session.                                                      *)

\* expire(tk, SESSION_DEFAULT_EXP_SECONDS), unless the key is gone by now
Prolonged(t) == IF t = "gone" THEN "gone" ELSE "full"

\* what _ws_session_check_and_renew and ogs_auth_token prolong: a token with
\* less than the threshold left
Due(t) == t = "low"

\* Redis counts the time to live down
Age ==
  /\ token \in {"full", "low"}
  /\ token' = IF token = "full" THEN "low" ELSE "gone"
  /\ UNCHANGED <<redis, outages, browser, ws, idle, reader, pump, watch, ssh,
                 closing, late>>

\* UserLogout.logout, from this or another tab
Logout ==
  /\ peer = "here"
  /\ redis
  /\ token # "gone"
  /\ token' = "gone"
  /\ UNCHANGED <<redis, outages, browser, ws, idle, reader, pump, watch, ssh,
                 closing, late>>

\* any other request of the same browser (ogs_auth_token)
OtherRequest ==
  /\ peer = "here"
  /\ redis
  /\ Due(token)
  /\ token' = Prolonged(token)
  /\ UNCHANGED <<redis, outages, browser, ws, idle, reader, pump, watch, ssh,
                 closing, late>>

RedisFails ==
  /\ redis
  /\ outages < MaxOutages
  /\ redis' = FALSE
  /\ outages' = outages + 1
  /\ UNCHANGED <<token, browser, ws, idle, reader, pump, watch, ssh, closing, late>>

RedisReturns ==
  /\ ~redis
  /\ redis' = TRUE
  /\ UNCHANGED <<token, outages, browser, ws, idle, reader, pump, watch, ssh,
                 closing, late>>

-----------------------------------------------------------------------------
(* The browser and the host.                                               *)

Types ==
  /\ peer = "here"
  /\ inbox < MaxInbox
  /\ inbox' = inbox + 1
  /\ UNCHANGED <<session, peer, ws, idle, reader, pump, watch, ssh, closing, late>>

\* the tab is closed (the socket ends) or the machine vanishes (it does not)
BrowserGoes ==
  /\ peer = "here"
  /\ peer' \in {"left", "silent"}
  /\ UNCHANGED <<session, inbox, ws, idle, reader, pump, watch, ssh, closing, late>>

\* WEBSH_IDLE_TIMEOUT passes without a frame
IdlePasses ==
  /\ reader \in {"read", "send"}
  /\ inbox = 0
  /\ ~idle
  /\ idle' = TRUE
  /\ UNCHANGED <<session, browser, ws, reader, pump, watch, ssh, closing, late>>

\* the shell exits or the connection to the host drops
HostEnds ==
  /\ chan = "open"
  /\ chan' = "closed"
  /\ trans' \in {trans, "closed"}
  /\ UNCHANGED <<session, browser, ws, idle, reader, pump, watch, closing, late>>

-----------------------------------------------------------------------------
(* The reader before the bridge: ws_auth and OgsWebSocket.web_ssh.         *)

\* ws_auth: the token of the cookie must be in Redis; an error of Redis
\* fails the request
Handshake ==
  /\ reader = "handshake"
  /\ reader' = IF redis /\ token # "gone" THEN "renew" ELSE "done"
  /\ ws' = IF reader' = "done" THEN "closed" ELSE ws
  /\ UNCHANGED <<session, browser, idle, pump, watch, ssh, closing, late>>

\* the first renewal, whose outcome is ignored, and the start of the watch
RenewAndWatch ==
  /\ reader = "renew"
  /\ token' = IF redis /\ Due(token) THEN Prolonged(token) ELSE token
  /\ watch' = "sleep"
  /\ reader' = "creds"
  /\ UNCHANGED <<redis, outages, browser, ws, idle, pump, ssh, closing, late>>

\* The first receive() has no timeout: a frame, or None from a browser that
\* left; one that vanished keeps the handler here for good.
Credentials ==
  /\ reader = "creds"
  /\ \/ inbox > 0 /\ inbox' = inbox - 1 /\ reader' \in {"admit", "refuse"}
     \/ inbox = 0 /\ peer = "left" /\ reader' = "done" /\ UNCHANGED inbox
  /\ ws' = IF reader' = "done" THEN "closed" ELSE ws
  /\ UNCHANGED <<session, peer, idle, pump, watch, ssh, closing, late>>

\* _session: whose token it is, read again; an error of Redis finds nobody
SessionUser == redis /\ token # "gone"

\* _check_host_permitted: nobody is refused; whether a user's role, groups and
\* rules cover the host is data this module leaves open
Verdicts == IF SessionUser THEN {"connect", "refuse"} ELSE {"refuse"}

\* host and account are looked up, then the permission
Admit ==
  /\ reader = "admit"
  /\ reader' \in Verdicts
  /\ UNCHANGED <<session, browser, ws, idle, pump, watch, ssh, closing, late>>

\* _create_ssh_conn, then spawn(_ssh_to_ws).  A failure after connect() leaves
\* the transport to the client object, which nothing closes by name.
Connect ==
  /\ reader = "connect"
  /\ \/ /\ chan' = "open" /\ trans' = "open"
        /\ reader' = "read" /\ pump' = "poll"
     \/ /\ reader' = "refuse"
        /\ \/ UNCHANGED ssh
           \/ chan' = "none" /\ trans' = "dropped"
           \/ chan' = "dropped" /\ trans' = "dropped"
        /\ UNCHANGED pump
  /\ UNCHANGED <<session, browser, ws, idle, watch, closing, late>>

\* _safe_send_and_close
Refuse ==
  /\ reader = "refuse"
  /\ ws' = "closed"
  /\ reader' = "done"
  /\ UNCHANGED <<session, browser, idle, pump, watch, ssh, closing, late>>

-----------------------------------------------------------------------------
(* The bridge.                                                             *)

\* _ws_to_ssh receives a frame, which resets the idle clock.  Blocked in
\* receive() the reader takes a frame even of a socket closed meanwhile.
ReaderReceives ==
  /\ reader = "read"
  /\ inbox > 0
  /\ inbox' = inbox - 1
  /\ idle' = FALSE
  /\ reader' = "send"
  /\ UNCHANGED <<session, peer, ws, pump, watch, ssh, closing, late>>

\* receive() returns None, the idle limit strikes, or the call raises because
\* the socket is closed
ReaderStops ==
  /\ reader = "read"
  /\ \/ inbox = 0 /\ peer = "left"
     \/ idle
  /\ reader' = "close"
  /\ UNCHANGED <<session, browser, ws, idle, pump, watch, ssh, closing, late>>

\* what would go wrong if receive() kept serving a closed socket
ForwardsOn ==
  /\ reader = "send"
  /\ late' = IF ws = "closed" /\ chan = "open" /\ late < 2 THEN late + 1 ELSE late
  /\ reader' = "read"
  /\ UNCHANGED <<session, browser, ws, idle, pump, watch, ssh, closing>>

\* A resize or input goes to the channel if it is still open; send() raises
\* when the window is full (settimeout(0)) or the channel dies under it.  The
\* next receive() raises on a closed socket.
ReaderForwards ==
  /\ reader = "send"
  /\ late' = IF ws = "closed" /\ chan = "open" /\ late < 2 THEN late + 1 ELSE late
  /\ \/ reader' = (IF ws = "closed" THEN "close" ELSE "read")
     \/ chan = "open" /\ reader' = "close"
  /\ UNCHANGED <<session, browser, ws, idle, pump, watch, ssh, closing>>

\* _ssh_to_ws: the channel closed, the idle limit, an empty read or an output
PumpPolls ==
  /\ pump = "poll"
  /\ \/ (chan # "open" \/ idle) /\ pump' = "close"
     \/ chan = "open" /\ ~idle /\ pump' = "send"
  /\ UNCHANGED <<session, browser, ws, idle, reader, watch, ssh, closing, late>>

\* ws.send raises on a closed socket, or on a browser found gone
PumpSends ==
  /\ pump = "send"
  /\ \/ ws = "open" /\ pump' = "poll"
     \/ (ws = "closed" \/ peer # "here") /\ pump' = "close"
  /\ UNCHANGED <<session, browser, ws, idle, reader, watch, ssh, closing, late>>

\* Where a greenlet goes after _close: the handler joins the pump
After(g) == IF g = "reader" THEN "join" ELSE "done"

Place(g) == IF g = "reader" THEN reader ELSE pump

Goes(g, to) ==
  IF g = "reader" THEN reader' = to /\ UNCHANGED pump
                  ELSE pump' = to /\ UNCHANGED reader

\* _close: the second caller returns at once, while the first still cleans up
CloseBegins(g) ==
  /\ Place(g) = "close"
  /\ closing' = TRUE
  /\ Goes(g, IF closing THEN After(g) ELSE "close_chan")
  /\ UNCHANGED <<session, browser, ws, idle, watch, ssh, late>>

CloseChannel(g) ==
  /\ Place(g) = "close_chan"
  /\ chan' = "closed"
  /\ Goes(g, "close_trans")
  /\ UNCHANGED <<session, browser, ws, idle, watch, trans, closing, late>>

CloseTransport(g) ==
  /\ Place(g) = "close_trans"
  /\ trans' = "closed"
  /\ Goes(g, "close_ws")
  /\ UNCHANGED <<session, browser, ws, idle, watch, chan, closing, late>>

CloseSocket(g) ==
  /\ Place(g) = "close_ws"
  /\ ws' = "closed"
  /\ Goes(g, After(g))
  /\ UNCHANGED <<session, browser, idle, watch, ssh, closing, late>>

\* join(timeout=5): the pump has ended, or five seconds have; the server then
\* ends the WebSocket of a handler that returned
ReaderReturns ==
  /\ reader = "join"
  /\ reader' = "done"
  /\ ws' = "closed"
  /\ UNCHANGED <<session, browser, idle, pump, watch, ssh, closing, late>>

-----------------------------------------------------------------------------
(* The watch: _ws_session_renew_loop.                                      *)

WatchWakes ==
  /\ watch = "sleep"
  /\ watch' = IF ws = "closed" THEN "done" ELSE "check"
  /\ UNCHANGED <<session, browser, ws, idle, reader, pump, ssh, closing, late>>

\* A token that is gone closes the socket; an error of Redis counts as alive
WatchChecks ==
  /\ watch = "check"
  /\ \/ ~redis /\ watch' = "sleep" /\ UNCHANGED ws
     \/ redis /\ token = "gone" /\ ws' = "closed" /\ watch' = "done"
     \/ /\ redis /\ token # "gone"
        /\ watch' = (IF Due(token) THEN "renew" ELSE "sleep")
        /\ UNCHANGED ws
  /\ UNCHANGED <<session, browser, idle, reader, pump, ssh, closing, late>>

WatchRenews ==
  /\ watch = "renew"
  /\ token' = IF redis THEN Prolonged(token) ELSE token
  /\ watch' = "sleep"
  /\ UNCHANGED <<redis, outages, browser, ws, idle, reader, pump, ssh, closing, late>>

-----------------------------------------------------------------------------
Close(g) == CloseBegins(g) \/ CloseChannel(g) \/ CloseTransport(g) \/ CloseSocket(g)

\* the bridge as its greenlets run it
ReaderStep == ReaderReceives \/ ReaderStops \/ ReaderForwards \/ Close("reader")
              \/ ReaderReturns
PumpStep   == PumpPolls \/ PumpSends \/ Close("pump")
WatchStep  == WatchWakes \/ WatchChecks \/ WatchRenews
EntryStep  == Handshake \/ RenewAndWatch \/ Credentials \/ Admit \/ Connect \/ Refuse
Around     == Logout \/ OtherRequest \/ RedisFails \/ Types \/ BrowserGoes \/ HostEnds

\* every greenlet has ended, or the handler waits for the first frame of a
\* browser that vanished
Over == /\ \/ reader = "done" /\ pump \in {"none", "done"}
           \/ reader = "creds" /\ peer = "silent" /\ inbox = 0
        /\ watch \in {"none", "done"}
        /\ UNCHANGED vars

Next == EntryStep \/ ReaderStep \/ PumpStep \/ WatchStep \/ Around
        \/ Age \/ IdlePasses \/ RedisReturns \/ Over

Spec == Init /\ [][Next]_vars

\* gevent runs every greenlet that can run; time passes; Redis comes back.
\* Nothing obliges the browser, the user or the host to do anything.
Fairness ==
  /\ WF_vars(EntryStep) /\ WF_vars(ReaderStep) /\ WF_vars(PumpStep)
  /\ WF_vars(WatchStep)
  /\ WF_vars(Age) /\ WF_vars(IdlePasses) /\ WF_vars(RedisReturns)

FairSpec == Spec /\ Fairness

-----------------------------------------------------------------------------
\* Closing the socket under a reader blocked in receive() lets through the one
\* frame it was waiting for and no more: the session that ended at the logout
\* sends at most one further input to the host.
OneLateInput == late <= 1

\* A terminal does not outlive the login: when the token is gone, logged out
\* or expired, the channel ends even while the user goes on typing and Redis
\* fails now and then (REV38-M2).  Once the handler has returned, the channel
\* and the transport are closed, whichever greenlet stopped first and however
\* their _close calls met (REVIEW-5-F-2).  And a browser that vanished from a
\* bridged terminal does not keep the login alive through the watch, which
\* renews the token.
Settled ==
  /\ token = "gone" => chan # "open"
  /\ reader = "done" => chan # "open" /\ trans # "open"
  /\ peer # "here" /\ reader = "read" => token = "gone"
TerminalEnds == []<>Settled
=============================================================================
