-------------------------- MODULE DashboardSession --------------------------
(***************************************************************************)
(* Local sessions of the dashboard (deploy/nodered/auth.js): login with a  *)
(* limit on attempts, logout, pages and Socket.IO connections.             *)
(*                                                                         *)
(* Handlers run one at a time, but login pauses in the middle: it reads    *)
(* the body, then awaits bcrypt, and other handlers run meanwhile.  A      *)
(* request may carry any cookie that was ever issued, or none.             *)
(***************************************************************************)
EXTENDS Integers, FiniteSets

CONSTANTS Requests,    \* login requests that can be in progress
          Sockets,     \* Socket.IO connections
          Ttl,         \* life of a session (8 h in the code)
          Window,      \* span of the attempt limit (60 s in the code)
          MaxAttempts, \* attempts per window (30 in the code)
          MaxSessions, \* capacity of the map (128 in the code)
          MaxTokens,   \* bound: sessions ever created
          MaxTime,     \* bound: clock
          MaxRestarts, \* bound: restarts of Node-RED
          None         \* no cookie, no session

Tokens == 1..MaxTokens

ASSUME SessionAssumption ==
    /\ {Ttl, Window, MaxAttempts, MaxSessions} \subseteq Nat \ {0}
    /\ {MaxTokens, MaxTime, MaxRestarts} \subseteq Nat
    /\ None \notin Nat

VARIABLES
    now,
    sessions,  \* tokens in the map
    expires,   \* per token
    socket,    \* per connection, the token of its session, or None
    attempts,  \* times of recent attempts, numbered
    verifying, \* login requests past the limit, before the handler goes on
    carried,   \* per login request, the token of its cookie
    issued,    \* tokens made so far
    admitted,  \* history: all attempts that passed the limit
    restarts

vars == <<now, sessions, expires, socket, attempts, verifying, carried, issued, admitted, restarts>>

Init ==
    /\ now = 0
    /\ sessions = {}
    /\ expires = [t \in Tokens |-> 0]
    /\ socket = [s \in Sockets |-> None]
    /\ attempts = {}
    /\ verifying = {}
    /\ carried = [r \in Requests |-> None]
    /\ issued = 0
    /\ admitted = {}
    /\ restarts = 0

Cookies == (1..issued) \cup {None}
Expired == {t \in sessions : expires[t] <= now}
-----------------------------------------------------------------------------
(* Regression: connections stay when their session goes.                   *)
RemoveOnly(gone) ==
    /\ sessions' = sessions \ gone
    /\ UNCHANGED socket

(* remove, for each of these tokens.                                       *)
Remove(gone) ==
    /\ sessions' = sessions \ gone
    /\ socket' = [s \in Sockets |-> IF socket[s] \in gone THEN None ELSE socket[s]]

(* Regression: the window is one unit short.                               *)
RecentShort == {a \in attempts : a[1] > now - Window + 1}

(* attempts.filter(t => t > now() - 60_000).                               *)
Recent == {a \in attempts : a[1] > now - Window}

WithinLimit == Cardinality(Recent) < MaxAttempts

(* POST /login, to the attempt limit.                                      *)
Login(r, t) ==
    /\ r \notin verifying
    /\ WithinLimit
    /\ LET a == <<now, Cardinality(admitted)>>
       IN  attempts' = Recent \cup {a} /\ admitted' = admitted \cup {a}
    /\ verifying' = verifying \cup {r}
    /\ carried' = [carried EXCEPT ![r] = t]
    /\ UNCHANGED <<now, sessions, expires, socket, issued, restarts>>

Throttle ==
    /\ ~WithinLimit
    /\ attempts' = Recent
    /\ UNCHANGED <<now, sessions, expires, socket, verifying, carried, issued, admitted, restarts>>

Finish(r) ==
    /\ verifying' = verifying \ {r}
    /\ carried' = [carried EXCEPT ![r] = None]

(* The body is malformed, or the credentials are wrong.                    *)
Reject(r) ==
    /\ r \in verifying
    /\ Finish(r)
    /\ UNCHANGED <<now, sessions, expires, socket, attempts, issued, admitted, restarts>>

(* sessions.size >= 128, once the expired sessions are removed.            *)
Room == Cardinality(sessions \ Expired) < MaxSessions

(* Regression: a login goes on with the session of the cookie.             *)
TokenKept(r) == IF carried[r] = None THEN issued + 1 ELSE carried[r]

(* crypto.randomBytes: never a token that was used.                        *)
NewToken(r) == issued + 1

(* The handler after the await: the session of the request's cookie is     *)
(* replaced by a new one.                                                  *)
Accept(r) ==
    /\ r \in verifying
    /\ Room /\ issued < MaxTokens
    /\ LET new == NewToken(r)
           gone == Expired \cup {carried[r]}
       IN  /\ sessions' = (sessions \ gone) \cup {new}
           /\ socket' = [s \in Sockets |-> IF socket[s] \in gone THEN None ELSE socket[s]]
           /\ expires' = [expires EXCEPT ![new] = now + Ttl]
    /\ issued' = issued + 1
    /\ Finish(r)
    /\ UNCHANGED <<now, attempts, admitted, restarts>>

Full(r) ==
    /\ r \in verifying
    /\ ~Room
    /\ Remove(Expired)
    /\ Finish(r)
    /\ UNCHANGED <<now, expires, attempts, issued, admitted, restarts>>

Logout(t) ==
    /\ Remove({t} \ {None})
    /\ UNCHANGED <<now, expires, attempts, verifying, carried, issued, admitted, restarts>>

(* sessionFor, which removes an expired session.                           *)
Live(t) == t \in sessions \ Expired

(* A page, or a connection, is refused.                                    *)
Deny(t) ==
    /\ ~Live(t)
    /\ Remove({t} \cap Expired)
    /\ UNCHANGED <<now, expires, attempts, verifying, carried, issued, admitted, restarts>>

(* ioMiddleware.                                                           *)
Connect(s, t) ==
    /\ socket[s] = None
    /\ Live(t)
    /\ socket' = [socket EXCEPT ![s] = t]
    /\ UNCHANGED <<now, sessions, expires, attempts, verifying, carried, issued, admitted, restarts>>

Drop(s) ==
    /\ socket' = [socket EXCEPT ![s] = None]
    /\ UNCHANGED <<now, sessions, expires, attempts, verifying, carried, issued, admitted, restarts>>

(* Regression: a timer that comes late does nothing.                       *)
DueExactly(s) == socket[s] # None /\ expires[socket[s]] = now

(* The connection's timer, set for the end of its session.                 *)
Due(s) == socket[s] # None /\ expires[socket[s]] <= now

Timer(s) == Due(s) /\ Drop(s)
Close(s) == socket[s] # None /\ Drop(s)

Tick ==
    /\ now < MaxTime
    /\ now' = now + 1
    /\ UNCHANGED <<sessions, expires, socket, attempts, verifying, carried, issued, admitted, restarts>>

(* Sessions and attempts are only in memory.                               *)
Restart ==
    /\ restarts < MaxRestarts
    /\ restarts' = restarts + 1
    /\ sessions' = {} /\ attempts' = {} /\ verifying' = {} /\ admitted' = {}
    /\ socket' = [s \in Sockets |-> None]
    /\ carried' = [r \in Requests |-> None]
    /\ UNCHANGED <<now, expires, issued>>

Next ==
    \/ \E r \in Requests, t \in Cookies : Login(r, t)
    \/ \E r \in Requests : Reject(r) \/ Accept(r) \/ Full(r)
    \/ \E t \in Cookies : Logout(t) \/ Deny(t)
    \/ \E s \in Sockets, t \in Cookies : Connect(s, t)
    \/ \E s \in Sockets : Timer(s) \/ Close(s)
    \/ Throttle \/ Tick \/ Restart

Spec == Init /\ [][Next]_vars

(* Timers fire and time passes.                                            *)
FairSpec == Spec /\ WF_vars(Tick) /\ \A s \in Sockets : WF_vars(Timer(s))
-----------------------------------------------------------------------------
(* Type correctness; neither list grows without bound.                     *)
TypeOK ==
    /\ now \in 0..MaxTime
    /\ sessions \subseteq 1..issued
    /\ Cardinality(sessions) <= MaxSessions
    /\ expires \in [Tokens -> 0..MaxTime + Ttl]
    /\ socket \in [Sockets -> Tokens \cup {None}]
    /\ attempts \subseteq admitted
    /\ Cardinality(attempts) <= MaxAttempts
    /\ verifying \subseteq Requests
    /\ carried \in [Requests -> Tokens \cup {None}]
    /\ issued \in 0..MaxTokens

(* A connection outlives neither a logout nor the replacement of its       *)
(* session, whatever was awaiting bcrypt meanwhile.                        *)
SocketsBelong == \A s \in Sockets : socket[s] # None => socket[s] \in sessions

(* Sessions and attempts are bounded, and connections have a session.      *)
SessionInv == TypeOK /\ SocketsBelong

(* In every window no more attempts pass the limit than it allows.         *)
AttemptsBounded ==
    \A t \in 0..MaxTime :
        Cardinality({a \in admitted : a[1] > t - Window /\ a[1] <= t}) <= MaxAttempts

(* A session that ended, by logout, expiry, replacement or a restart,      *)
(* never comes back, even through a login that was verified meanwhile and  *)
(* carries its cookie.                                                     *)
EndedStaysEnded == [][\A t \in 1..issued : t \notin sessions => t \notin sessions']_vars

(* A connection whose session's time is over is closed, although nobody    *)
(* asks for that session again.                                            *)
SocketsEnd ==
    \A s \in Sockets :
        (socket[s] # None /\ expires[socket[s]] <= now) ~> socket[s] = None
=============================================================================
