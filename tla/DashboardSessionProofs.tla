----------------------- MODULE DashboardSessionProofs -----------------------
(***************************************************************************)
(* Proofs about DashboardSession for any number of login requests, of      *)
(* connections and of restarts, and for any limits.                        *)
(***************************************************************************)
EXTENDS DashboardSession, FiniteSetTheorems, TLAPS

(* TypeOK without its bounds, and what it says nothing of: an attempt is a *)
(* time and a number.                                                      *)
Typed ==
    /\ now \in 0..MaxTime
    /\ issued \in 0..MaxTokens
    /\ sessions \in SUBSET (1..issued)
    /\ expires \in [Tokens -> 0..MaxTime + Ttl]
    /\ socket \in [Sockets -> Tokens \cup {None}]
    /\ attempts \in SUBSET admitted
    /\ admitted \in SUBSET ((0..MaxTime) \X Nat)
    /\ IsFiniteSet(admitted)
    /\ verifying \in SUBSET Requests
    /\ carried \in [Requests -> Tokens \cup {None}]

(* Neither list grows without bound.                                       *)
Bounded ==
    /\ Cardinality(sessions) <= MaxSessions
    /\ Cardinality(attempts) <= MaxAttempts

InWindow(t) == {a \in admitted : a[1] > t - Window /\ a[1] <= t}

(* Attempts are of the past and numbered, the list lacks none of the       *)
(* present window, and no window had too many.                             *)
LimitInv ==
    /\ \A a \in admitted : a[1] <= now /\ a[2] < Cardinality(admitted)
    /\ \A a \in admitted : a[1] > now - Window => a \in attempts
    /\ AttemptsBounded

IInv == Typed /\ Bounded /\ SocketsBelong /\ LimitInv
-----------------------------------------------------------------------------
(* The limits are numbers.                                                 *)
LEMMA Limits ==
    /\ Ttl \in Nat \ {0} /\ Window \in Nat \ {0}
    /\ MaxAttempts \in Nat \ {0} /\ MaxSessions \in Nat \ {0}
    /\ MaxTokens \in Nat /\ MaxTime \in Nat /\ None \notin Nat
BY SessionAssumption

(* What the map and the list hold is finite.                               *)
LEMMA Finite ==
    ASSUME Typed
    PROVE  /\ IsFiniteSet(sessions) /\ Cardinality(sessions) \in Nat
           /\ IsFiniteSet(attempts) /\ Cardinality(attempts) \in Nat
           /\ IsFiniteSet(Recent) /\ Cardinality(Recent) \in Nat
           /\ Cardinality(admitted) \in Nat
<1>1. IsFiniteSet(1..issued)
  BY Limits, FS_Interval DEF Typed
<1>2. IsFiniteSet(sessions) /\ IsFiniteSet(attempts)
  BY <1>1, FS_Subset DEF Typed
<1>3. Recent \in SUBSET attempts
  BY DEF Recent
<1>4. IsFiniteSet(Recent)
  BY <1>2, <1>3, FS_Subset
<1>5. IsFiniteSet(admitted)
  BY DEF Typed
<1> QED BY <1>2, <1>4, <1>5, FS_CardinalityType

(* Removing sessions keeps the types and the bound, and a connection goes  *)
(* with its session.                                                       *)
LEMMA RemoveEffect ==
    ASSUME Typed, Bounded, NEW gone, Remove(gone)
    PROVE  /\ sessions' \in SUBSET sessions /\ Cardinality(sessions') <= MaxSessions
           /\ socket' \in [Sockets -> Tokens \cup {None}]
           /\ SocketsBelong => SocketsBelong'
<1>1. /\ sessions' = sessions \ gone
      /\ socket' = [s \in Sockets |-> IF socket[s] \in gone THEN None ELSE socket[s]]
  BY DEF Remove
<1>2. sessions' \in SUBSET sessions
  BY <1>1
<1>3. Cardinality(sessions') <= Cardinality(sessions) /\ Cardinality(sessions') \in Nat
  BY <1>2, Finite, FS_Subset, FS_CardinalityType
<1>4. Cardinality(sessions') <= MaxSessions
  BY <1>3, Finite, Limits DEF Bounded
<1>5. socket' \in [Sockets -> Tokens \cup {None}]
  BY <1>1 DEF Typed
<1>6. SocketsBelong => SocketsBelong'
  BY <1>1 DEF SocketsBelong
<1> QED BY <1>2, <1>4, <1>5, <1>6

(* Past the limit there is room for one more attempt, and it is a new one. *)
LEMMA LoginEffect ==
    ASSUME Typed, LimitInv, NEW r \in Requests, NEW t \in Cookies, Login(r, t)
    PROVE  LET a == <<now, Cardinality(admitted)>>
           IN  /\ attempts' = Recent \cup {a} /\ admitted' = admitted \cup {a}
               /\ a \in (0..MaxTime) \X Nat /\ a \notin admitted
               /\ IsFiniteSet(admitted')
               /\ Cardinality(admitted') = Cardinality(admitted) + 1
               /\ Cardinality(attempts') <= MaxAttempts
<1> DEFINE a == <<now, Cardinality(admitted)>>
<1>1. attempts' = Recent \cup {a} /\ admitted' = admitted \cup {a} /\ WithinLimit
  BY DEF Login
<1>2. a \in (0..MaxTime) \X Nat /\ a[2] = Cardinality(admitted)
  BY Finite DEF Typed
<1>3. a \notin admitted
  BY <1>2, Finite DEF LimitInv
<1>4. IsFiniteSet(admitted)
  BY DEF Typed
<1> HIDE DEF a
<1>5. /\ IsFiniteSet(admitted \cup {a})
      /\ Cardinality(admitted \cup {a}) = Cardinality(admitted) + 1
  BY <1>3, <1>4, FS_AddElement
<1>6. Cardinality(Recent \cup {a}) \in {Cardinality(Recent), Cardinality(Recent) + 1}
  BY Finite, FS_AddElement
<1>7. Cardinality(Recent) < MaxAttempts
  BY <1>1 DEF WithinLimit
<1>8. Cardinality(attempts') <= MaxAttempts
  BY <1>1, <1>6, <1>7, Finite, Limits
<1>9. /\ attempts' = Recent \cup {a} /\ admitted' = admitted \cup {a}
      /\ a \in (0..MaxTime) \X Nat /\ a \notin admitted
      /\ IsFiniteSet(admitted')
      /\ Cardinality(admitted') = Cardinality(admitted) + 1
      /\ Cardinality(attempts') <= MaxAttempts
  BY <1>1, <1>2, <1>3, <1>5, <1>8
<1> QED BY <1>9 DEF a

(* With room, the map takes one more session in place of those that go.    *)
LEMMA AcceptEffect ==
    ASSUME Typed, NEW r \in Requests, Accept(r)
    PROVE  /\ issued' = issued + 1 /\ issued' \in 0..MaxTokens
           /\ sessions' \in SUBSET (sessions \cup {issued + 1})
           /\ Cardinality(sessions') <= MaxSessions
           /\ expires' \in [Tokens -> 0..MaxTime + Ttl]
           /\ socket' \in [Sockets -> Tokens \cup {None}]
           /\ SocketsBelong => SocketsBelong'
<1> DEFINE gone == Expired \cup {carried[r]}
           left == sessions \ gone
<1>1. /\ sessions' = left \cup {issued + 1} /\ issued' = issued + 1
      /\ socket' = [s \in Sockets |-> IF socket[s] \in gone THEN None ELSE socket[s]]
      /\ expires' = [expires EXCEPT ![issued + 1] = now + Ttl]
      /\ Room /\ issued < MaxTokens
  BY DEF Accept, NewToken
<1>2. left \in SUBSET (sessions \ Expired) /\ sessions \ Expired \in SUBSET sessions
  OBVIOUS
<1>3. IsFiniteSet(sessions \ Expired) /\ Cardinality(sessions \ Expired) \in Nat
  BY <1>2, Finite, FS_Subset, FS_CardinalityType
<1>4. /\ IsFiniteSet(left) /\ Cardinality(left) \in Nat
      /\ Cardinality(left) <= Cardinality(sessions \ Expired)
  BY <1>2, <1>3, FS_Subset, FS_CardinalityType
<1>5. Cardinality(left \cup {issued + 1}) \in {Cardinality(left), Cardinality(left) + 1}
  BY <1>4, FS_AddElement
<1>6. Cardinality(sessions') <= MaxSessions
  BY <1>1, <1>3, <1>4, <1>5, Limits DEF Room
<1>7. issued' \in 0..MaxTokens /\ issued + 1 \in Tokens
  BY <1>1, Limits DEF Typed, Tokens
<1>8. now + Ttl \in 0..MaxTime + Ttl
  BY Limits DEF Typed
<1>9. expires' \in [Tokens -> 0..MaxTime + Ttl]
  BY <1>1, <1>7, <1>8 DEF Typed
<1>10. socket' \in [Sockets -> Tokens \cup {None}]
  BY <1>1 DEF Typed
<1>11. SocketsBelong => SocketsBelong'
  BY <1>1 DEF SocketsBelong
<1> QED BY <1>1, <1>2, <1>6, <1>7, <1>9, <1>10, <1>11
-----------------------------------------------------------------------------
(* A cookie is a token or none.                                            *)
LEMMA CookieType ==
    ASSUME Typed
    PROVE  Cookies \subseteq Tokens \cup {None}
BY Limits DEF Typed, Cookies, Tokens

(* Nothing is in the map or in the list at first.                          *)
LEMMA TypedInit == Init => Typed /\ Bounded /\ SocketsBelong
<1> SUFFICES ASSUME Init PROVE Typed /\ Bounded /\ SocketsBelong
  OBVIOUS
<1>1. IsFiniteSet({}) /\ Cardinality({}) = 0
  BY FS_EmptySet
<1> QED BY <1>1, Limits DEF Init, Typed, Bounded, SocketsBelong

(* The types, the two bounds and the sessions of the connections are kept  *)
(* by every step.                                                          *)
LEMMA TypedStep ==
    Typed /\ Bounded /\ SocketsBelong /\ LimitInv /\ [Next]_vars
        => Typed' /\ Bounded' /\ SocketsBelong'
<1> DEFINE Kept == Typed' /\ Bounded' /\ SocketsBelong'
<1> SUFFICES ASSUME Typed, Bounded, SocketsBelong, LimitInv, [Next]_vars PROVE Kept
  OBVIOUS
<1>1. ASSUME NEW r \in Requests, NEW t \in Cookies, Login(r, t) PROVE Kept
  <2> DEFINE a == <<now, Cardinality(admitted)>>
  <2>1. /\ attempts' = Recent \cup {a} /\ admitted' = admitted \cup {a}
        /\ a \in (0..MaxTime) \X Nat
        /\ IsFiniteSet(admitted') /\ Cardinality(attempts') <= MaxAttempts
    BY <1>1, LoginEffect
  <2>2. /\ verifying' = verifying \cup {r} /\ carried' = [carried EXCEPT ![r] = t]
        /\ UNCHANGED <<now, sessions, expires, socket, issued>>
    BY <1>1 DEF Login
  <2>3. t \in Tokens \cup {None}
    BY CookieType
  <2> HIDE DEF a
  <2>4. attempts' \in SUBSET admitted' /\ admitted' \in SUBSET ((0..MaxTime) \X Nat)
    BY <2>1 DEF Typed, Recent
  <2>5. carried' \in [Requests -> Tokens \cup {None}]
    BY <2>2, <2>3 DEF Typed
  <2> QED BY <2>1, <2>2, <2>4, <2>5 DEF Typed, Bounded, SocketsBelong
<1>2. ASSUME NEW r \in Requests, Reject(r) PROVE Kept
  BY <1>2 DEF Reject, Finish, Typed, Bounded, SocketsBelong
<1>3. ASSUME NEW r \in Requests, Accept(r) PROVE Kept
  <2>1. /\ issued' = issued + 1 /\ issued' \in 0..MaxTokens
        /\ sessions' \in SUBSET (sessions \cup {issued + 1})
        /\ Cardinality(sessions') <= MaxSessions
        /\ expires' \in [Tokens -> 0..MaxTime + Ttl]
        /\ socket' \in [Sockets -> Tokens \cup {None}]
        /\ SocketsBelong'
    BY <1>3, AcceptEffect
  <2>2. Finish(r) /\ UNCHANGED <<now, attempts, admitted>>
    BY <1>3 DEF Accept
  <2>3. sessions' \in SUBSET (1..issued')
    BY <2>1, Limits DEF Typed
  <2> QED BY <2>1, <2>2, <2>3 DEF Finish, Typed, Bounded
<1>4. ASSUME NEW r \in Requests, Full(r) PROVE Kept
  <2>1. /\ Remove(Expired) /\ Finish(r)
        /\ UNCHANGED <<now, expires, attempts, issued, admitted>>
    BY <1>4 DEF Full
  <2> QED BY <2>1, RemoveEffect DEF Finish, Typed, Bounded
<1>5. ASSUME NEW t \in Cookies, Logout(t) PROVE Kept
  <2>1. /\ Remove({t} \ {None})
        /\ UNCHANGED <<now, expires, attempts, verifying, carried, issued, admitted>>
    BY <1>5 DEF Logout
  <2> QED BY <2>1, RemoveEffect DEF Typed, Bounded
<1>6. ASSUME NEW t \in Cookies, Deny(t) PROVE Kept
  <2>1. /\ Remove({t} \cap Expired)
        /\ UNCHANGED <<now, expires, attempts, verifying, carried, issued, admitted>>
    BY <1>6 DEF Deny
  <2> QED BY <2>1, RemoveEffect DEF Typed, Bounded
<1>7. ASSUME NEW s \in Sockets, NEW t \in Cookies, Connect(s, t) PROVE Kept
  <2>1. /\ t \in sessions /\ socket' = [socket EXCEPT ![s] = t]
        /\ UNCHANGED <<now, sessions, expires, attempts, verifying, carried, issued, admitted>>
    BY <1>7 DEF Connect, Live
  <2>2. t \in Tokens \cup {None}
    BY CookieType
  <2> QED BY <2>1, <2>2 DEF Typed, Bounded, SocketsBelong
<1>8. ASSUME NEW s \in Sockets, Timer(s) \/ Close(s) PROVE Kept
  BY <1>8 DEF Timer, Close, Drop, Typed, Bounded, SocketsBelong
<1>9. ASSUME Throttle PROVE Kept
  <2>1. Recent \in SUBSET attempts
    BY DEF Recent
  <2>2. Cardinality(Recent) <= Cardinality(attempts)
    BY <2>1, Finite, FS_Subset
  <2>3. Cardinality(Recent) <= MaxAttempts
    BY <2>2, Finite, Limits DEF Bounded
  <2>4. /\ attempts' = Recent
        /\ UNCHANGED <<now, sessions, expires, socket, verifying, carried, issued, admitted>>
    BY <1>9 DEF Throttle
  <2> QED BY <2>1, <2>3, <2>4 DEF Typed, Bounded, SocketsBelong
<1>10. ASSUME Tick PROVE Kept
  BY <1>10, Limits DEF Tick, Typed, Bounded, SocketsBelong
<1>11. ASSUME Restart PROVE Kept
  <2>1. IsFiniteSet({}) /\ Cardinality({}) = 0
    BY FS_EmptySet
  <2> QED BY <1>11, <2>1, Limits DEF Restart, Typed, Bounded, SocketsBelong
<1>12. ASSUME UNCHANGED vars PROVE Kept
  BY <1>12 DEF vars, Typed, Bounded, SocketsBelong
<1> HIDE DEF Kept
<1> QED BY <1>1, <1>2, <1>3, <1>4, <1>5, <1>6, <1>7, <1>8, <1>9, <1>10, <1>11, <1>12
        DEF Next
-----------------------------------------------------------------------------
(* No attempt has been made at first.                                      *)
LEMMA LimitInit == Init => LimitInv
<1> SUFFICES ASSUME Init PROVE LimitInv
  OBVIOUS
<1>1. \A t : InWindow(t) = {}
  BY DEF Init, InWindow
<1>2. Cardinality({}) = 0
  BY FS_EmptySet
<1>3. \A t : Cardinality(InWindow(t)) <= MaxAttempts
  BY <1>1, <1>2, Limits
<1> QED BY <1>3 DEF Init, LimitInv, AttemptsBounded, InWindow

(* A window that lacks the new attempt stays as it is; the others end now  *)
(* or later, so that all they held was counted.                            *)
LEMMA LimitLogin ==
    ASSUME Typed, LimitInv, NEW r \in Requests, NEW u \in Cookies, Login(r, u)
    PROVE  LimitInv'
<1>1. PICK a \in (0..MaxTime) \X Nat :
        /\ a = <<now, Cardinality(admitted)>>
        /\ attempts' = Recent \cup {a} /\ admitted' = admitted \cup {a}
        /\ Cardinality(admitted') = Cardinality(admitted) + 1
  BY LoginEffect
<1>2. a[1] = now /\ a[2] = Cardinality(admitted) /\ now' = now
  BY <1>1 DEF Login
<1>3. now \in Nat /\ \A b \in admitted : b[1] \in Nat /\ b[2] \in Nat
  BY DEF Typed
<1>4. Cardinality(Recent) < MaxAttempts
  BY DEF Login, WithinLimit
<1>5. \A b \in admitted' : b[1] <= now' /\ b[2] < Cardinality(admitted')
  BY <1>1, <1>2, <1>3, Finite DEF LimitInv
<1>6. \A b \in admitted' : b[1] > now' - Window => b \in attempts'
  BY <1>1, <1>2 DEF LimitInv, Recent
<1>7. ASSUME NEW t \in 0..MaxTime
      PROVE  Cardinality({b \in admitted' : b[1] > t - Window /\ b[1] <= t}) <= MaxAttempts
  <2> DEFINE had == {b \in admitted : b[1] > t - Window /\ b[1] <= t}
             has == {b \in admitted' : b[1] > t - Window /\ b[1] <= t}
  <2>1. Cardinality(had) <= MaxAttempts
    BY DEF LimitInv, AttemptsBounded
  <2>2. CASE t < now
    <3>1. has = had
      BY <1>1, <1>2, <1>3, <2>2
    <3> QED BY <2>1, <3>1, Zenon
  <2>3. CASE t >= now
    <3>1. had \in SUBSET Recent
      BY <1>3, <2>3, Limits DEF LimitInv, Recent
    <3>2. has \in SUBSET (Recent \cup {a})
      BY <1>1, <3>1
    <3>3. Cardinality(Recent \cup {a}) \in {Cardinality(Recent), Cardinality(Recent) + 1}
      BY Finite, FS_AddElement
    <3>4. IsFiniteSet(Recent \cup {a})
      BY Finite, FS_AddElement
    <3>5. Cardinality(has) <= Cardinality(Recent \cup {a}) /\ IsFiniteSet(has)
      BY <3>2, <3>4, FS_Subset
    <3>6. Cardinality(has) \in Nat
      BY <3>5, FS_CardinalityType
    <3> HIDE DEF has
    <3>7. Cardinality(has) <= MaxAttempts
      BY <1>4, <3>3, <3>5, <3>6, Finite, Limits
    <3> QED BY <3>7 DEF has
  <2> QED BY <1>3, <2>2, <2>3
<1> QED BY <1>5, <1>6, <1>7 DEF LimitInv, AttemptsBounded

(* Every step keeps the limit.                                             *)
LEMMA LimitStep == Typed /\ LimitInv /\ [Next]_vars => LimitInv'
<1> SUFFICES ASSUME Typed, LimitInv, [Next]_vars PROVE LimitInv'
  OBVIOUS
<1>1. ASSUME NEW r \in Requests, NEW t \in Cookies, Login(r, t) PROVE LimitInv'
  BY <1>1, LimitLogin
<1>2. ASSUME Throttle PROVE LimitInv'
  <2>1. attempts' = Recent /\ UNCHANGED <<now, admitted>>
    BY <1>2 DEF Throttle
  <2> QED BY <2>1 DEF LimitInv, AttemptsBounded, Recent
<1>3. ASSUME Tick PROVE LimitInv'
  <2>1. now' = now + 1 /\ UNCHANGED <<attempts, admitted>>
    BY <1>3 DEF Tick
  <2>2. now \in Nat /\ \A b \in admitted : b[1] \in Nat
    BY DEF Typed
  <2> QED BY <2>1, <2>2, Limits DEF LimitInv, AttemptsBounded
<1>4. ASSUME Restart PROVE LimitInv'
  <2>1. admitted' = {}
    BY <1>4 DEF Restart
  <2>2. \A t : InWindow(t)' = {}
    BY <2>1 DEF InWindow
  <2>3. Cardinality({}) = 0
    BY FS_EmptySet
  <2>4. \A t : Cardinality(InWindow(t)') <= MaxAttempts
    BY <2>2, <2>3, Limits
  <2> QED BY <2>1, <2>4 DEF LimitInv, AttemptsBounded, InWindow
<1>5. ASSUME UNCHANGED <<now, attempts, admitted>> PROVE LimitInv'
  BY <1>5 DEF LimitInv, AttemptsBounded
<1>6. CASE Next
  <2>1. \A r \in Requests : Reject(r) \/ Accept(r) \/ Full(r) =>
          UNCHANGED <<now, attempts, admitted>>
    BY DEF Reject, Accept, Full
  <2>2. \A t \in Cookies : Logout(t) \/ Deny(t) => UNCHANGED <<now, attempts, admitted>>
    BY DEF Logout, Deny
  <2>3. \A s \in Sockets, t \in Cookies : Connect(s, t) => UNCHANGED <<now, attempts, admitted>>
    BY DEF Connect
  <2>4. \A s \in Sockets : Timer(s) \/ Close(s) => UNCHANGED <<now, attempts, admitted>>
    BY DEF Timer, Close, Drop
  <2> QED BY <1>1, <1>2, <1>3, <1>4, <1>5, <1>6, <2>1, <2>2, <2>3, <2>4 DEF Next
<1> QED BY <1>5, <1>6 DEF vars
-----------------------------------------------------------------------------
(* The inductive invariant holds in every reachable state.                 *)
THEOREM Inductive == Spec => []IInv
<1>1. Init => IInv
  BY TypedInit, LimitInit DEF IInv
<1>2. IInv /\ [Next]_vars => IInv'
  BY TypedStep, LimitStep DEF IInv
<1> QED BY <1>1, <1>2, PTL DEF Spec

(* The map and the list are well-typed and bounded, and every connection   *)
(* has a session in the map: it outlives neither a logout nor a            *)
(* replacement of its session.                                             *)
THEOREM Sessions == Spec => []SessionInv
<1>1. IInv => SessionInv
  BY DEF IInv, Typed, Bounded, SessionInv, TypeOK
<1> QED BY <1>1, Inductive, PTL

(* In every window no more attempts pass the limit than it allows, however *)
(* the calls of the handler and the restarts fall.                         *)
THEOREM Attempts == Spec => []AttemptsBounded
<1>1. IInv => AttemptsBounded
  BY DEF IInv, LimitInv
<1> QED BY <1>1, Inductive, PTL

(* A session that ended never comes back: the only token a step adds to    *)
(* the map is one that was not issued before.                              *)
THEOREM Ended == Spec => EndedStaysEnded
<1>1. IInv /\ [Next]_vars
        => [\A t \in 1..issued : t \notin sessions => t \notin sessions']_vars
  <2> SUFFICES ASSUME IInv, Next
               PROVE  \A t \in 1..issued : t \notin sessions => t \notin sessions'
    OBVIOUS
  <2> USE DEF IInv
  <2>1. ASSUME NEW r \in Requests, Accept(r)
        PROVE  sessions' \in SUBSET (sessions \cup {issued + 1})
    BY <2>1, AcceptEffect
  <2>2. ASSUME NEW gone, Remove(gone) PROVE sessions' \in SUBSET sessions
    BY <2>2 DEF Remove
  <2>3. ASSUME NEW r \in Requests, Full(r) PROVE sessions' \in SUBSET sessions
    BY <2>2, <2>3 DEF Full
  <2>4. ASSUME NEW t \in Cookies, Logout(t) \/ Deny(t) PROVE sessions' \in SUBSET sessions
    BY <2>2, <2>4 DEF Logout, Deny
  <2>5. ASSUME Restart PROVE sessions' \in SUBSET sessions
    BY <2>5 DEF Restart
  <2>6. sessions' \in SUBSET (sessions \cup {issued + 1})
    BY <2>1, <2>3, <2>4, <2>5
       DEF Next, Login, Reject, Connect, Timer, Close, Drop, Throttle, Tick
  <2> QED BY <2>6, Limits DEF Typed
<1> QED BY <1>1, Inductive, PTL DEF Spec, EndedStaysEnded
=============================================================================
