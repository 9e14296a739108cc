---------------------------- MODULE GatewayProofs ----------------------------
(***************************************************************************)
(* Proofs about the Gateway, for every set of users, connections, tokens,  *)
(* backend threads and messages: the session registry of GatewaySessions,  *)
(* that it implements SessionRegistry, and the private messages that are   *)
(* handled on top of it.                                                   *)
(***************************************************************************)
EXTENDS PrivateMessages, TLAPS

(***************************************************************************)
(* 1. The session registry.  IndexConsistent is not inductive: between     *)
(* the two steps of a login the user must have no session, which holds     *)
(* because the lock is held; and EndsOnlyByOwner needs to know that a      *)
(* thread only ever remembers tokens generated for its own connection.     *)
(***************************************************************************)

LockInv == \A c \in Conns : pc[c] = "insert" <=> lock = c

LoginInv ==
    \A c \in Conns : pc[c] \in {"evict", "insert", "reply"} => msg[c].type = "LOGIN"

EvictedInv ==
    \A c \in Conns : pc[c] = "insert" => user_to_token[msg[c].user] = NoToken

SocketInv == \A t \in Active : active_sessions[t].conn = issuedTo[t]

OwnTokenInv ==
    \A c \in Conns :
        /\ current_token[c] # NoToken => issuedTo[current_token[c]] = c
        /\ pc[c] = "reply" => msg[c].token \in Tokens /\ issuedTo[msg[c].token] = c

IInv == TypeOK /\ IndexConsistent /\ LockInv /\ LoginInv /\ EvictedInv
               /\ SocketInv /\ OwnTokenInv

-----------------------------------------------------------------------------
\* A request keeps its type, and a login its user name, when a token is put
\* into it.
LEMMA RequestFacts ==
    ASSUME NEW m \in Request
    PROVE  /\ m.token \in Tokens \cup {NoToken}
           /\ m.type \in {"LOGIN", "LOGOUT", "PING", "QUERY", "PM"}
           /\ m.type = "LOGIN" => m.user \in Users
           /\ \A t \in Tokens : [m EXCEPT !.token = t] \in Request
BY DEF Request

\* What _cleanup_session does: it ends the session of t and no other, and the
\* index keeps matching the sessions.
CleanupEffect(t) ==
    /\ active_sessions' \in [Tokens -> Session \cup {NoSession}]
    /\ user_to_token' \in [Users -> Tokens \cup {NoToken}]
    /\ presence' \in [Users -> Places \cup {NoRow}]
    /\ IndexConsistent'
    /\ \A s \in Tokens : active_sessions'[s] =
                         IF s = t THEN NoSession ELSE active_sessions[s]
    /\ Active' = Active \ {t}
    /\ \A u \in Users : user_to_token'[u] =
                        IF user_to_token[u] = t THEN NoToken ELSE user_to_token[u]
    /\ \A u \in Users : presence'[u] =
                        IF t \in Active /\ user_to_token[u] = t THEN "offline" ELSE presence[u]

\* Cleaning up a token has the effect spelt out above, whether or not the token has a session.
LEMMA CleanupFacts ==
    ASSUME TypeOK, IndexConsistent, NEW t, Cleanup(t)
    PROVE  CleanupEffect(t)
<1> USE NullsAssumption
<1>1. CASE t \notin Active
  <2>1. UNCHANGED registry
    BY <1>1 DEF Cleanup
  <2>2. \A s \in Tokens : s = t => active_sessions[s] = NoSession
    BY <1>1 DEF Active
  <2>3. \A u \in Users : user_to_token[u] = t => t = NoToken
    BY <1>1 DEF IndexConsistent
  <2> QED
    BY <1>1, <2>1, <2>2, <2>3
       DEF CleanupEffect, TypeOK, IndexConsistent, Active, registry
<1>2. CASE t \in Active
  <2> DEFINE u == active_sessions[t].user
  <2>1. t \in Tokens /\ active_sessions[t] \in Session /\ u \in Users
    BY <1>2 DEF Active, TypeOK, Session
  <2>2. user_to_token[u] = t
    BY <1>2 DEF IndexConsistent
  <2>3. /\ active_sessions' = [active_sessions EXCEPT ![t] = NoSession]
        /\ user_to_token' = [user_to_token EXCEPT ![u] = NoToken]
        /\ presence' = [presence EXCEPT ![u] = "offline"]
    BY <1>2, <2>2 DEF Cleanup
  <2>4. \A s \in Tokens : active_sessions'[s] =
                          IF s = t THEN NoSession ELSE active_sessions[s]
    BY <2>1, <2>3 DEF TypeOK
  <2>5. Active' = Active \ {t}
    BY <2>4 DEF Active
  <2>6. \A v \in Users : user_to_token[v] = t => v = u
    BY <2>1 DEF IndexConsistent
  <2>7. \A v \in Users : user_to_token'[v] =
                         IF user_to_token[v] = t THEN NoToken ELSE user_to_token[v]
    BY <2>1, <2>2, <2>3, <2>6 DEF TypeOK
  <2>8. IndexConsistent'
    <3>1. ASSUME NEW v \in Users, user_to_token'[v] # NoToken
          PROVE  /\ user_to_token'[v] \in Active'
                 /\ active_sessions'[user_to_token'[v]].user = v
      BY <2>4, <2>5, <2>7, <3>1 DEF IndexConsistent, Active
    <3>2. ASSUME NEW s \in Active'
          PROVE  user_to_token'[active_sessions'[s].user] = s
      <4>1. s \in Active /\ s # t /\ active_sessions'[s] = active_sessions[s]
        BY <2>4, <2>5, <3>2 DEF Active
      <4>2. user_to_token[active_sessions[s].user] = s
        BY <4>1 DEF IndexConsistent
      <4>3. active_sessions[s].user \in Users
        BY <4>1 DEF TypeOK, Active, Session
      <4> QED
        BY <2>7, <4>1, <4>2, <4>3
    <3> QED
      BY <3>1, <3>2 DEF IndexConsistent
  <2>9. "offline" \in Places
    BY DEF Places
  <2>10. \A v \in Users : presence'[v] =
                          IF user_to_token[v] = t THEN "offline" ELSE presence[v]
    BY <2>1, <2>2, <2>3, <2>6 DEF TypeOK
  <2> QED
    BY <1>2, <2>1, <2>3, <2>4, <2>5, <2>7, <2>8, <2>9, <2>10 DEF CleanupEffect, TypeOK
<1> QED
  BY <1>1, <1>2

\* Changing the place or the flags of a session leaves the index and the
\* socket of every session as they are.
LEMMA SessionUpdateFacts ==
    ASSUME TypeOK, IndexConsistent, SocketInv, NEW t \in Active, NEW new \in Session,
           new.user = active_sessions[t].user, new.conn = active_sessions[t].conn,
           active_sessions' = [active_sessions EXCEPT ![t] = new],
           UNCHANGED <<user_to_token, issuedTo>>
    PROVE  /\ active_sessions' \in [Tokens -> Session \cup {NoSession}]
           /\ IndexConsistent'
           /\ SocketInv'
<1>1. t \in Tokens
  BY DEF Active
<1>2. \A s \in Tokens : active_sessions'[s] = IF s = t THEN new ELSE active_sessions[s]
  BY <1>1 DEF TypeOK
<1>3. Active' = Active
  BY <1>2, NullsAssumption DEF Active
<1>4. IndexConsistent'
  BY <1>1, <1>2, <1>3 DEF IndexConsistent, Active
<1>5. SocketInv'
  BY <1>1, <1>2, <1>3 DEF SocketInv, Active
<1> QED
  BY <1>1, <1>4, <1>5 DEF TypeOK

-----------------------------------------------------------------------------
\* The initial state satisfies the invariant.
LEMMA InitIInv == Init => IInv
BY NullsAssumption DEF Init, IInv, TypeOK, IndexConsistent, LockInv, LoginInv,
                       EvictedInv, SocketInv, OwnTokenInv, Active

\* Every step of the Gateway preserves the invariant.
LEMMA NextIInv == IInv /\ [Next]_vars => IInv'
<1> SUFFICES ASSUME IInv, [Next]_vars PROVE IInv'
  OBVIOUS
<1> USE NullsAssumption DEF IInv
<1>1. ASSUME NEW c \in Conns, TouchGone(c) PROVE IInv'
  BY <1>1, RequestFacts DEF TouchGone, registry, Goto, Finish,
        TypeOK, IndexConsistent, LockInv, LoginInv, EvictedInv, SocketInv,
        OwnTokenInv, Active, LockFree
<1>2. ASSUME NEW c \in Conns, DispatchLogin(c) PROVE IInv'
  BY <1>2, RequestFacts DEF DispatchLogin, registry, Goto, Finish,
        TypeOK, IndexConsistent, LockInv, LoginInv, EvictedInv, SocketInv,
        OwnTokenInv, Active, LockFree
<1>3. ASSUME NEW c \in Conns, DispatchPing(c) PROVE IInv'
  BY <1>3, RequestFacts DEF DispatchPing, registry, Goto, Finish,
        TypeOK, IndexConsistent, LockInv, LoginInv, EvictedInv, SocketInv,
        OwnTokenInv, Active, LockFree
<1>4. ASSUME NEW c \in Conns, DispatchLogout(c) PROVE IInv'
  BY <1>4, RequestFacts DEF DispatchLogout, registry, Goto, Finish,
        TypeOK, IndexConsistent, LockInv, LoginInv, EvictedInv, SocketInv,
        OwnTokenInv, Active, LockFree
<1>5. ASSUME NEW c \in Conns, DispatchOther(c) PROVE IInv'
  BY <1>5, RequestFacts DEF DispatchOther, registry, Goto, Finish,
        TypeOK, IndexConsistent, LockInv, LoginInv, EvictedInv, SocketInv,
        OwnTokenInv, Active, LockFree
<1>6. ASSUME NEW c \in Conns, LoginReply(c) PROVE IInv'
  BY <1>6, RequestFacts DEF LoginReply, registry, Goto, Finish,
        TypeOK, IndexConsistent, LockInv, LoginInv, EvictedInv, SocketInv,
        OwnTokenInv, Active, LockFree
<1>7. ASSUME NEW c \in Conns, ServeGone(c) PROVE IInv'
  BY <1>7, RequestFacts DEF ServeGone, registry, Goto, Finish,
        TypeOK, IndexConsistent, LockInv, LoginInv, EvictedInv, SocketInv,
        OwnTokenInv, Active, LockFree
<1>8. ASSUME NEW c \in Conns, ServeQuery(c) PROVE IInv'
  BY <1>8, RequestFacts DEF ServeQuery, registry, Goto, Finish,
        TypeOK, IndexConsistent, LockInv, LoginInv, EvictedInv, SocketInv,
        OwnTokenInv, Active, LockFree
<1>9. ASSUME NEW c \in Conns, Disconnect(c) PROVE IInv'
  BY <1>9, RequestFacts DEF Disconnect, registry, Goto, Finish,
        TypeOK, IndexConsistent, LockInv, LoginInv, EvictedInv, SocketInv,
        OwnTokenInv, Active, LockFree
<1>10. ASSUME NEW c \in Conns, NEW m \in Request, Receive(c, m) PROVE IInv'
  BY <1>10, RequestFacts DEF Receive, registry, TypeOK, IndexConsistent, LockInv, LoginInv,
        EvictedInv, SocketInv, OwnTokenInv, Active
<1>11. ASSUME NEW c \in Conns, TouchExpired(c) PROVE IInv'
  <2> DEFINE t == msg[c].token
  <2>1. Cleanup(t)
    BY <1>11 DEF TouchExpired
  <2>2. CleanupEffect(t)
    BY <2>1, CleanupFacts
  <2> HIDE DEF t
  <2>3. TypeOK'
    BY <1>11, <2>2, RequestFacts DEF TouchExpired, CleanupEffect, Goto, Finish, TypeOK
  <2>4. LockInv' /\ LoginInv'
    BY <1>11, <2>2, RequestFacts DEF TouchExpired, LockInv, LoginInv, Goto, Finish, TypeOK, LockFree
  <2>5. EvictedInv'
    BY <1>11, <2>2, RequestFacts
       DEF TouchExpired, CleanupEffect, EvictedInv, LoginInv, LockInv, Goto, Finish, TypeOK, LockFree
  <2>6. SocketInv'
    BY <1>11, <2>2 DEF TouchExpired, CleanupEffect, SocketInv, Active, TypeOK
  <2>7. OwnTokenInv'
    BY <1>11, <2>2, RequestFacts DEF TouchExpired, OwnTokenInv, Goto, Finish, TypeOK
  <2> QED
    BY <2>2, <2>3, <2>4, <2>5, <2>6, <2>7 DEF CleanupEffect
<1>12. ASSUME NEW c \in Conns, LoginEvict(c) PROVE IInv'
  <2> DEFINE t == user_to_token[msg[c].user]
  <2>1. Cleanup(t)
    BY <1>12 DEF LoginEvict
  <2>2. CleanupEffect(t)
    BY <2>1, CleanupFacts
  <2>3. user_to_token'[msg[c].user] = NoToken
    <3>1. msg[c].user \in Users
      BY <1>12, RequestFacts DEF LoginEvict, LoginInv, TypeOK
    <3> QED
      BY <2>2, <3>1 DEF CleanupEffect
  <2> HIDE DEF t
  <2>4. TypeOK'
    BY <1>12, <2>2, RequestFacts DEF LoginEvict, CleanupEffect, Goto, TypeOK
  <2>5. LockInv' /\ LoginInv'
    BY <1>12, <2>2, RequestFacts DEF LoginEvict, LockInv, LoginInv, Goto, TypeOK, LockFree
  <2>6. EvictedInv'
    BY <1>12, <2>3 DEF LoginEvict, EvictedInv, LockInv, Goto, TypeOK, LockFree
  <2>7. SocketInv'
    BY <1>12, <2>2 DEF LoginEvict, CleanupEffect, SocketInv, Active, TypeOK
  <2>8. OwnTokenInv'
    BY <1>12, <2>2, RequestFacts DEF LoginEvict, OwnTokenInv, Goto, TypeOK
  <2> QED
    BY <2>2, <2>4, <2>5, <2>6, <2>7, <2>8 DEF CleanupEffect
<1>13. ASSUME NEW c \in Conns, Logout(c) PROVE IInv'
  <2> DEFINE t == msg[c].token
  <2>1. Cleanup(t)
    BY <1>13 DEF Logout
  <2>2. CleanupEffect(t)
    BY <2>1, CleanupFacts
  <2> HIDE DEF t
  <2>3. TypeOK'
    BY <1>13, <2>2, RequestFacts DEF Logout, CleanupEffect, Goto, Finish, TypeOK
  <2>4. LockInv' /\ LoginInv'
    BY <1>13, <2>2, RequestFacts DEF Logout, LockInv, LoginInv, Goto, Finish, TypeOK, LockFree
  <2>5. EvictedInv'
    BY <1>13, <2>2, RequestFacts
       DEF Logout, CleanupEffect, EvictedInv, LoginInv, LockInv, Goto, Finish, TypeOK, LockFree
  <2>6. SocketInv'
    BY <1>13, <2>2 DEF Logout, CleanupEffect, SocketInv, Active, TypeOK
  <2>7. OwnTokenInv'
    BY <1>13, <2>2, RequestFacts DEF Logout, OwnTokenInv, Goto, Finish, TypeOK
  <2> QED
    BY <2>2, <2>3, <2>4, <2>5, <2>6, <2>7 DEF CleanupEffect
<1>14. ASSUME NEW c \in Conns, Final(c) PROVE IInv'
  <2> DEFINE t == current_token[c]
  <2>1. Cleanup(t)
    BY <1>14 DEF Final
  <2>2. CleanupEffect(t)
    BY <2>1, CleanupFacts
  <2> HIDE DEF t
  <2>3. TypeOK'
    BY <1>14, <2>2, RequestFacts DEF Final, CleanupEffect, Goto, Finish, TypeOK
  <2>4. LockInv' /\ LoginInv'
    BY <1>14, <2>2, RequestFacts DEF Final, LockInv, LoginInv, Goto, Finish, TypeOK, LockFree
  <2>5. EvictedInv'
    BY <1>14, <2>2, RequestFacts
       DEF Final, CleanupEffect, EvictedInv, LoginInv, LockInv, Goto, Finish, TypeOK, LockFree
  <2>6. SocketInv'
    BY <1>14, <2>2 DEF Final, CleanupEffect, SocketInv, Active, TypeOK
  <2>7. OwnTokenInv'
    BY <1>14, <2>2, RequestFacts DEF Final, OwnTokenInv, Goto, Finish, TypeOK
  <2> QED
    BY <2>2, <2>3, <2>4, <2>5, <2>6, <2>7 DEF CleanupEffect
<1>15. ASSUME NEW c \in Conns, TouchRefresh(c) PROVE IInv'
  <2> DEFINE t == msg[c].token
             new == [active_sessions[t] EXCEPT !.stale = FALSE]
  <2>1. /\ t \in Active /\ t \in Tokens
        /\ active_sessions' = [active_sessions EXCEPT ![t] = new]
        /\ UNCHANGED <<user_to_token, issuedTo>>
    BY <1>15 DEF TouchRefresh, Active
  <2>2. active_sessions[t] \in Session
    BY <2>1 DEF Active, TypeOK
  <2>3. /\ new \in Session
        /\ new.user = active_sessions[t].user
        /\ new.conn = active_sessions[t].conn
    BY <2>2 DEF Session
  <2> HIDE DEF new
  <2>4. /\ active_sessions' \in [Tokens -> Session \cup {NoSession}]
        /\ IndexConsistent' /\ SocketInv'
    BY <2>1, <2>3, SessionUpdateFacts
  <2>5. active_sessions[t].user \in Users /\ active_sessions[t].place \in Places
    BY <2>2 DEF Session
  <2>6. TypeOK'
    BY <1>15, <2>4, <2>5, RequestFacts DEF TouchRefresh, Goto, TypeOK
  <2>7. LockInv' /\ LoginInv' /\ EvictedInv' /\ OwnTokenInv'
    BY <1>15, RequestFacts
       DEF TouchRefresh, Goto, LockInv, LoginInv, EvictedInv, OwnTokenInv, TypeOK
  <2> QED
    BY <2>4, <2>6, <2>7
<1>16. ASSUME NEW c \in Conns, NEW t \in Tokens, LoginInsert(c, t) PROVE IInv'
  <2> DEFINE u == msg[c].user
             new == [user |-> u, conn |-> c, place |-> "online",
                     stale |-> FALSE, expired |-> FALSE]
  <2>1. /\ pc[c] = "insert" /\ lock = c /\ issuedTo[t] = NoConn
        /\ active_sessions' = [active_sessions EXCEPT ![t] = new]
        /\ user_to_token' = [user_to_token EXCEPT ![u] = t]
        /\ presence' = [presence EXCEPT ![u] = "online"]
        /\ issuedTo' = [issuedTo EXCEPT ![t] = c]
    BY <1>16 DEF LoginInsert
  <2>2. msg[c] \in Request /\ u \in Users
    BY <2>1, RequestFacts DEF TypeOK, LoginInv
  <2>3. new \in Session /\ "online" \in Places
    BY <2>2 DEF Session, Places
  <2>4. new.user = u /\ new.conn = c
    OBVIOUS
  <2> HIDE DEF new, u
  <2>5. t \notin Active
    BY <2>1 DEF SocketInv, Active, TypeOK, Session
  <2>6. user_to_token[u] = NoToken
    BY <2>1 DEF EvictedInv, u
  <2>7. /\ \A s \in Tokens : active_sessions'[s] = IF s = t THEN new ELSE active_sessions[s]
        /\ \A v \in Users : user_to_token'[v] = IF v = u THEN t ELSE user_to_token[v]
        /\ \A s \in Tokens : issuedTo'[s] = IF s = t THEN c ELSE issuedTo[s]
    BY <2>1, <2>2 DEF TypeOK
  <2>8. Active' = Active \cup {t}
    BY <2>3, <2>7 DEF Active
  <2>9. [msg[c] EXCEPT !.token = t] \in Request
    BY <2>2, RequestFacts
  <2>10. TypeOK'
    <3>1. msg' = [msg EXCEPT ![c] = [msg[c] EXCEPT !.token = t]]
      BY <1>16 DEF LoginInsert
    <3>2. /\ msg' \in [Conns -> Request \cup {NoMsg}]
          /\ \A d \in Conns : d # c => msg'[d] = msg[d]
          /\ msg'[c] \in Request
      <4> DEFINE m == [msg[c] EXCEPT !.token = t]
      <4> HIDE DEF m
      <4>1. m \in Request /\ msg' = [msg EXCEPT ![c] = m]
        BY <2>9, <3>1 DEF m
      <4> QED
        BY <4>1 DEF TypeOK
    <3>3. /\ active_sessions' \in [Tokens -> Session \cup {NoSession}]
          /\ user_to_token' \in [Users -> Tokens \cup {NoToken}]
          /\ presence' \in [Users -> Places \cup {NoRow}]
          /\ issuedTo' \in [Tokens -> Conns \cup {NoConn}]
      BY <2>1, <2>2, <2>3 DEF TypeOK
    <3> QED
      BY <1>16, <3>2, <3>3 DEF LoginInsert, TypeOK
  <2>11. IndexConsistent'
    <3>1. ASSUME NEW v \in Users, user_to_token'[v] # NoToken
          PROVE  /\ user_to_token'[v] \in Active'
                 /\ active_sessions'[user_to_token'[v]].user = v
      BY <2>4, <2>5, <2>7, <2>8, <3>1 DEF IndexConsistent, Active
    <3>2. ASSUME NEW s \in Active' PROVE user_to_token'[active_sessions'[s].user] = s
      <4>1. CASE s = t
        BY <2>2, <2>4, <2>7, <4>1
      <4>2. CASE s # t
        <5>1. s \in Active /\ active_sessions'[s] = active_sessions[s]
          BY <2>7, <2>8, <4>2 DEF Active
        <5>2. active_sessions[s].user \in Users
          BY <5>1 DEF TypeOK, Active, Session
        <5>3. user_to_token[active_sessions[s].user] = s /\ s # NoToken
          BY <5>1 DEF IndexConsistent, Active
        <5> QED
          BY <2>6, <2>7, <5>1, <5>2, <5>3
      <4> QED
        BY <4>1, <4>2
    <3> QED
      BY <3>1, <3>2 DEF IndexConsistent
  <2>12. LockInv' /\ LoginInv' /\ EvictedInv'
    BY <1>16, <2>1, <2>2, RequestFacts
       DEF LoginInsert, LockInv, LoginInv, EvictedInv, TypeOK, Request
  <2>13. SocketInv'
    BY <2>4, <2>7, <2>8 DEF SocketInv, Active
  <2>14. OwnTokenInv'
    BY <1>16, <2>1, <2>2, <2>7 DEF LoginInsert, OwnTokenInv, TypeOK, Request
  <2> QED
    BY <2>10, <2>11, <2>12, <2>13, <2>14
<1>17. ASSUME NEW t0 \in Tokens, Idle(t0) PROVE IInv'
  <2> DEFINE t == t0
             new == [active_sessions[t] EXCEPT !.stale = TRUE]
  <2>1. /\ t \in Active /\ t \in Tokens
        /\ active_sessions' = [active_sessions EXCEPT ![t] = new]
        /\ UNCHANGED <<user_to_token, issuedTo>>
    BY <1>17 DEF Idle, Active
  <2>2. active_sessions[t] \in Session
    BY <2>1 DEF Active, TypeOK
  <2>3. /\ new \in Session
        /\ new.user = active_sessions[t].user
        /\ new.conn = active_sessions[t].conn
    BY <2>2 DEF Session
  <2> HIDE DEF new
  <2>4. /\ active_sessions' \in [Tokens -> Session \cup {NoSession}]
        /\ IndexConsistent' /\ SocketInv'
    BY <2>1, <2>3, SessionUpdateFacts
  <2>5. active_sessions[t].user \in Users /\ active_sessions[t].place \in Places
    BY <2>2 DEF Session
  <2>6. TypeOK'
    BY <1>17, <2>4, <2>5, RequestFacts DEF Idle, threads, TypeOK
  <2>7. LockInv' /\ LoginInv' /\ EvictedInv' /\ OwnTokenInv'
    BY <1>17, RequestFacts
       DEF Idle, threads, LockInv, LoginInv, EvictedInv, OwnTokenInv, TypeOK
  <2> QED
    BY <2>4, <2>6, <2>7
<1>18. ASSUME NEW t0 \in Tokens, Expire(t0) PROVE IInv'
  <2> DEFINE t == t0
             new == [active_sessions[t] EXCEPT !.expired = TRUE]
  <2>1. /\ t \in Active /\ t \in Tokens
        /\ active_sessions' = [active_sessions EXCEPT ![t] = new]
        /\ UNCHANGED <<user_to_token, issuedTo>>
    BY <1>18 DEF Expire, Active
  <2>2. active_sessions[t] \in Session
    BY <2>1 DEF Active, TypeOK
  <2>3. /\ new \in Session
        /\ new.user = active_sessions[t].user
        /\ new.conn = active_sessions[t].conn
    BY <2>2 DEF Session
  <2> HIDE DEF new
  <2>4. /\ active_sessions' \in [Tokens -> Session \cup {NoSession}]
        /\ IndexConsistent' /\ SocketInv'
    BY <2>1, <2>3, SessionUpdateFacts
  <2>5. active_sessions[t].user \in Users /\ active_sessions[t].place \in Places
    BY <2>2 DEF Session
  <2>6. TypeOK'
    BY <1>18, <2>4, <2>5, RequestFacts DEF Expire, threads, TypeOK
  <2>7. LockInv' /\ LoginInv' /\ EvictedInv' /\ OwnTokenInv'
    BY <1>18, RequestFacts
       DEF Expire, threads, LockInv, LoginInv, EvictedInv, OwnTokenInv, TypeOK
  <2> QED
    BY <2>4, <2>6, <2>7
<1>19. ASSUME NEW t \in Tokens, PruneOne(t) PROVE IInv'
  <2>1. Cleanup(t)
    BY <1>19 DEF PruneOne
  <2>2. CleanupEffect(t)
    BY <2>1, CleanupFacts
  <2>3. TypeOK'
    BY <1>19, <2>2, RequestFacts DEF PruneOne, CleanupEffect, threads, TypeOK
  <2>4. LockInv' /\ LoginInv'
    BY <1>19, <2>2, RequestFacts DEF PruneOne, LockInv, LoginInv, threads, TypeOK, LockFree
  <2>5. EvictedInv'
    BY <1>19, <2>2, RequestFacts
       DEF PruneOne, CleanupEffect, EvictedInv, LoginInv, LockInv, threads, TypeOK, LockFree
  <2>6. SocketInv'
    BY <1>19, <2>2 DEF PruneOne, CleanupEffect, SocketInv, Active, TypeOK
  <2>7. OwnTokenInv'
    BY <1>19, <2>2, RequestFacts DEF PruneOne, OwnTokenInv, threads, TypeOK
  <2> QED
    BY <2>2, <2>3, <2>4, <2>5, <2>6, <2>7 DEF CleanupEffect
<1>20. ASSUME NEW t \in Tokens, ValidateExpired(t) PROVE IInv'
  <2>1. Cleanup(t)
    BY <1>20 DEF ValidateExpired
  <2>2. CleanupEffect(t)
    BY <2>1, CleanupFacts
  <2>3. TypeOK'
    BY <1>20, <2>2, RequestFacts DEF ValidateExpired, CleanupEffect, threads, TypeOK
  <2>4. LockInv' /\ LoginInv'
    BY <1>20, <2>2, RequestFacts DEF ValidateExpired, LockInv, LoginInv, threads, TypeOK, LockFree
  <2>5. EvictedInv'
    BY <1>20, <2>2, RequestFacts
       DEF ValidateExpired, CleanupEffect, EvictedInv, LoginInv, LockInv, threads, TypeOK, LockFree
  <2>6. SocketInv'
    BY <1>20, <2>2 DEF ValidateExpired, CleanupEffect, SocketInv, Active, TypeOK
  <2>7. OwnTokenInv'
    BY <1>20, <2>2, RequestFacts DEF ValidateExpired, OwnTokenInv, threads, TypeOK
  <2> QED
    BY <2>2, <2>3, <2>4, <2>5, <2>6, <2>7 DEF CleanupEffect
<1>21. ASSUME PruneScan PROVE IInv'
  BY <1>21 DEF PruneScan, registry, threads, TypeOK, IndexConsistent, LockInv, LoginInv,
        EvictedInv, SocketInv, OwnTokenInv, Active
<1>22. ASSUME NEW b \in Backends, NEW u \in Users, NEW p \in Places, UpdatePresence(b, u, p)
      PROVE  IInv'
  BY <1>22 DEF UpdatePresence, threads, TypeOK, IndexConsistent, LockInv, LoginInv,
        EvictedInv, SocketInv, OwnTokenInv, Active, Update
<1>23. ASSUME NEW b \in Backends, UpdateSession(b) PROVE IInv'
  BY <1>23 DEF UpdateSession, threads, TypeOK, IndexConsistent, LockInv, LoginInv,
        EvictedInv, SocketInv, OwnTokenInv, Active, Session, Update
<1>24. CASE UNCHANGED vars
  BY <1>24 DEF vars, registry, threads, TypeOK, IndexConsistent, LockInv, LoginInv,
        EvictedInv, SocketInv, OwnTokenInv, Active
<1> QED
  BY <1>1, <1>2, <1>3, <1>4, <1>5, <1>6, <1>7, <1>8, <1>9, <1>10, <1>11, <1>12, <1>13, <1>14, <1>15, <1>16, <1>17, <1>18, <1>19, <1>20, <1>21, <1>22, <1>23, <1>24 DEF Next, SessionStep, ClientStep,
        Prune, BackendStep

\* The invariant holds in every reachable state.
THEOREM Invariance == Spec => []IInv
BY InitIInv, NextIInv, PTL DEF Spec

\* The types of the registry and of the threads' variables.
THEOREM TypeCorrect == Spec => []TypeOK
BY Invariance, PTL DEF IInv

\* active_sessions and user_to_token stay inverse to each other, under every
\* interleaving of connections, pruner and backend threads.
THEOREM IndexTheorem == Spec => []IndexConsistent
BY Invariance, PTL DEF IInv

\* At most one session per user name, for any number of connections and logins.
THEOREM SingleSessionTheorem == Spec => []SingleSession
<1>1. IInv => SingleSession
  BY DEF IInv, IndexConsistent, SingleSession
<1> QED
  BY <1>1, Invariance, PTL

\* What the step of a clean-up leaves of PresenceMatchesSession: the row of a
\* user whose session ends says so, and nobody else's row or session changes.
LEMMA CleanupKeepsPresence ==
    ASSUME TypeOK, IndexConsistent, PresenceMatchesSession, NEW t, Cleanup(t)
    PROVE  PresenceMatchesSession'
<1> USE NullsAssumption
<1>1. CleanupEffect(t)
  BY CleanupFacts
<1>2. ASSUME Backends = {}, NEW u \in Users, user_to_token'[u] = NoToken
      PROVE  presence'[u] \in {NoRow, "offline"}
  BY <1>1, <1>2 DEF CleanupEffect, PresenceMatchesSession, IndexConsistent
<1>3. ASSUME Backends = {}, NEW u \in Users, user_to_token'[u] # NoToken
      PROVE  presence'[u] = active_sessions'[user_to_token'[u]].place
  <2>1. user_to_token[u] # t /\ user_to_token'[u] = user_to_token[u]
    BY <1>1, <1>3 DEF CleanupEffect
  <2>2. user_to_token[u] \in Tokens
    BY <1>3, <2>1 DEF TypeOK
  <2> QED
    BY <1>1, <1>3, <2>1, <2>2 DEF CleanupEffect, PresenceMatchesSession
<1> QED
  BY <1>2, <1>3 DEF PresenceMatchesSession

\* Without process servers every step keeps the presence rows in step with the
\* sessions.
LEMMA NextPresence ==
    ASSUME IInv, PresenceMatchesSession, [Next]_vars
    PROVE  PresenceMatchesSession'
<1> USE NullsAssumption DEF IInv
<1>1. ASSUME NEW t, Cleanup(t) PROVE PresenceMatchesSession'
  BY <1>1, CleanupKeepsPresence
<1>2. ASSUME NEW c \in Conns, TouchRefresh(c) PROVE PresenceMatchesSession'
  <2> DEFINE t == msg[c].token
  <2>1. t \in Active /\ t \in Tokens /\ active_sessions[t] \in Session
    BY <1>2 DEF TouchRefresh, Active, TypeOK
  <2>2. \A s \in Tokens : active_sessions'[s].place = active_sessions[s].place
    BY <1>2, <2>1 DEF TouchRefresh, TypeOK, Session
  <2>3. user_to_token[active_sessions[t].user] = t /\ active_sessions[t].user \in Users
    BY <2>1 DEF IndexConsistent, Session
  <2>4. \A u \in Users : presence'[u] = IF u = active_sessions[t].user
                                        THEN active_sessions[t].place ELSE presence[u]
    BY <1>2, <2>3 DEF TouchRefresh, TypeOK
  <2>5. user_to_token' = user_to_token
    BY <1>2 DEF TouchRefresh
  <2> HIDE DEF t
  <2> QED
    BY <2>1, <2>2, <2>3, <2>4, <2>5 DEF PresenceMatchesSession, TypeOK
<1>3. ASSUME NEW c \in Conns, NEW t \in Tokens, LoginInsert(c, t) PROVE PresenceMatchesSession'
  <2> DEFINE u == msg[c].user
             new == [user |-> u, conn |-> c, place |-> "online",
                     stale |-> FALSE, expired |-> FALSE]
  <2>1. u \in Users
    BY <1>3, RequestFacts DEF LoginInsert, TypeOK, LoginInv
  <2>2. new.place = "online"
    OBVIOUS
  <2> HIDE DEF u, new
  <2>3. /\ \A s \in Tokens : active_sessions'[s] = IF s = t THEN new ELSE active_sessions[s]
        /\ \A v \in Users : user_to_token'[v] = IF v = u THEN t ELSE user_to_token[v]
        /\ \A v \in Users : presence'[v] = IF v = u THEN "online" ELSE presence[v]
    BY <1>3, <2>1 DEF LoginInsert, TypeOK, u, new
  <2>4. t \notin Active
    BY <1>3 DEF LoginInsert, SocketInv, Active, TypeOK, Session
  <2>5. \A v \in Users : user_to_token[v] # t
    BY <2>4 DEF IndexConsistent
  <2> QED
    BY <2>1, <2>2, <2>3, <2>5 DEF PresenceMatchesSession, TypeOK
<1>4. ASSUME NEW t \in Tokens, Idle(t) \/ Expire(t) PROVE PresenceMatchesSession'
  <2>1. active_sessions[t] \in Session
    BY <1>4 DEF Idle, Expire, Active, TypeOK
  <2>2. \A s \in Tokens : active_sessions'[s].place = active_sessions[s].place
    BY <1>4, <2>1 DEF Idle, Expire, TypeOK, Session
  <2> QED
    BY <1>4, <2>2 DEF Idle, Expire, PresenceMatchesSession, TypeOK
<1>5. CASE UNCHANGED registry
  BY <1>5 DEF registry, PresenceMatchesSession
<1>6. CASE \E b \in Backends : \/ UpdateSession(b)
                              \/ \E u \in Users, p \in Places : UpdatePresence(b, u, p)
  BY <1>6 DEF PresenceMatchesSession
<1> QED
  BY <1>1, <1>2, <1>3, <1>4, <1>5, <1>6
     DEF Next, SessionStep, ClientStep, Prune, BackendStep, vars, Disconnect, Receive,
         TouchGone, TouchExpired, DispatchLogin, DispatchPing, DispatchLogout, DispatchOther,
         LoginEvict, LoginReply, Logout, ServeGone, ServeQuery, Final, PruneScan, PruneOne,
         ValidateExpired

\* Without process servers the presence row of a user shows what the session
\* says: no refresh, clean-up or eviction, however late, overwrites the row of a
\* newer login.
THEOREM PresenceTheorem == Spec => []PresenceMatchesSession
<1>1. Init => PresenceMatchesSession
  BY DEF Init, PresenceMatchesSession
<1> QED
  BY <1>1, NextPresence, Invariance, PTL DEF Spec

\* A session ends only by expiry, pruning, its own logout, a login of the same
\* user, or the end of the connection it was created on: in every step.
THEOREM EndsOnlyByOwnerTheorem == Spec => EndsOnlyByOwner
<1> DEFINE Ended(t) ==
      \/ active_sessions[t].expired
      \/ t \in tokens_to_remove
      \/ \E c \in Conns : pc[c] = "logout" /\ msg[c].token = t
      \/ \E c \in Conns : /\ pc[c] = "evict" /\ lock' = c
                          /\ msg[c].user = active_sessions[t].user
      \/ \E c \in Conns : /\ pc[c] = "final" /\ pc'[c] = "closed"
                          /\ active_sessions[t].conn = c
<1>1. ASSUME IInv, [Next]_vars, NEW t \in Active, t \notin Active'
      PROVE  Ended(t)
  <2> USE <1>1 DEF IInv
  <2>1. t \in Tokens /\ t # NoToken /\ active_sessions[t] \in Session
    BY NullsAssumption DEF Active, TypeOK
  <2>2. active_sessions' # active_sessions
    BY DEF Active
  <2>3. ASSUME NEW s, Cleanup(s) PROVE s = t
    BY <2>3, CleanupFacts DEF CleanupEffect
  <2>4. ASSUME NEW c \in Conns, TouchExpired(c) PROVE Ended(t)
    BY <2>3, <2>4 DEF TouchExpired
  <2>5. ASSUME NEW c \in Conns, LoginEvict(c) PROVE Ended(t)
    <3>1. t = user_to_token[msg[c].user] /\ pc[c] = "evict" /\ lock' = c
      BY <2>3, <2>5 DEF LoginEvict
    <3>2. msg[c].user \in Users
      BY <3>1, RequestFacts DEF LoginInv, TypeOK
    <3>3. active_sessions[t].user = msg[c].user
      BY <2>1, <3>1, <3>2 DEF IndexConsistent
    <3> QED
      BY <3>1, <3>3
  <2>6. ASSUME NEW c \in Conns, Logout(c) PROVE Ended(t)
    BY <2>3, <2>6 DEF Logout
  <2>7. ASSUME NEW c \in Conns, Final(c) PROVE Ended(t)
    <3>1. t = current_token[c] /\ pc[c] = "final" /\ pc'[c] = "closed"
      BY <2>3, <2>7 DEF Final, Finish, TypeOK
    <3>2. active_sessions[t].conn = c
      BY <2>1, <3>1 DEF SocketInv, OwnTokenInv
    <3> QED
      BY <3>1, <3>2
  <2>8. ASSUME NEW s \in Tokens, PruneOne(s) \/ ValidateExpired(s) PROVE Ended(t)
    BY <2>3, <2>8 DEF PruneOne, ValidateExpired
  <2>9. ASSUME NEW c \in Conns, TouchRefresh(c) PROVE FALSE
    BY <2>9, NullsAssumption DEF TouchRefresh, Active, TypeOK, Session
  <2>10. ASSUME NEW c \in Conns, NEW s \in Tokens, LoginInsert(c, s) PROVE FALSE
    <3>1. s \notin Active
      <4>1. issuedTo[s] = NoConn
        BY <2>10 DEF LoginInsert
      <4> QED
        BY <4>1, NullsAssumption DEF SocketInv, Active, TypeOK, Session
    <3>2. active_sessions'[t] = active_sessions[t]
      BY <2>1, <2>10, <3>1 DEF LoginInsert, TypeOK
    <3> QED
      BY <2>1, <3>2 DEF Active
  <2>11. ASSUME NEW s \in Tokens, Idle(s) \/ Expire(s) PROVE FALSE
    <3>1. s \in Active /\ active_sessions[s] \in Session
      BY <2>11 DEF Idle, Expire, Active, TypeOK
    <3>2. PICK new \in Session : active_sessions' = [active_sessions EXCEPT ![s] = new]
      BY <2>11, <3>1 DEF Idle, Expire, Session
    <3> QED
      BY <2>1, <3>2, NullsAssumption DEF Active, TypeOK
  <2>12. ASSUME NEW b \in Backends, UpdateSession(b) PROVE FALSE
    BY <2>12, NullsAssumption DEF UpdateSession, Active, TypeOK, Session, Update
  <2> QED
    BY <2>2, <2>4, <2>5, <2>6, <2>7, <2>8, <2>9, <2>10, <2>11, <2>12
       DEF Next, SessionStep, ClientStep, Prune, BackendStep, vars, registry, Disconnect,
           Receive, TouchGone, DispatchLogin, DispatchPing, DispatchLogout, DispatchOther,
           LoginReply, ServeGone, ServeQuery, PruneScan, UpdatePresence
<1>2. IInv /\ [Next]_vars => [\A t \in Active : t \notin Active' => Ended(t)]_vars
  BY <1>1
<1> QED
  BY <1>2, Invariance, PTL DEF Spec, EndsOnlyByOwner

-----------------------------------------------------------------------------
(***************************************************************************)
(* 2. GatewaySessions implements SessionRegistry: the initial state maps   *)
(* to the abstract initial state, and every step of a thread maps to one   *)
(* abstract step or to none.  The index is what makes it work: two         *)
(* sessions with the same view would be sessions of one user, hence the    *)
(* same.                                                                   *)
(***************************************************************************)

Views == {View(t) : t \in Active}

\* A report under way is never of the place a login gives.
ReportInv ==
    \A b \in Backends : update[b] # NoUpdate => update[b].place \in Places \ {"online"}

RInv == IInv /\ ReportInv

AbstractStep == [Registry!Next]_<<Views, presence>>

-----------------------------------------------------------------------------
\* Only process servers' updates touch `update`, and Next lets none of them
\* report "online".
LEMMA NextReportInv ==
    ASSUME TypeOK, ReportInv, [Next]_vars
    PROVE  ReportInv'
<1>1. CASE update' = update
  BY <1>1 DEF ReportInv
<1>2. CASE \E b \in Backends, u \in Users, p \in Places \ {"online"} : UpdatePresence(b, u, p)
  BY <1>2 DEF UpdatePresence, ReportInv, TypeOK
<1>3. CASE \E b \in Backends : UpdateSession(b)
  BY <1>3 DEF UpdateSession, ReportInv, TypeOK
<1> QED
  BY <1>1, <1>2, <1>3
     DEF Next, SessionStep, ClientStep, Prune, BackendStep, vars, Disconnect, Receive,
         TouchGone, TouchExpired, TouchRefresh, DispatchLogin, DispatchPing,
         DispatchLogout, DispatchOther, LoginEvict, LoginInsert, LoginReply, Logout,
         ServeGone, ServeQuery, Final, PruneScan, PruneOne, Idle, Expire, ValidateExpired

\* The invariant of the registry together with that of the reports.
LEMMA RInvariance == Spec => []RInv
<1>1. Init => RInv
  BY InitIInv DEF Init, RInv, ReportInv
<1>2. RInv /\ [Next]_vars => RInv'
  BY NextIInv, NextReportInv DEF RInv, IInv
<1> QED
  BY <1>1, <1>2, PTL DEF Spec

-----------------------------------------------------------------------------
\* A token is told from another by the view of its session.
LEMMA ViewsDiffer ==
    ASSUME IndexConsistent, NEW s \in Active, NEW t \in Active, View(s) = View(t)
    PROVE  s = t
BY DEF View, IndexConsistent

\* Nothing is seen of a step that leaves every session's user, connection and
\* place alone.
LEMMA SameViews ==
    ASSUME Active' = Active,
           \A t \in Active : /\ active_sessions'[t].user = active_sessions[t].user
                             /\ active_sessions'[t].conn = active_sessions[t].conn
                             /\ active_sessions'[t].place = active_sessions[t].place
    PROVE  Views' = Views
BY DEF Views, View

\* _cleanup_session is the abstract End, or nothing.
LEMMA CleanupStep ==
    ASSUME TypeOK, IndexConsistent, NEW t, Cleanup(t)
    PROVE  AbstractStep
<1>1. CASE t \notin Active
  BY <1>1 DEF Cleanup, registry, Active, AbstractStep, Views, View
<1>2. CASE t \in Active
  <2>1. /\ \A s \in Tokens : s # t => active_sessions'[s] = active_sessions[s]
        /\ Active' = Active \ {t}
    BY CleanupFacts DEF CleanupEffect
  <2>2. presence' = [presence EXCEPT ![View(t).user] = "offline"]
    BY <1>2 DEF Cleanup, View
  <2>3. \A s \in Active' : View(s)' = View(s)
    BY <2>1 DEF View, Active
  <2>4. \A s \in Active \ {t} : View(s) # View(t)
    BY <1>2, ViewsDiffer
  <2>5. Views' = Views \ {View(t)}
    BY <2>1, <2>3, <2>4 DEF Views
  <2>6. View(t) \in Views
    BY <1>2 DEF Views
  <2>7. Registry!End(View(t))
    BY <2>2, <2>5, <2>6 DEF Registry!End, Views
  <2> QED
    BY <2>6, <2>7 DEF AbstractStep, Registry!Next, Views
<1> QED
  BY <1>1, <1>2

\* The second step of a login is the abstract LogIn: the first has made sure
\* that the user has no session.
LEMMA LoginStep ==
    ASSUME IInv, NEW c \in Conns, NEW t \in Tokens, LoginInsert(c, t)
    PROVE  AbstractStep
<1> DEFINE u == msg[c].user
           new == [user |-> u, conn |-> c, place |-> "online"]
<1> USE NullsAssumption DEF IInv
<1>1. pc[c] = "insert" /\ issuedTo[t] = NoConn
  BY DEF LoginInsert
<1>2. u \in Users
  BY <1>1, RequestFacts DEF TypeOK, LoginInv
<1>3. t \notin Active
  BY <1>1 DEF SocketInv, Active, TypeOK, Session
<1>4. active_sessions'[t] = [user |-> u, conn |-> c, place |-> "online",
                             stale |-> FALSE, expired |-> FALSE]
  BY DEF LoginInsert, TypeOK
<1>5. \A s \in Tokens : s # t => active_sessions'[s] = active_sessions[s]
  BY DEF LoginInsert, TypeOK
<1>6. active_sessions'[t] \in Session
  BY <1>2, <1>4 DEF Session, Places
<1>7. Active' = Active \cup {t}
  BY <1>5, <1>6 DEF Active
<1>8. View(t)' = new /\ \A s \in Active : View(s)' = View(s)
  BY <1>3, <1>4, <1>5 DEF View, Active
<1>9. Views' = Views \cup {new}
  BY <1>7, <1>8 DEF Views
<1>10. ~Registry!HasSession(u)
  <2>1. ASSUME NEW s \in Active, View(s).user = u PROVE FALSE
    <3>1. user_to_token[u] = s /\ s \in Tokens
      BY <2>1 DEF View, IndexConsistent, Active
    <3> QED
      BY <1>1, <3>1 DEF EvictedInv
  <2> QED
    BY <2>1 DEF Registry!HasSession
<1>11. Registry!LogIn(u, c)
  BY <1>9, <1>10 DEF Registry!LogIn, Views, LoginInsert
<1> QED
  BY <1>2, <1>11 DEF AbstractStep, Registry!Next, Views

\* A packet of a client with a session repeats the place in the presence row.
LEMMA TouchStep ==
    ASSUME TypeOK, NEW c \in Conns, TouchRefresh(c)
    PROVE  AbstractStep
<1>1. PICK t \in Tokens : t = msg[c].token /\ t \in Active
  BY DEF TouchRefresh, Active
<1>2. active_sessions[t] \in Session
  BY <1>1 DEF Active, TypeOK
<1>3. active_sessions' = [active_sessions EXCEPT ![t].stale = FALSE]
  BY <1>1 DEF TouchRefresh
<1>4. PICK new \in Session :
        /\ active_sessions' = [active_sessions EXCEPT ![t] = new]
        /\ new.user = active_sessions[t].user
        /\ new.conn = active_sessions[t].conn
        /\ new.place = active_sessions[t].place
  <2>1. [active_sessions[t] EXCEPT !.stale = FALSE] \in Session
    BY <1>2 DEF Session
  <2>2. active_sessions' = [active_sessions EXCEPT
                               ![t] = [active_sessions[t] EXCEPT !.stale = FALSE]]
    BY <1>3
  <2> QED
    BY <1>2, <2>1, <2>2 DEF Session
<1>5. Active' = Active
  BY <1>1, <1>4, NullsAssumption DEF Active, TypeOK
<1>6. Views' = Views
  BY <1>4, <1>5, SameViews DEF Active, TypeOK
<1>7. presence' = [presence EXCEPT ![View(t).user] = View(t).place]
  BY <1>1 DEF TouchRefresh, View
<1>8. View(t) \in Views
  BY <1>1 DEF Views
<1>9. Registry!Refresh(View(t))
  BY <1>6, <1>7, <1>8 DEF Registry!Refresh, Views
<1> QED
  BY <1>8, <1>9 DEF AbstractStep, Registry!Next, Views

\* The locked half of a room status update settles the session, if there is one.
LEMMA UpdateStep ==
    ASSUME TypeOK, IndexConsistent, ReportInv, NEW b \in Backends, UpdateSession(b)
    PROVE  AbstractStep
<1>1. PICK p \in Places \ {"online"} : p = update[b].place
  BY DEF UpdateSession, ReportInv
<1>2. PICK t : t = user_to_token[update[b].user]
  OBVIOUS
<1>3. CASE t \notin Active
  BY <1>2, <1>3 DEF UpdateSession, Active, AbstractStep, Views, View
<1>4. CASE t \in Active
  <2>1. t \in Tokens /\ active_sessions[t] \in Session
    BY <1>4 DEF Active, TypeOK
  <2>2. active_sessions' = [active_sessions EXCEPT ![t].place = p]
    BY <1>1, <1>2, <1>4 DEF UpdateSession
  <2>3. PICK new \in Session :
          /\ active_sessions' = [active_sessions EXCEPT ![t] = new]
          /\ new.user = active_sessions[t].user
          /\ new.conn = active_sessions[t].conn
          /\ new.place = p
    <3>1. [active_sessions[t] EXCEPT !.place = p] \in Session
      BY <2>1 DEF Session
    <3>2. active_sessions' = [active_sessions EXCEPT
                                 ![t] = [active_sessions[t] EXCEPT !.place = p]]
      BY <2>2
    <3> QED
      BY <2>1, <3>1, <3>2 DEF Session
  <2>4. Active' = Active
    BY <2>1, <2>3, NullsAssumption DEF Active, TypeOK
  <2>5. View(t)' = [View(t) EXCEPT !.place = p]
    BY <2>1, <2>3 DEF View, TypeOK
  <2>6. \A s \in Active \ {t} : View(s)' = View(s) /\ View(s) # View(t)
    BY <1>4, <2>1, <2>3, ViewsDiffer DEF View, Active, TypeOK
  <2>7. Views' = {View(s)' : s \in Active}
    BY <2>4 DEF Views
  <2>8. Views' = (Views \ {View(t)}) \cup {[View(t) EXCEPT !.place = p]}
    BY <1>4, <2>5, <2>6, <2>7 DEF Views
  <2>9. View(t) \in Views
    BY <1>4 DEF Views
  <2>10. Registry!Settle(View(t), p)
    BY <2>8, <2>9 DEF Registry!Settle, Views, UpdateSession
  <2> QED
    BY <2>9, <2>10 DEF AbstractStep, Registry!Next, Views
<1> QED
  BY <1>3, <1>4

\* Time passes: stale and expired are not part of the view.
LEMMA TimeStep ==
    ASSUME TypeOK, NEW t \in Tokens, Idle(t) \/ Expire(t)
    PROVE  UNCHANGED <<Views, presence>>
<1>1. t \in Active /\ active_sessions[t] \in Session
  BY DEF Idle, Expire, Active, TypeOK
<1>2. PICK new \in Session :
        /\ active_sessions' = [active_sessions EXCEPT ![t] = new]
        /\ new.user = active_sessions[t].user
        /\ new.conn = active_sessions[t].conn
        /\ new.place = active_sessions[t].place
  BY <1>1 DEF Idle, Expire, Session
<1>3. Active' = Active
  BY <1>1, <1>2, NullsAssumption DEF Active, TypeOK
<1>4. Views' = Views
  BY <1>2, <1>3, SameViews DEF Active, TypeOK
<1> QED
  BY <1>4 DEF Idle, Expire

-----------------------------------------------------------------------------
\* Every step of the Gateway is an abstract step or changes nothing one sees.
LEMMA StepImplements ==
    ASSUME RInv, [Next]_vars
    PROVE  AbstractStep
<1> USE DEF RInv, IInv
<1>1. ASSUME NEW t, Cleanup(t) PROVE AbstractStep
  BY <1>1, CleanupStep
<1>2. ASSUME NEW c \in Conns, \/ TouchExpired(c) \/ LoginEvict(c) \/ Logout(c) \/ Final(c)
      PROVE  AbstractStep
  BY <1>1, <1>2 DEF TouchExpired, LoginEvict, Logout, Final
<1>3. ASSUME NEW t \in Tokens, PruneOne(t) \/ ValidateExpired(t) PROVE AbstractStep
  BY <1>1, <1>3 DEF PruneOne, ValidateExpired
<1>4. ASSUME NEW c \in Conns, NEW t \in Tokens, LoginInsert(c, t) PROVE AbstractStep
  BY <1>4, LoginStep
<1>5. ASSUME NEW c \in Conns, TouchRefresh(c) PROVE AbstractStep
  BY <1>5, TouchStep
<1>6. ASSUME NEW b \in Backends, UpdateSession(b) PROVE AbstractStep
  BY <1>6, UpdateStep
<1>7. ASSUME NEW b \in Backends, NEW u \in Users, NEW p \in Places \ {"online"},
             UpdatePresence(b, u, p)
      PROVE  AbstractStep
  <2>1. Views' = Views
    BY <1>7 DEF UpdatePresence, Views, View, Active
  <2>2. Registry!Report(u, p)
    BY <1>7, <2>1 DEF UpdatePresence, Registry!Report, Views
  <2> QED
    BY <2>2 DEF AbstractStep, Registry!Next, Views
<1>8. ASSUME NEW t \in Tokens, Idle(t) \/ Expire(t) PROVE AbstractStep
  BY <1>8, TimeStep DEF AbstractStep
<1>9. CASE UNCHANGED <<active_sessions, presence>>
  BY <1>9 DEF AbstractStep, Views, View, Active
<1> QED
  BY <1>2, <1>3, <1>4, <1>5, <1>6, <1>7, <1>8, <1>9
     DEF Next, SessionStep, ClientStep, Prune, BackendStep, vars, registry, Disconnect,
         Receive, TouchGone, DispatchLogin, DispatchPing, DispatchLogout, DispatchOther,
         LoginReply, ServeGone, ServeQuery, PruneScan

\* The registry of the Gateway implements the abstract one: sessions begin and
\* end as whole steps, one for a user at a time, and the presence row changes
\* only by them, by refreshes and by reports.
THEOREM RegistryImplemented == Spec => ImplementsRegistry
<1>1. Init => Registry!Init
  BY NullsAssumption DEF Init, Registry!Init, Active
<1>2. RInv /\ [Next]_vars => [Registry!Next]_Registry!vars
  BY StepImplements DEF AbstractStep, Registry!vars, Views
<1> QED
  BY <1>1, <1>2, RInvariance, PTL DEF Spec, ImplementsRegistry, Registry!Spec

-----------------------------------------------------------------------------
(***************************************************************************)
(* 3. Private messages.  The steps of _handle_private_message_send leave   *)
(* the registry alone, so what is proved of GatewaySessions holds in the   *)
(* composition; the rest follows from what a handler's locals mean at its  *)
(* place in the code, from SocketInv, and from the fact that a token is    *)
(* issued once.                                                            *)
(***************************************************************************)

\* What the locals of a handler mean at its place.
HandlingInv ==
    \A c \in Conns :
        /\ pc[c] = "pm" => msg[c].type = "PM"
        /\ stage[c] = "none" <=> handling[c] = NoMessage
        /\ stage[c] \in {"look", "check", "store"} => handling[c] \notin DOMAIN stored
        /\ stage[c] \in {"tell", "find", "send"} =>
              /\ handling[c] \in DOMAIN stored
              /\ stored[handling[c]].sender = c
              /\ stored[handling[c]].token = found[c]
        /\ stage[c] \in {"find", "send"} => stored[handling[c]].status = "delivered"
        /\ stage[c] = "send" => socket[c] = issuedTo[found[c]]

\* A message is handled by one thread.
OneHandler ==
    \A c, d \in Conns : handling[c] = handling[d] /\ handling[c] # NoMessage => c = d

\* A message is stored as delivered for a token that was issued.
DeliveredInv ==
    \A n \in DOMAIN stored :
        stored[n].status = "delivered" =>
            stored[n].token \in Tokens /\ issuedTo[stored[n].token] \in Conns

MInv == RInv /\ PTypeOK /\ HandlingInv /\ OneHandler /\ DeliveredInv
             /\ ReceivedWhereIssued /\ LostOnlyByEnd

-----------------------------------------------------------------------------
(* What the registry's steps leave of the messages, and the other way round *)

\* A step of the registry moves no thread into or out of the handler, gives
\* none in it another packet, revives none that is gone, and issues no token a
\* second time.
SessionFrame ==
    /\ \A c \in Conns : pc'[c] = "pm" <=> pc[c] = "pm"
    /\ \A c \in Conns : pc[c] = "pm" => msg'[c] = msg[c]
    /\ \A c \in Conns : pc[c] \in {"final", "closed"} => pc'[c] \in {"final", "closed"}
    /\ \A t \in Tokens : issuedTo[t] # NoConn => issuedTo'[t] = issuedTo[t]

\* A step of GatewaySessions does to positions, packets and issued tokens no more than SessionFrame says.
LEMMA SessionFacts ==
    ASSUME TypeOK, SessionStep
    PROVE  SessionFrame
<1>1. ASSUME NEW c \in Conns, ClientStep(c) \/ Disconnect(c)
      PROVE  /\ \A d \in Conns : pc'[d] = "pm" <=> pc[d] = "pm"
             /\ \A d \in Conns : pc[d] = "pm" => msg'[d] = msg[d]
             /\ \A d \in Conns : pc[d] \in {"final", "closed"} => pc'[d] \in {"final", "closed"}
  BY <1>1 DEF TypeOK, ClientStep, Disconnect, TouchGone, TouchExpired, TouchRefresh,
              DispatchLogin, DispatchPing, DispatchLogout, DispatchOther, LoginEvict,
              LoginInsert, LoginReply, Logout, ServeGone, ServeQuery, Final, Goto, Finish
<1>2. ASSUME NEW c \in Conns, ClientStep(c) \/ Disconnect(c)
      PROVE  \A t \in Tokens : issuedTo[t] # NoConn => issuedTo'[t] = issuedTo[t]
  BY <1>2 DEF TypeOK, ClientStep, Disconnect, TouchGone, TouchExpired, TouchRefresh,
              DispatchLogin, DispatchPing, DispatchLogout, DispatchOther, LoginEvict,
              LoginInsert, LoginReply, Logout, ServeGone, ServeQuery, Final
<1>3. CASE UNCHANGED <<pc, msg, issuedTo>>
  BY <1>3 DEF SessionFrame
<1> QED
  BY <1>1, <1>2, <1>3
     DEF SessionStep, SessionFrame, Prune, BackendStep, Idle, Expire, ValidateExpired,
         PruneScan, PruneOne, UpdateSession, UpdatePresence, threads

\* Everything but the program counter and the packet of a thread.
Quiet == UNCHANGED <<registry, issuedTo, lock, current_token, tokens_to_remove, update>>

\* The moves of a thread that receives or handles a private message.
Move(c) ==
    /\ Quiet
    /\ \/ \E m \in Request : Receive(c, m)
       \/ pc[c] = "serve" /\ Goto(c, "pm")
       \/ pc[c] \in {"serve", "pm"} /\ (Finish(c, "recv") \/ Finish(c, "final"))
       \/ pc[c] = "pm" /\ UNCHANGED <<pc, msg>>

\* Such a move is none of the registry's business.
LEMMA MoveKeepsRegistry ==
    ASSUME RInv, NEW c \in Conns, Move(c)
    PROVE  RInv'
<1> USE NullsAssumption DEF RInv, IInv
<1>1. UNCHANGED <<registry, issuedTo, lock, current_token, tokens_to_remove, update>>
  BY DEF Move, Quiet
<1>2. \E m \in Request \cup {NoMsg} : \/ msg' = [msg EXCEPT ![c] = m]
                                     \/ UNCHANGED msg
  BY DEF Move, Receive, Goto, Finish
<1>3. TypeOK'
  <2>1. CASE \E m \in Request : Receive(c, m)
    BY <1>1, <2>1 DEF Receive, TypeOK, registry
  <2>2. CASE pc[c] = "serve" /\ Goto(c, "pm")
    BY <1>1, <2>2 DEF Goto, TypeOK, registry
  <2>3. CASE Finish(c, "recv") \/ Finish(c, "final")
    BY <1>1, <2>3 DEF Finish, TypeOK, registry
  <2>4. CASE UNCHANGED <<pc, msg>>
    BY <1>1, <2>4 DEF TypeOK, registry
  <2> QED
    BY <2>1, <2>2, <2>3, <2>4 DEF Move
<1>4. IndexConsistent' /\ SocketInv' /\ ReportInv'
  BY <1>1 DEF registry, IndexConsistent, SocketInv, ReportInv, Active
<1>5. \A d \in Conns : /\ d # c => pc'[d] = pc[d] /\ msg'[d] = msg[d]
                      /\ pc[c] \notin {"evict", "insert", "reply"}
                      /\ pc'[c] \notin {"evict", "insert", "reply"}
  BY DEF Move, Receive, Goto, Finish, TypeOK
<1>6. LockInv' /\ LoginInv' /\ EvictedInv' /\ OwnTokenInv'
  BY <1>1, <1>5 DEF registry, LockInv, LoginInv, EvictedInv, OwnTokenInv
<1> QED
  BY <1>3, <1>4, <1>6

\* What the steps of the composition are to the registry.
LEMMA StepKinds ==
    ASSUME PTypeOK, [PNext]_pvars
    PROVE  \/ [Next]_vars
           \/ \E c \in Conns : Move(c)
<1>1. ASSUME NEW c \in Conns, MessageStep(c) PROVE Move(c)
  BY <1>1 DEF MessageStep, Move, Quiet, Limit, LimitExceeded, Look, LookUnknown, Store, Tell,
              TellFails, Find, FindGone, Send, SendFails, AtStage, Leave, vars, threads
<1>2. ASSUME NEW c \in Conns, NEW m \in Request, PReceive(c, m) PROVE Move(c)
  BY <1>2 DEF PReceive, Receive, Move, Quiet
<1> QED
  BY <1>1, <1>2 DEF PNext, pvars, Next

\* The registry's invariant holds in the composition.
LEMMA NextRegistry ==
    ASSUME RInv, PTypeOK, [PNext]_pvars
    PROVE  RInv'
BY StepKinds, MoveKeepsRegistry, NextIInv, NextReportInv DEF RInv, IInv

-----------------------------------------------------------------------------
(* The steps keep the invariant: one lemma for each kind of step *)

\* No message, no handler at the start.
LEMMA InitMInv == PInit => MInv
<1> SUFFICES ASSUME PInit PROVE MInv
  OBVIOUS
<1>1. RInv
  BY InitIInv DEF PInit, Init, RInv, ReportInv
<1>2. DOMAIN stored = {}
  BY DEF PInit
<1> QED
  BY <1>1, <1>2 DEF PInit, Init, MInv, RInv, IInv, PTypeOK, HandlingInv, OneHandler,
                    DeliveredInv, ReceivedWhereIssued, LostOnlyByEnd

\* A step of the registry: the connection a token was issued for stays what it
\* was, and a sender that is gone does not come back.
LEMMA SessionKeepsMInv ==
    ASSUME MInv, SessionStep, UNCHANGED messages
    PROVE  MInv'
<1> USE NullsAssumption DEF MInv
<1>1. RInv'
  BY NextRegistry DEF PNext
<1>2. SessionFrame
  BY SessionFacts DEF PTypeOK
<1>3. PTypeOK'
  BY <1>1, <1>2 DEF PTypeOK, messages, RInv, IInv, SessionFrame
<1>4. \A n \in DOMAIN stored : stored[n].status = "delivered" =>
         issuedTo'[stored[n].token] = issuedTo[stored[n].token]
  BY <1>2 DEF SessionFrame, DeliveredInv
<1>5. DeliveredInv' /\ ReceivedWhereIssued'
  BY <1>3, <1>4 DEF DeliveredInv, ReceivedWhereIssued, messages
<1>6. HandlingInv'
  BY <1>2, <1>4 DEF HandlingInv, messages, SessionFrame
<1>7. OneHandler'
  BY DEF OneHandler, messages
<1>8. LostOnlyByEnd'
  BY <1>2, <1>4 DEF LostOnlyByEnd, messages, SessionFrame, PTypeOK, Row
<1> QED
  BY <1>1, <1>3, <1>5, <1>6, <1>7, <1>8

\* Receiving a packet touches no message, and is done by a thread that is
\* neither in the handler nor gone.
LEMMA ReceiveKeepsMInv ==
    ASSUME MInv, NEW c \in Conns, NEW m \in Request, PReceive(c, m)
    PROVE  MInv'
<1> USE DEF MInv
<1>1. RInv'
  BY NextRegistry DEF PNext
<1>2. UNCHANGED <<issuedTo, messages>> /\ pc[c] = "recv"
  BY DEF PReceive, Receive
<1>3. \A d \in Conns : d # c => pc'[d] = pc[d] /\ msg'[d] = msg[d]
  BY DEF PReceive, Receive, TypeOK, PTypeOK
<1>4. pc'[c] \in {"touch", "dispatch"}
  BY DEF PReceive, Receive, TypeOK, PTypeOK
<1>5. PTypeOK'
  BY <1>1, <1>2, <1>3, <1>4 DEF PTypeOK, messages, RInv, IInv
<1>6. DeliveredInv' /\ ReceivedWhereIssued' /\ HandlingInv' /\ OneHandler'
  BY <1>2, <1>3, <1>4, <1>5 DEF DeliveredInv, ReceivedWhereIssued, HandlingInv, OneHandler, messages
<1>7. LostOnlyByEnd'
  BY <1>2, <1>3, <1>4 DEF LostOnlyByEnd, messages, PTypeOK, Row
<1> QED
  BY <1>1, <1>5, <1>6, <1>7

\* What every move of the handler has in common: the registry's invariant and
\* the tokens' connections stay, and only the thread itself moves.
MoveFrame(c) ==
    /\ RInv'
    /\ issuedTo' = issuedTo
    /\ \A d \in Conns : d # c => pc'[d] = pc[d] /\ msg'[d] = msg[d]

\* A step of a private message keeps the registry's invariant and the other threads' positions and packets.
LEMMA MessageFrame ==
    ASSUME RInv, PTypeOK, NEW c \in Conns, MessageStep(c)
    PROVE  MoveFrame(c)
<1>1. Move(c)
  BY DEF MessageStep, Move, Quiet, Limit, LimitExceeded, Look, LookUnknown, Store, Tell,
         TellFails, Find, FindGone, Send, SendFails, AtStage, Leave, vars, threads
<1>2. RInv'
  BY NextRegistry DEF PNext
<1>3. \A d \in Conns : d # c => pc'[d] = pc[d] /\ msg'[d] = msg[d]
  BY <1>1 DEF Move, Receive, Goto, Finish, PTypeOK, TypeOK
<1> QED
  BY <1>1, <1>2, <1>3 DEF MoveFrame, Move, Quiet

\* The message gets its handler, one that no other thread has.
LEMMA LimitKeepsMInv ==
    ASSUME MInv, NEW c \in Conns, NEW n \in Messages, Limit(c, n)
    PROVE  MInv'
<1> USE MessagesAssumption DEF MInv
<1>1. MoveFrame(c)
  BY MessageFrame DEF MessageStep
<1>2. /\ pc[c] = "serve" /\ pc'[c] = "pm" /\ stage[c] = "none"
      /\ msg[c].type = "PM" /\ msg' = msg
      /\ stage' = [stage EXCEPT ![c] = "look"]
      /\ handling' = [handling EXCEPT ![c] = n]
      /\ UNCHANGED <<found, socket, stored, received, failed>>
  BY DEF Limit, Goto, PTypeOK, TypeOK
<1>3. n \notin DOMAIN stored /\ \A d \in Conns : handling[d] # n
  BY DEF Limit
<1>4. PTypeOK'
  BY <1>1, <1>2 DEF PTypeOK, MoveFrame, RInv, IInv
<1>5. HandlingInv' /\ OneHandler'
  BY <1>1, <1>2, <1>3 DEF HandlingInv, OneHandler, MoveFrame, PTypeOK
<1>6. DeliveredInv' /\ ReceivedWhereIssued'
  BY <1>1, <1>2, <1>4 DEF DeliveredInv, ReceivedWhereIssued, MoveFrame
<1>7. LostOnlyByEnd'
  BY <1>1, <1>2, <1>3 DEF LostOnlyByEnd, MoveFrame, PTypeOK, HandlingInv, Row
<1> QED
  BY <1>1, <1>4, <1>5, <1>6, <1>7 DEF MoveFrame

\* A packet is refused: no message is touched and the thread is not gone.
LEMMA LimitExceededKeepsMInv ==
    ASSUME MInv, NEW c \in Conns, LimitExceeded(c)
    PROVE  MInv'
<1> USE DEF MInv
<1>1. MoveFrame(c)
  BY MessageFrame DEF MessageStep
<1>2. UNCHANGED messages /\ pc[c] = "serve" /\ pc'[c] = "recv"
  BY DEF LimitExceeded, Finish, PTypeOK, TypeOK
<1>3. PTypeOK'
  BY <1>1, <1>2 DEF PTypeOK, messages, MoveFrame, RInv, IInv
<1>4. DeliveredInv' /\ ReceivedWhereIssued' /\ HandlingInv' /\ OneHandler'
  BY <1>1, <1>2, <1>3
     DEF DeliveredInv, ReceivedWhereIssued, HandlingInv, OneHandler, messages, MoveFrame
<1>5. LostOnlyByEnd'
  BY <1>1, <1>2 DEF LostOnlyByEnd, messages, MoveFrame, PTypeOK, Row
<1> QED
  BY <1>1, <1>3, <1>4, <1>5 DEF MoveFrame

\* A step inside the handler that only fills in a local: the lookups.
LEMMA LookupKeepsMInv ==
    ASSUME MInv, NEW c \in Conns, Look(c) \/ Find(c)
    PROVE  MInv'
<1> USE DEF MInv
<1>1. MoveFrame(c)
  BY MessageFrame DEF MessageStep
<1>2. /\ pc' = pc /\ msg' = msg /\ stage[c] # "none" /\ pc[c] = "pm"
      /\ UNCHANGED <<handling, stored, received, failed>>
  BY DEF Look, Find, AtStage, vars, threads
<1>3. CASE Look(c)
  <2>1. /\ stage[c] = "look"
        /\ stage' = [stage EXCEPT ![c] = "check"]
        /\ found' \in [Conns -> Tokens \cup {NoToken}]
        /\ \A d \in Conns : d # c => found'[d] = found[d]
        /\ socket' = socket
    <3>1. msg[c].user \in Users
      <4>1. msg[c] \in Request /\ msg[c].type = "PM"
        BY <1>2 DEF PTypeOK, TypeOK, HandlingInv
      <4> QED
        BY <4>1 DEF Request
    <3>2. user_to_token'[msg[c].user] = user_to_token[msg[c].user]
      BY <1>3 DEF Look, vars, registry
    <3> QED
      BY <1>3, <3>1, <3>2 DEF Look, AtStage, Step, PTypeOK, TypeOK
  <2>2. PTypeOK'
    BY <1>1, <1>2, <2>1 DEF PTypeOK, MoveFrame, RInv, IInv
  <2>3. HandlingInv' /\ OneHandler'
    BY <1>1, <1>2, <2>1 DEF HandlingInv, OneHandler, MoveFrame, PTypeOK
  <2> QED
    BY <1>1, <1>2, <2>2, <2>3
       DEF MoveFrame, DeliveredInv, ReceivedWhereIssued, LostOnlyByEnd
<1>4. CASE Find(c)
  <2>1. found[c] \in Active /\ found[c] \in Tokens /\ stage[c] = "find"
    BY <1>4 DEF Find, AtStage, Active
  <2>2. active_sessions[found[c]].conn \in Conns
    BY <2>1 DEF PTypeOK, TypeOK, Active, Session
  <2>3. /\ stage' = [stage EXCEPT ![c] = "send"]
        /\ socket' = [socket EXCEPT ![c] = active_sessions[found[c]].conn]
        /\ found' = found
    BY <1>4 DEF Find, Step
  <2>4. active_sessions[found[c]].conn = issuedTo[found[c]]
    BY <2>1 DEF RInv, IInv, SocketInv
  <2>5. PTypeOK'
    BY <1>1, <1>2, <2>1, <2>2, <2>3 DEF PTypeOK, MoveFrame, RInv, IInv
  <2>6. HandlingInv' /\ OneHandler'
    BY <1>1, <1>2, <2>1, <2>3, <2>4 DEF HandlingInv, OneHandler, MoveFrame, PTypeOK
  <2> QED
    BY <1>1, <1>2, <2>5, <2>6
       DEF MoveFrame, DeliveredInv, ReceivedWhereIssued, LostOnlyByEnd
<1> QED
  BY <1>3, <1>4

\* The row is inserted: nobody has been sent the message, and it counts as
\* delivered only for a session that is there, whose token was issued.
LEMMA StoreKeepsMInv ==
    ASSUME MInv, NEW c \in Conns, Store(c)
    PROVE  MInv'
<1> DEFINE n == handling[c]
           row == [token |-> found[c], sender |-> c,
                   status |-> IF found[c] \in Active THEN "delivered" ELSE "stored_offline"]
<1> USE MessagesAssumption DEF MInv
<1>1. MoveFrame(c)
  BY MessageFrame DEF MessageStep
<1>2. /\ pc' = pc /\ msg' = msg /\ stage[c] = "check" /\ pc[c] = "pm"
      /\ stage' = [stage EXCEPT ![c] = "tell"]
      /\ UNCHANGED <<handling, found, socket, received, failed>>
  BY DEF Store, AtStage, Step, vars, threads
<1>3. n \in Messages /\ n \notin DOMAIN stored /\ n # NoMessage
  BY <1>2 DEF HandlingInv, PTypeOK
<1>4. row \in Row
  BY DEF Row, PTypeOK
<1>5. /\ DOMAIN stored' = DOMAIN stored \cup {n}
      /\ stored'[n] = row
      /\ \A k \in DOMAIN stored : k # n /\ stored'[k] = stored[k]
  BY <1>3 DEF Store
<1>6. row.token = found[c] /\ row.sender = c /\ (row.status = "delivered" <=> found[c] \in Active)
  OBVIOUS
<1> HIDE DEF row, n
<1>7. PTypeOK'
  BY <1>1, <1>2, <1>3, <1>4, <1>5 DEF PTypeOK, MoveFrame, RInv, IInv
<1>8. OneHandler'
  BY <1>2 DEF OneHandler
<1>9. \A d \in Conns : d # c => handling[d] # n
  BY <1>3 DEF OneHandler, n
<1>10. HandlingInv'
  <2>1. ASSUME NEW d \in Conns, d # c PROVE stage'[d] = stage[d] /\ handling[d] # n
    BY <1>2, <1>9, <2>1 DEF PTypeOK
  <2>2. stage'[c] = "tell" /\ handling'[c] = n
    BY <1>2 DEF PTypeOK, n
  <2> QED
    BY <1>1, <1>2, <1>3, <1>5, <1>6, <2>1, <2>2 DEF HandlingInv, MoveFrame
<1>11. found[c] \in Active => found[c] \in Tokens /\ issuedTo[found[c]] \in Conns
  BY DEF RInv, IInv, SocketInv, Active, TypeOK, Session
<1>12. DeliveredInv'
  BY <1>1, <1>5, <1>6, <1>11 DEF DeliveredInv, MoveFrame
<1>13. ReceivedWhereIssued'
  BY <1>1, <1>2, <1>3, <1>5, <1>7 DEF ReceivedWhereIssued, MoveFrame
<1>14. LostOnlyByEnd'
  BY <1>1, <1>2, <1>3, <1>5 DEF LostOnlyByEnd, MoveFrame, n
<1> QED
  BY <1>1, <1>7, <1>8, <1>10, <1>12, <1>13, <1>14 DEF MoveFrame

\* The handler lets go of its message, and the thread goes on at `label`.
\* Whatever has been pushed or failed by then, a message it handled that is
\* stored as delivered must be accounted for.
LEMMA LeaveKeepsMInv ==
    ASSUME MInv, NEW c \in Conns, NEW label \in {"recv", "final"},
           stage[c] # "none", Leave(c, label), MoveFrame(c),
           stored' = stored, received \subseteq received', failed \subseteq failed',
           PTypeOK', ReceivedWhereIssued',
           handling[c] \in DOMAIN stored /\ stored[handling[c]].status = "delivered" =>
               \/ <<handling[c], issuedTo[stored[handling[c]].token]>> \in received'
               \/ handling[c] \in failed'
               \/ label = "final"
    PROVE  MInv'
<1> USE DEF MInv
<1>1. /\ pc[c] = "pm" /\ pc'[c] = label
      /\ stage' = [stage EXCEPT ![c] = "none"]
      /\ handling' = [handling EXCEPT ![c] = NoMessage]
      /\ \A d \in Conns : d # c => found'[d] = found[d] /\ socket'[d] = socket[d]
  BY DEF Leave, Finish, Step, PTypeOK, TypeOK
<1>2. RInv' /\ DeliveredInv'
  BY DEF MoveFrame, DeliveredInv
<1>3. HandlingInv'
  BY <1>1 DEF HandlingInv, PTypeOK, MoveFrame
<1>4. OneHandler'
  BY <1>1 DEF OneHandler, PTypeOK
<1>5. LostOnlyByEnd'
  <2> SUFFICES ASSUME NEW n \in DOMAIN stored, stored[n].status = "delivered"
               PROVE  \/ \E d \in Conns : handling'[d] = n
                      \/ <<n, issuedTo[stored[n].token]>> \in received'
                      \/ n \in failed'
                      \/ pc'[stored[n].sender] \in {"final", "closed"}
    BY DEF LostOnlyByEnd, MoveFrame
  <2>1. CASE n = handling[c]
    <3>1. stored[n].sender = c
      BY <1>1, <2>1 DEF HandlingInv, PTypeOK
    <3> QED
      BY <1>1, <2>1, <3>1
  <2>2. CASE n # handling[c]
    BY <1>1, <2>2 DEF LostOnlyByEnd, MoveFrame, PTypeOK, Row
  <2> QED
    BY <2>1, <2>2
<1> QED
  BY <1>2, <1>3, <1>4, <1>5

\* Every way out of the handler.
LEMMA HandlerEndKeepsMInv ==
    ASSUME MInv, NEW c \in Conns,
           \/ LookUnknown(c) \/ Tell(c) \/ TellFails(c) \/ FindGone(c)
           \/ Send(c) \/ SendFails(c)
    PROVE  MInv'
<1> USE NullsAssumption, MessagesAssumption DEF MInv
<1>1. MoveFrame(c)
  BY MessageFrame DEF MessageStep
<1>2. stage[c] # "none" /\ stored' = stored
  BY DEF LookUnknown, Tell, TellFails, FindGone, Send, SendFails, AtStage
<1>3. ASSUME NEW label \in {"recv", "final"}, Leave(c, label),
             received' \subseteq Messages \X Conns, failed' \subseteq Messages
      PROVE  PTypeOK'
  <2>1. /\ pc'[c] = label
        /\ stage' = [stage EXCEPT ![c] = "none"]
        /\ handling' = [handling EXCEPT ![c] = NoMessage]
        /\ found' = [found EXCEPT ![c] = NoToken]
        /\ socket' = [socket EXCEPT ![c] = NoConn]
    BY <1>3 DEF Leave, Finish, Step, PTypeOK, TypeOK
  <2> QED
    BY <1>1, <1>2, <1>3, <2>1 DEF PTypeOK, MoveFrame, RInv, IInv
<1>4. ASSUME PTypeOK', received' = received PROVE ReceivedWhereIssued'
  BY <1>1, <1>2, <1>4 DEF ReceivedWhereIssued, MoveFrame
<1>5. CASE LookUnknown(c)
  <2>1. Leave(c, "recv") /\ UNCHANGED <<received, failed>> /\ stage[c] = "look"
    BY <1>5 DEF LookUnknown, AtStage
  <2>2. PTypeOK' /\ ReceivedWhereIssued'
    BY <1>3, <1>4, <2>1 DEF PTypeOK
  <2>3. handling[c] \notin DOMAIN stored
    BY <2>1 DEF HandlingInv
  <2> QED
    BY <1>1, <1>2, <2>1, <2>2, <2>3, LeaveKeepsMInv
<1>6. CASE TellFails(c) \/ FindGone(c)
  <2>1. Leave(c, "final") /\ UNCHANGED <<received, failed>>
    BY <1>6 DEF TellFails, FindGone
  <2>2. PTypeOK' /\ ReceivedWhereIssued'
    BY <1>3, <1>4, <2>1 DEF PTypeOK
  <2> QED
    BY <1>1, <1>2, <2>1, <2>2, LeaveKeepsMInv
<1>7. CASE Tell(c) /\ stored[handling[c]].status # "delivered"
  <2>1. Leave(c, "recv") /\ UNCHANGED <<received, failed>>
    BY <1>7 DEF Tell
  <2>2. PTypeOK' /\ ReceivedWhereIssued'
    BY <1>3, <1>4, <2>1 DEF PTypeOK
  <2> QED
    BY <1>1, <1>2, <1>7, <2>1, <2>2, LeaveKeepsMInv
<1>8. CASE Tell(c) /\ stored[handling[c]].status = "delivered"
  <2>1. /\ pc' = pc /\ msg' = msg /\ stage[c] = "tell"
        /\ stage' = [stage EXCEPT ![c] = "find"]
        /\ UNCHANGED <<handling, found, socket, received, failed>>
    BY <1>8 DEF Tell, AtStage, Step, vars, threads
  <2>2. PTypeOK' /\ ReceivedWhereIssued'
    BY <1>1, <1>2, <1>4, <2>1 DEF PTypeOK, MoveFrame, RInv, IInv
  <2>3. HandlingInv' /\ OneHandler'
    BY <1>1, <1>2, <1>8, <2>1 DEF HandlingInv, OneHandler, MoveFrame, PTypeOK
  <2> QED
    BY <1>1, <1>2, <2>1, <2>2, <2>3 DEF MoveFrame, DeliveredInv, LostOnlyByEnd
<1>9. CASE SendFails(c)
  <2>1. Leave(c, "recv") /\ received' = received /\ failed' = failed \cup {handling[c]}
    BY <1>9 DEF SendFails
  <2>2. handling[c] \in Messages
    BY <1>2 DEF HandlingInv, PTypeOK
  <2>3. PTypeOK' /\ ReceivedWhereIssued'
    BY <1>3, <1>4, <2>1, <2>2 DEF PTypeOK
  <2> QED
    BY <1>1, <1>2, <2>1, <2>3, LeaveKeepsMInv
<1>10. CASE Send(c)
  <2>1. /\ Leave(c, "recv") /\ failed' = failed /\ stage[c] = "send"
        /\ received' = received \cup {<<handling[c], socket[c]>>}
    BY <1>10 DEF Send, AtStage
  <2>2. /\ handling[c] \in DOMAIN stored
        /\ stored[handling[c]].status = "delivered"
        /\ socket[c] = issuedTo[stored[handling[c]].token]
    BY <2>1 DEF HandlingInv
  <2>3. handling[c] \in Messages /\ socket[c] \in Conns
    BY <2>2 DEF DeliveredInv, PTypeOK
  <2>4. PTypeOK'
    BY <1>3, <2>1, <2>3 DEF PTypeOK
  <2>5. ReceivedWhereIssued'
    BY <1>1, <1>2, <2>1, <2>2, <2>4 DEF ReceivedWhereIssued, MoveFrame
  <2> QED
    BY <1>1, <1>2, <2>1, <2>2, <2>4, <2>5, LeaveKeepsMInv
<1> QED
  BY <1>5, <1>6, <1>7, <1>8, <1>9, <1>10

-----------------------------------------------------------------------------
(* The theorems *)

\* Every step of the composition preserves the invariant.
LEMMA NextMInv == MInv /\ [PNext]_pvars => MInv'
<1> SUFFICES ASSUME MInv, [PNext]_pvars PROVE MInv'
  OBVIOUS
<1>1. CASE SessionStep /\ UNCHANGED messages
  BY <1>1, SessionKeepsMInv
<1>2. ASSUME NEW c \in Conns, NEW m \in Request, PReceive(c, m) PROVE MInv'
  BY <1>2, ReceiveKeepsMInv
<1>3. ASSUME NEW c \in Conns, MessageStep(c) PROVE MInv'
  BY <1>3, LimitKeepsMInv, LimitExceededKeepsMInv, LookupKeepsMInv, StoreKeepsMInv,
     HandlerEndKeepsMInv DEF MessageStep
<1>4. CASE UNCHANGED pvars
  <2>1. RInv'
    BY NextRegistry DEF MInv
  <2>2. UNCHANGED <<pc, msg, issuedTo, messages>>
    BY <1>4 DEF pvars, vars, threads
  <2>3. PTypeOK'
    BY <2>1, <2>2 DEF MInv, PTypeOK, messages, RInv, IInv
  <2> QED
    BY <2>1, <2>2, <2>3
       DEF MInv, messages, HandlingInv, OneHandler, DeliveredInv, ReceivedWhereIssued,
           LostOnlyByEnd
<1> QED
  BY <1>1, <1>2, <1>3, <1>4 DEF PNext

\* The invariant of the registry, of the handlers' locals and of the table holds
\* in every reachable state of the composition.
THEOREM MessagesInvariance == PSpec => []MInv
BY InitMInv, NextMInv, PTL DEF PSpec

\* A private message is pushed only after it was stored as delivered, and only
\* on the connection the token found at the check was issued for, however many
\* sessions the recipient has had since.
THEOREM ReceivedTheorem == PSpec => []ReceivedWhereIssued
BY MessagesInvariance, PTL DEF MInv

\* A message stored as delivered is pushed, fails to be written, or its sender's
\* connection is over, once no handler works on it any more.
THEOREM LostTheorem == PSpec => []LostOnlyByEnd
BY MessagesInvariance, PTL DEF MInv

\* The composition implements the abstract registry: a move of a thread that
\* handles a message is none of its steps.
THEOREM MessagesImplementRegistry == PSpec => ImplementsRegistry
<1>1. PInit => Registry!Init
  BY NullsAssumption DEF PInit, Init, Registry!Init, Active
<1>2. MInv /\ [PNext]_pvars => [Registry!Next]_Registry!vars
  <2> SUFFICES ASSUME MInv, [PNext]_pvars PROVE AbstractStep
    BY DEF AbstractStep, Registry!vars, Views
  <2>1. CASE [Next]_vars
    BY <2>1, StepImplements DEF MInv
  <2>2. ASSUME NEW c \in Conns, Move(c) PROVE AbstractStep
    BY <2>2 DEF Move, Quiet, registry, AbstractStep, Views, View, Active
  <2> QED
    BY <2>1, <2>2, StepKinds DEF MInv
<1> QED
  BY <1>1, <1>2, MessagesInvariance, PTL DEF PSpec, ImplementsRegistry, Registry!Spec

\* What is proved of the registry alone holds while messages are handled.
THEOREM RegistryInComposition ==
    PSpec => [](SingleSession /\ IndexConsistent /\ PresenceMatchesSession)
<1>1. MInv => SingleSession /\ IndexConsistent
  BY DEF MInv, RInv, IInv, IndexConsistent, SingleSession
<1>2. PInit => PresenceMatchesSession
  BY DEF PInit, Init, PresenceMatchesSession
<1>3. MInv /\ PresenceMatchesSession /\ [PNext]_pvars => PresenceMatchesSession'
  <2> SUFFICES ASSUME MInv, PresenceMatchesSession, [PNext]_pvars
               PROVE  PresenceMatchesSession'
    OBVIOUS
  <2>1. CASE [Next]_vars
    BY <2>1, NextPresence DEF MInv, RInv
  <2>2. ASSUME NEW c \in Conns, Move(c) PROVE PresenceMatchesSession'
    BY <2>2 DEF Move, Quiet, registry, PresenceMatchesSession
  <2> QED
    BY <2>1, <2>2, StepKinds DEF MInv
<1> QED
  BY <1>1, <1>2, <1>3, MessagesInvariance, PTL DEF PSpec
=============================================================================
