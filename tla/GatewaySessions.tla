--------------------------- MODULE GatewaySessions ---------------------------
(***************************************************************************)
(* The session registry of the Gateway (gateway/main.py): the dictionaries *)
(* active_sessions and user_to_token, the presence row of every user, and  *)
(* the threads that change them: one thread per client connection, one     *)
(* pruner, and one thread per backend-control connection.                  *)
(*                                                                         *)
(* A step is what a thread does between two points where another thread    *)
(* can observe it.  Everything inside one "with self.lock" block is one    *)
(* step, except login, whose eviction of the previous session is visible   *)
(* to the unlocked readers before the new session is stored: it takes two  *)
(* steps and holds `lock` in between.  Reads the code makes without the    *)
(* lock are steps of their own, so the window between such a check and its *)
(* use is in the model.                                                    *)
(***************************************************************************)
EXTENDS Naturals, FiniteSets

CONSTANTS
    Users,      \* user names that have an account
    Conns,      \* client connections, each with its handler thread
    Tokens,     \* the tokens uuid4 can return; a login takes an unused one
    Backends,   \* threads that process USER_ROOM_STATUS_UPDATE packets
    Rooms,      \* room names a process server can report
    NoToken, NoSession, NoUpdate, NoThread, NoRow, NoConn, NoMsg, NoUser

-----------------------------------------------------------------------------
(* Data *)

\* A place is the pair (status, active_room) of a presence row: the code
\* always writes the two together.  "online" is (online, waiting), a room r is
\* (in_room, r), "waiting" and "offline" have no room.
Places == {"online", "waiting", "offline"} \cup Rooms

\* stale: last_seen is more than timeout_seconds ago; expired: expires_at has
\* passed.  Both are set by the passage of time (Idle, Expire).
Session == [user : Users, conn : Conns, place : Places,
            stale : BOOLEAN, expired : BOOLEAN]

\* token is the header's token; user is the name a LOGIN or a PRIVATE_MESSAGE
\* _SEND carries.  PING stands for PING and REGISTER, which need no session;
\* QUERY for LIST_ONLINE_USERS, PM_HISTORY_REQUEST, LIST_ROOMS, CREATE_ROOM and
\* JOIN_ROOM, which need one and leave it alone.
Request ==
    [type : {"LOGIN", "PM"}, token : Tokens \cup {NoToken}, user : Users]
    \cup [type : {"LOGOUT", "PING", "QUERY"}, token : Tokens \cup {NoToken},
          user : {NoUser}]

Update == [user : Users, place : Places]

ASSUME NullsAssumption ==
    /\ NoToken \notin Tokens
    /\ NoThread \notin Conns
    /\ NoConn \notin Conns
    /\ NoSession \notin Session
    /\ NoUpdate \notin Update

VARIABLES
    active_sessions,  \* Tokens -> Session or NoSession
    user_to_token,    \* Users -> Tokens or NoToken
    presence,         \* table user_presence: Users -> Places or NoRow
    issuedTo,         \* the connection a token was generated for, or NoConn
    lock,             \* holder of Gateway.lock between two steps
    pc,               \* where each client-connection thread is
    msg,              \* the packet it is handling
    current_token,    \* its local variable current_token
    tokens_to_remove, \* the pruner's list
    update            \* the update each backend thread is between two writes of

registry == <<active_sessions, user_to_token, presence>>
threads  == <<pc, msg, current_token>>
vars     == <<registry, issuedTo, lock, threads, tokens_to_remove, update>>

Active == {t \in Tokens : active_sessions[t] # NoSession}

TypeOK ==
    /\ active_sessions \in [Tokens -> Session \cup {NoSession}]
    /\ user_to_token \in [Users -> Tokens \cup {NoToken}]
    /\ presence \in [Users -> Places \cup {NoRow}]
    /\ issuedTo \in [Tokens -> Conns \cup {NoConn}]
    /\ lock \in Conns \cup {NoThread}
    /\ pc \in [Conns -> {"recv", "touch", "dispatch", "evict", "insert", "reply",
                         "logout", "serve", "pm", "final", "closed"}]
    /\ msg \in [Conns -> Request \cup {NoMsg}]
    /\ \A c \in Conns : pc[c] \in {"recv", "final", "closed"} \/ msg[c] \in Request
    /\ current_token \in [Conns -> Tokens \cup {NoToken}]
    /\ tokens_to_remove \in SUBSET Tokens
    /\ update \in [Backends -> Update \cup {NoUpdate}]

Init ==
    /\ active_sessions = [t \in Tokens |-> NoSession]
    /\ user_to_token = [u \in Users |-> NoToken]
    /\ presence = [u \in Users |-> NoRow]
    /\ issuedTo = [t \in Tokens |-> NoConn]
    /\ lock = NoThread
    /\ pc = [c \in Conns |-> "recv"]
    /\ msg = [c \in Conns |-> NoMsg]
    /\ current_token = [c \in Conns |-> NoToken]
    /\ tokens_to_remove = {}
    /\ update = [b \in Backends |-> NoUpdate]

-----------------------------------------------------------------------------
(* _cleanup_session: a no-op for a token that has no session *)


\* A variant with a bug: the index entry is left behind.
CleanupKeepsIndex(t) ==
    IF t \in Active
    THEN /\ active_sessions' = [active_sessions EXCEPT ![t] = NoSession]
         /\ presence' = [presence EXCEPT ![active_sessions[t].user] = "offline"]
         /\ UNCHANGED user_to_token
    ELSE UNCHANGED registry

Cleanup(t) ==
    IF t \in Active
    THEN LET u == active_sessions[t].user IN
         /\ active_sessions' = [active_sessions EXCEPT ![t] = NoSession]
         /\ user_to_token' = IF user_to_token[u] = t
                             THEN [user_to_token EXCEPT ![u] = NoToken]
                             ELSE user_to_token
         /\ presence' = [presence EXCEPT ![u] = "offline"]
    ELSE UNCHANGED registry

Goto(c, label) ==
    /\ pc' = [pc EXCEPT ![c] = label]
    /\ UNCHANGED msg

\* The packet has been dealt with: back to the receive loop, or out of it.
Finish(c, label) ==
    /\ pc' = [pc EXCEPT ![c] = label]
    /\ msg' = [msg EXCEPT ![c] = NoMsg]

LockFree == lock = NoThread

-----------------------------------------------------------------------------
(* A client connection: the receive loop of _handle_client *)

\* Bound: Tokens is finite, so a LOGIN arrives only while an unused token is
\* left for it besides those the logins under way may take.
LoginsUnderWay ==
    {c \in Conns : pc[c] \in {"touch", "dispatch", "evict", "insert"}
                      /\ msg[c].type = "LOGIN"}

TokenBound ==
    Cardinality({t \in Tokens : issuedTo[t] = NoConn}) > Cardinality(LoginsUnderWay)

\* A packet arrives.  The client puts the token it was given at login, if any,
\* in the header; "token in self.active_sessions" is read without the lock.
Receive(c, m) ==
    /\ pc[c] = "recv"
    /\ m.token # NoToken => issuedTo[m.token] = c
    /\ m.type = "LOGIN" => TokenBound
    /\ msg' = [msg EXCEPT ![c] = m]
    /\ pc' = [pc EXCEPT ![c] = IF m.token \in Active THEN "touch" ELSE "dispatch"]
    /\ UNCHANGED <<registry, issuedTo, lock, current_token, tokens_to_remove, update>>


\* A variant with a bug: the check is not repeated under the lock, and the
\* presence row is rewritten for a session that has ended.
TouchGoneRefreshes(c) ==
    /\ pc[c] = "touch" /\ LockFree
    /\ msg[c].token \notin Active
    /\ \E u \in Users :
          /\ msg[c].type = "LOGIN" => u = msg[c].user
          /\ presence[u] # NoRow
          /\ presence' = [presence EXCEPT ![u] = "online"]
    /\ Finish(c, "final")
    /\ UNCHANGED <<active_sessions, user_to_token, issuedTo, lock, current_token,
                   tokens_to_remove, update>>

\* The session went away between the check and the locked block: the lookup
\* raises KeyError and the connection is torn down.
TouchGone(c) ==
    /\ pc[c] = "touch" /\ LockFree
    /\ msg[c].token \notin Active
    /\ Finish(c, "final")
    /\ UNCHANGED <<registry, issuedTo, lock, current_token, tokens_to_remove, update>>

\* The session is cleaned up and the packet dropped; EXPIRED_TOKEN may fail to
\* be sent, which ends the connection with current_token still set.
TouchExpired(c) ==
    LET t == msg[c].token IN
    /\ pc[c] = "touch" /\ LockFree
    /\ t \in Active /\ active_sessions[t].expired
    /\ Cleanup(t)
    /\ \/ Finish(c, "recv") /\ current_token' = [current_token EXCEPT ![c] = NoToken]
       \/ Finish(c, "final") /\ UNCHANGED current_token
    /\ UNCHANGED <<issuedTo, lock, tokens_to_remove, update>>

\* last_seen is refreshed and the presence row rewritten from the session.
TouchRefresh(c) ==
    LET t == msg[c].token IN
    /\ pc[c] = "touch" /\ LockFree
    /\ t \in Active /\ ~active_sessions[t].expired
    /\ active_sessions' = [active_sessions EXCEPT ![t].stale = FALSE]
    /\ presence' = [presence EXCEPT
                       ![active_sessions[t].user] = active_sessions[t].place]
    /\ Goto(c, "dispatch")
    /\ UNCHANGED <<user_to_token, issuedTo, lock, current_token,
                   tokens_to_remove, update>>

\* authenticate() accepts or refuses the password.
DispatchLogin(c) ==
    /\ pc[c] = "dispatch" /\ msg[c].type = "LOGIN"
    /\ \/ Goto(c, "evict")
       \/ Finish(c, "recv")
    /\ UNCHANGED <<registry, issuedTo, lock, current_token, tokens_to_remove, update>>

DispatchPing(c) ==
    /\ pc[c] = "dispatch" /\ msg[c].type = "PING"
    /\ Finish(c, "recv")
    /\ UNCHANGED <<registry, issuedTo, lock, current_token, tokens_to_remove, update>>

\* The unlocked test of _handle_logout; without a session INVALID_TOKEN is
\* sent, or fails to be, and current_token is dropped once it is.
DispatchLogout(c) ==
    /\ pc[c] = "dispatch" /\ msg[c].type = "LOGOUT"
    /\ \/ msg[c].token \in Active /\ Goto(c, "logout") /\ UNCHANGED current_token
       \/ /\ msg[c].token \notin Active
          /\ \/ Finish(c, "recv") /\ current_token' = [current_token EXCEPT ![c] = NoToken]
             \/ Finish(c, "final") /\ UNCHANGED current_token
    /\ UNCHANGED <<registry, issuedTo, lock, tokens_to_remove, update>>

\* Every other type needs a token with a session, again tested without lock;
\* without one the answer is INVALID_TOKEN.
DispatchOther(c) ==
    /\ pc[c] = "dispatch" /\ msg[c].type \in {"QUERY", "PM"}
    /\ IF msg[c].token \in Active THEN Goto(c, "serve") ELSE Finish(c, "recv")
    /\ UNCHANGED <<registry, issuedTo, lock, current_token, tokens_to_remove, update>>

-----------------------------------------------------------------------------
(* _handle_login, _handle_logout and the unlocked session lookup *)


\* A variant with a bug: the previous session is not ended.
LoginWithoutEvict(c) ==
    /\ pc[c] = "evict" /\ LockFree
    /\ lock' = c
    /\ Goto(c, "insert")
    /\ UNCHANGED <<registry, issuedTo, current_token, tokens_to_remove, update>>

\* The lock is taken and the user's previous session, if any, ended.
LoginEvict(c) ==
    LET old == user_to_token[msg[c].user] IN
    /\ pc[c] = "evict" /\ LockFree
    /\ lock' = c
    /\ Cleanup(old)
    /\ Goto(c, "insert")
    /\ UNCHANGED <<issuedTo, current_token, tokens_to_remove, update>>


\* A variant with a bug: the lock is never released.
LoginInsertKeepsLock(c, t) ==
    LET u == msg[c].user IN
    /\ pc[c] = "insert" /\ lock = c
    /\ issuedTo[t] = NoConn
    /\ issuedTo' = [issuedTo EXCEPT ![t] = c]
    /\ active_sessions' = [active_sessions EXCEPT
          ![t] = [user |-> u, conn |-> c, place |-> "online",
                  stale |-> FALSE, expired |-> FALSE]]
    /\ user_to_token' = [user_to_token EXCEPT ![u] = t]
    /\ presence' = [presence EXCEPT ![u] = "online"]
    /\ msg' = [msg EXCEPT ![c].token = t]
    /\ pc' = [pc EXCEPT ![c] = "reply"]
    /\ UNCHANGED <<lock, current_token, tokens_to_remove, update>>

\* A fresh token, its session, the index entry and the presence row; the lock
\* is released.
LoginInsert(c, t) ==
    LET u == msg[c].user IN
    /\ pc[c] = "insert" /\ lock = c
    /\ issuedTo[t] = NoConn
    /\ issuedTo' = [issuedTo EXCEPT ![t] = c]
    /\ active_sessions' = [active_sessions EXCEPT
          ![t] = [user |-> u, conn |-> c, place |-> "online",
                  stale |-> FALSE, expired |-> FALSE]]
    /\ user_to_token' = [user_to_token EXCEPT ![u] = t]
    /\ presence' = [presence EXCEPT ![u] = "online"]
    /\ lock' = NoThread
    /\ msg' = [msg EXCEPT ![c].token = t]
    /\ pc' = [pc EXCEPT ![c] = "reply"]
    /\ UNCHANGED <<current_token, tokens_to_remove, update>>


\* A variant with a bug: the thread remembers the token the index holds by
\* now, which a login on another connection may have replaced.
LoginReplyReadsIndex(c) ==
    /\ pc[c] = "reply"
    /\ Finish(c, "recv")
    /\ current_token' = [current_token EXCEPT ![c] = user_to_token[msg[c].user]]
    /\ UNCHANGED <<registry, issuedTo, lock, tokens_to_remove, update>>

\* LOGIN_OK is sent.  Only after that does the thread remember the token: if
\* the client is gone the send raises and current_token keeps its old value.
LoginReply(c) ==
    /\ pc[c] = "reply"
    /\ \/ Finish(c, "recv") /\ current_token' = [current_token EXCEPT ![c] = msg[c].token]
       \/ Finish(c, "final") /\ UNCHANGED current_token
    /\ UNCHANGED <<registry, issuedTo, lock, tokens_to_remove, update>>

\* The session ends; LOGOUT_OK may fail to be sent, which ends the connection
\* with current_token still set.
Logout(c) ==
    /\ pc[c] = "logout" /\ LockFree
    /\ Cleanup(msg[c].token)
    /\ \/ Finish(c, "recv") /\ current_token' = [current_token EXCEPT ![c] = NoToken]
       \/ Finish(c, "final") /\ UNCHANGED current_token
    /\ UNCHANGED <<issuedTo, lock, tokens_to_remove, update>>

\* user_id and username are read from the session without the lock: KeyError
\* if it is gone, otherwise the request is served.
ServeGone(c) ==
    /\ pc[c] = "serve" /\ msg[c].token \notin Active
    /\ Finish(c, "final")
    /\ UNCHANGED <<registry, issuedTo, lock, current_token, tokens_to_remove, update>>

ServeQuery(c) ==
    /\ pc[c] = "serve" /\ msg[c].type = "QUERY" /\ msg[c].token \in Active
    /\ Finish(c, "recv")
    /\ UNCHANGED <<registry, issuedTo, lock, current_token, tokens_to_remove, update>>

\* The peer closes, the network fails, or a malformed packet ends the loop.
Disconnect(c) ==
    /\ pc[c] = "recv"
    /\ Finish(c, "final")
    /\ UNCHANGED <<registry, issuedTo, lock, current_token, tokens_to_remove, update>>

\* The finally clause.
Final(c) ==
    /\ pc[c] = "final" /\ LockFree
    /\ Cleanup(current_token[c])
    /\ Finish(c, "closed")
    /\ UNCHANGED <<issuedTo, lock, current_token, tokens_to_remove, update>>

-----------------------------------------------------------------------------
(* Time and the pruner *)

Idle(t) ==
    /\ t \in Active /\ ~active_sessions[t].stale
    /\ active_sessions' = [active_sessions EXCEPT ![t].stale = TRUE]
    /\ UNCHANGED <<user_to_token, presence, issuedTo, lock, threads, tokens_to_remove, update>>

Expire(t) ==
    /\ t \in Active /\ ~active_sessions[t].expired
    /\ active_sessions' = [active_sessions EXCEPT ![t].expired = TRUE]
    /\ UNCHANGED <<user_to_token, presence, issuedTo, lock, threads, tokens_to_remove, update>>


\* A variant with a bug: inactivity is not looked at.
PruneScanExpiredOnly ==
    /\ tokens_to_remove = {} /\ LockFree
    /\ tokens_to_remove' = {t \in Active : active_sessions[t].expired}
    /\ tokens_to_remove' # {}
    /\ UNCHANGED <<registry, issuedTo, lock, threads, update>>

\* The tokens to prune are collected under the lock ...
PruneScan ==
    /\ tokens_to_remove = {} /\ LockFree
    /\ tokens_to_remove' = {t \in Active : \/ active_sessions[t].expired
                                           \/ active_sessions[t].stale}
    /\ tokens_to_remove' # {}
    /\ UNCHANGED <<registry, issuedTo, lock, threads, update>>

\* ... and cleaned up one by one after it was released.
PruneOne(t) ==
    /\ t \in tokens_to_remove /\ LockFree
    /\ Cleanup(t)
    /\ tokens_to_remove' = tokens_to_remove \ {t}
    /\ UNCHANGED <<issuedTo, lock, threads, update>>

-----------------------------------------------------------------------------
(* Backend-control threads: _handle_backend *)

\* VALIDATE_TOKEN ends a session it finds expired; its other answers change
\* nothing.
ValidateExpired(t) ==
    /\ LockFree
    /\ t \in Active /\ active_sessions[t].expired
    /\ Cleanup(t)
    /\ UNCHANGED <<issuedTo, lock, threads, tokens_to_remove, update>>

\* USER_ROOM_STATUS_UPDATE writes the presence row first, without the lock.
\* A process server reports only users that have logged in.
UpdatePresence(b, u, p) ==
    /\ update[b] = NoUpdate
    /\ presence[u] # NoRow
    /\ presence' = [presence EXCEPT ![u] = p]
    /\ update' = [update EXCEPT ![b] = [user |-> u, place |-> p]]
    /\ UNCHANGED <<active_sessions, user_to_token, issuedTo, lock, threads,
                   tokens_to_remove>>

\* ... and then the session the user has by now, if any, under the lock.
UpdateSession(b) ==
    /\ update[b] # NoUpdate /\ LockFree
    /\ LET t == user_to_token[update[b].user] IN
       active_sessions' = IF t \in Active
                          THEN [active_sessions EXCEPT ![t].place = update[b].place]
                          ELSE active_sessions
    /\ update' = [update EXCEPT ![b] = NoUpdate]
    /\ UNCHANGED <<user_to_token, presence, issuedTo, lock, threads, tokens_to_remove>>

-----------------------------------------------------------------------------
ClientStep(c) ==
    \/ TouchGone(c) \/ TouchExpired(c) \/ TouchRefresh(c)
    \/ DispatchLogin(c) \/ DispatchPing(c) \/ DispatchLogout(c) \/ DispatchOther(c)
    \/ LoginEvict(c) \/ (\E t \in Tokens : LoginInsert(c, t)) \/ LoginReply(c)
    \/ Logout(c) \/ ServeGone(c) \/ ServeQuery(c)
    \/ Final(c)

Prune == PruneScan \/ \E t \in Tokens : PruneOne(t)

BackendStep(b) == UpdateSession(b)

SessionStep ==
    \/ \E c \in Conns : ClientStep(c) \/ Disconnect(c)
    \/ \E t \in Tokens : Idle(t) \/ Expire(t) \/ ValidateExpired(t)
    \/ Prune
    \/ \E b \in Backends : BackendStep(b)
    \/ \E b \in Backends, u \in Users, p \in Places \ {"online"} : UpdatePresence(b, u, p)

Next ==
    \/ SessionStep
    \/ \E c \in Conns, m \in Request : m.type # "PM" /\ Receive(c, m)

Spec == Init /\ [][Next]_vars

\* Every thread that can run eventually does: the handler threads (once a
\* packet has arrived), the pruner, which wakes up every minute, and the
\* backend-control threads.  A session nobody uses eventually becomes stale.
Fairness ==
    /\ \A c \in Conns : WF_vars(ClientStep(c))
    /\ \A b \in Backends : WF_vars(BackendStep(b))
    /\ WF_vars(PruneScan)
    /\ \A t \in Tokens : WF_vars(PruneOne(t)) /\ WF_vars(Idle(t))

FairSpec == Spec /\ Fairness

-----------------------------------------------------------------------------
(* Safety *)

\* A user name never has two sessions, whatever the interleaving of logins,
\* logouts, disconnects, expiry and pruning on several connections
\* (_handle_login evicts the previous session under the lock).
SingleSession ==
    \A t1, t2 \in Active :
        active_sessions[t1].user = active_sessions[t2].user => t1 = t2

\* user_to_token and active_sessions are inverse to each other at all times:
\* an index entry names a live session of that user, and a live session is the
\* one the index names.  The conditional delete in _cleanup_session and the
\* pair of writes in _handle_login keep it.
IndexConsistent ==
    /\ \A u \in Users : user_to_token[u] # NoToken =>
          /\ user_to_token[u] \in Active
          /\ active_sessions[user_to_token[u]].user = u
    /\ \A t \in Active : user_to_token[active_sessions[t].user] = t

\* While no room server reports anything (Backends = {}), the presence row of
\* a user with a session shows what the session says, and a user without one
\* is offline: no late refresh by a handler thread and no clean-up of an old
\* session may overwrite the row of a newer login.
PresenceMatchesSession ==
    Backends = {} =>
        \A u \in Users :
            IF user_to_token[u] = NoToken
            THEN presence[u] \in {NoRow, "offline"}
            ELSE presence[u] = active_sessions[user_to_token[u]].place

\* What may end a session: its expiry, the pruner's list, a LOGOUT that names
\* it, a new login of the same user, or the end of the very connection it was
\* created on.  In particular the finally clause of a connection whose session
\* was taken over by a later login leaves the later session alone.
EndsOnlyByOwner ==
    [][\A t \in Active : t \notin Active' =>
          \/ active_sessions[t].expired
          \/ t \in tokens_to_remove
          \/ \E c \in Conns : pc[c] = "logout" /\ msg[c].token = t
          \/ \E c \in Conns : /\ pc[c] = "evict" /\ lock' = c
                              /\ msg[c].user = active_sessions[t].user
          \/ \E c \in Conns : /\ pc[c] = "final" /\ pc'[c] = "closed"
                              /\ active_sessions[t].conn = c]_vars

-----------------------------------------------------------------------------
(* The abstract registry this one implements *)

\* What a client or a process server can tell of the session of a token: the
\* token, last_seen and expires_at stay inside.
View(t) == [user |-> active_sessions[t].user, conn |-> active_sessions[t].conn,
            place |-> active_sessions[t].place]

Registry == INSTANCE SessionRegistry
    WITH sessions <- {View(t) : t \in Active}, shown <- presence

\* The two dictionaries, the lock and the threads implement the registry of
\* SessionRegistry: however a login's eviction, a late clean-up and an unlocked
\* check interleave, what can be observed changes only by whole logins, ends,
\* refreshes and reports.
ImplementsRegistry == Registry!Spec

-----------------------------------------------------------------------------
(* Liveness, under FairSpec *)

\* A session does not outlive its connection for ever, not even when the
\* thread never learned its token (the LOGIN_OK could not be sent, or a second
\* login on the connection replaced current_token): the pruner finds it.
NoSessionLeak ==
    \A t \in Tokens, c \in Conns :
        (pc[c] = "closed" /\ t \in Active /\ active_sessions[t].conn = c)
            ~> (t \notin Active)

\* The handling of a packet ends: no handler thread waits for the lock for ever.
PacketHandled ==
    \A c \in Conns :
        (pc[c] \notin {"recv", "closed"}) ~> (pc[c] \in {"recv", "closed"})
=============================================================================
