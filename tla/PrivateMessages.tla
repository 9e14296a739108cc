--------------------------- MODULE PrivateMessages ---------------------------
(***************************************************************************)
(* PRIVATE_MESSAGE_SEND at the Gateway (gateway/main.py, pm_service.py):   *)
(* the handler thread of the sender looks the recipient's session up,      *)
(* stores the message with the status that follows from it, tells the      *)
(* sender, looks the session up again and writes to its socket.  None of   *)
(* this is done under the lock, and every session may come and go in       *)
(* between as GatewaySessions says.                                        *)
(***************************************************************************)
EXTENDS GatewaySessions

CONSTANTS
    Types,       \* the requests each client sends in an instance
    Messages,    \* bound: the messages that are ever sent
    NoMessage

ASSUME MessagesAssumption ==
    /\ Types \in [Conns -> SUBSET {"LOGIN", "PM", "LOGOUT", "PING", "QUERY"}]
    /\ NoMessage \notin Messages

VARIABLES
    stage,      \* where _handle_private_message_send is, "none" outside of it
    handling,   \* the message it handles
    found,      \* its locals recipient_token ...
    socket,     \* ... and recipient_conn
    stored,     \* table private_messages, with the token and the sender's
                \* connection remembered for the properties
    received,   \* message and connection of each PRIVATE_MESSAGE_RECEIVED
    failed      \* the messages whose write to the recipient failed

messages == <<stage, handling, found, socket, stored, received, failed>>
pvars    == <<vars, messages>>

Row == [token : Tokens \cup {NoToken}, sender : Conns, status : {"delivered", "stored_offline"}]

PTypeOK ==
    /\ TypeOK
    /\ stage \in [Conns -> {"none", "look", "check", "store", "tell", "find", "send"}]
    /\ handling \in [Conns -> Messages \cup {NoMessage}]
    /\ found \in [Conns -> Tokens \cup {NoToken}]
    /\ socket \in [Conns -> Conns \cup {NoConn}]
    /\ \A n \in DOMAIN stored : n \in Messages /\ stored[n] \in Row
    /\ received \subseteq Messages \X Conns
    /\ failed \subseteq Messages
    /\ \A c \in Conns : (stage[c] # "none") <=> (pc[c] = "pm")

PInit ==
    /\ Init
    /\ stage = [c \in Conns |-> "none"]
    /\ handling = [c \in Conns |-> NoMessage]
    /\ found = [c \in Conns |-> NoToken]
    /\ socket = [c \in Conns |-> NoConn]
    /\ stored = <<>>
    /\ received = {} /\ failed = {}

-----------------------------------------------------------------------------
(* Before the handler *)

\* A packet of one of the types the client sends arrives.
PReceive(c, m) ==
    /\ m.type \in Types[c]
    /\ Receive(c, m)
    /\ UNCHANGED messages

\* pm_limiter lets the message pass, or RATE_LIMIT_EXCEEDED is sent.
Limit(c, n) ==
    /\ pc[c] = "serve" /\ msg[c].type = "PM" /\ msg[c].token \in Active
    /\ n \notin DOMAIN stored /\ \A d \in Conns : handling[d] # n
    /\ Goto(c, "pm")
    /\ stage' = [stage EXCEPT ![c] = "look"]
    /\ handling' = [handling EXCEPT ![c] = n]
    /\ UNCHANGED <<registry, issuedTo, lock, current_token, tokens_to_remove, update,
                   found, socket, stored, received, failed>>

LimitExceeded(c) ==
    /\ pc[c] = "serve" /\ msg[c].type = "PM" /\ msg[c].token \in Active
    /\ Finish(c, "recv")
    /\ UNCHANGED <<registry, issuedTo, lock, current_token, tokens_to_remove, update, messages>>

-----------------------------------------------------------------------------
(* _handle_private_message_send *)

AtStage(c, s) == pc[c] = "pm" /\ stage[c] = s

Step(c, s) == stage' = [stage EXCEPT ![c] = s]

\* The handler returns to the receive loop, or an exception ends the loop; the
\* message stays in the locals until then.
Leave(c, label) ==
    /\ Finish(c, label)
    /\ Step(c, "none")
    /\ handling' = [handling EXCEPT ![c] = NoMessage]
    /\ found' = [found EXCEPT ![c] = NoToken]
    /\ socket' = [socket EXCEPT ![c] = NoConn]

\* The account is there (get_user_id_by_username) and user_to_token is read.
Look(c) ==
    /\ AtStage(c, "look")
    /\ found' = [found EXCEPT ![c] = user_to_token[msg[c].user]]
    /\ Step(c, "check")
    /\ UNCHANGED <<vars, handling, socket, stored, received, failed>>

\* USER_NOT_FOUND.
LookUnknown(c) ==
    /\ AtStage(c, "look")
    /\ Leave(c, "recv")
    /\ UNCHANGED <<registry, issuedTo, lock, current_token, tokens_to_remove, update,
                   stored, received, failed>>

\* recipient_token is looked up in active_sessions and the row inserted, which
\* no other thread reads in between; store_pm commits it.
Store(c) ==
    /\ AtStage(c, "check")
    /\ stored' = [n \in DOMAIN stored \cup {handling[c]} |->
                     IF n = handling[c]
                     THEN [token |-> found[c], sender |-> c,
                           status |-> IF found[c] \in Active THEN "delivered" ELSE "stored_offline"]
                     ELSE stored[n]]
    /\ Step(c, "tell")
    /\ UNCHANGED <<vars, handling, found, socket, received, failed>>

\* PRIVATE_MESSAGE_STATUS is written to the sender; for a recipient who was
\* offline that is all.
Tell(c) ==
    /\ AtStage(c, "tell")
    /\ IF stored[handling[c]].status = "delivered"
       THEN Step(c, "find") /\ UNCHANGED <<vars, handling, found, socket>>
       ELSE /\ Leave(c, "recv")
            /\ UNCHANGED <<registry, issuedTo, lock, current_token, tokens_to_remove, update>>
    /\ UNCHANGED <<stored, received, failed>>

\* The write to the sender fails, which ends the sender's receive loop: nothing
\* is pushed, although the row says delivered.
TellFails(c) ==
    /\ AtStage(c, "tell")
    /\ Leave(c, "final")
    /\ UNCHANGED <<registry, issuedTo, lock, current_token, tokens_to_remove, update,
                   stored, received, failed>>

\* A variant with a bug: the socket of the sender is taken.
FindSender(c) ==
    /\ AtStage(c, "find") /\ found[c] \in Active
    /\ socket' = [socket EXCEPT ![c] = c]
    /\ Step(c, "send")
    /\ UNCHANGED <<vars, handling, found, stored, received, failed>>

\* active_sessions[recipient_token]["socket"], outside the try ...
Find(c) ==
    /\ AtStage(c, "find") /\ found[c] \in Active
    /\ socket' = [socket EXCEPT ![c] = active_sessions[found[c]].conn]
    /\ Step(c, "send")
    /\ UNCHANGED <<vars, handling, found, stored, received, failed>>

\* ... so that a session that ended since the check is a KeyError, which ends
\* the sender's connection.
FindGone(c) ==
    /\ AtStage(c, "find") /\ found[c] \notin Active
    /\ Leave(c, "final")
    /\ UNCHANGED <<registry, issuedTo, lock, current_token, tokens_to_remove, update,
                   stored, received, failed>>

\* A variant with a bug: a push that finds the recipient's thread busy is
\* given up.
SendWhenIdle(c) ==
    /\ AtStage(c, "send") /\ pc[socket[c]] \notin {"final", "closed"}
    /\ received' = IF pc[socket[c]] = "recv"
                   THEN received \cup {<<handling[c], socket[c]>>} ELSE received
    /\ Leave(c, "recv")
    /\ UNCHANGED <<registry, issuedTo, lock, current_token, tokens_to_remove, update,
                   stored, failed>>

\* PRIVATE_MESSAGE_RECEIVED is written to the recipient's socket, which is open
\* until its handler has left the receive loop ...
Send(c) ==
    /\ AtStage(c, "send") /\ pc[socket[c]] \notin {"final", "closed"}
    /\ received' = received \cup {<<handling[c], socket[c]>>}
    /\ Leave(c, "recv")
    /\ UNCHANGED <<registry, issuedTo, lock, current_token, tokens_to_remove, update,
                   stored, failed>>

\* ... and may be broken before that; the exception is logged.
SendFails(c) ==
    /\ AtStage(c, "send")
    /\ failed' = failed \cup {handling[c]}
    /\ Leave(c, "recv")
    /\ UNCHANGED <<registry, issuedTo, lock, current_token, tokens_to_remove, update,
                   stored, received>>

-----------------------------------------------------------------------------
MessageStep(c) ==
    \/ (\E n \in Messages : Limit(c, n)) \/ LimitExceeded(c)
    \/ Look(c) \/ LookUnknown(c) \/ Store(c)
    \/ Tell(c) \/ TellFails(c) \/ Find(c) \/ FindGone(c)
    \/ Send(c) \/ SendFails(c)

PNext ==
    \/ SessionStep /\ UNCHANGED messages
    \/ \E c \in Conns, m \in Request : PReceive(c, m)
    \/ \E c \in Conns : MessageStep(c)

PSpec == PInit /\ [][PNext]_pvars

\* The threads of GatewaySessions run as they do there, and so does a handler
\* that serves a message.
PFairSpec ==
    /\ PSpec
    /\ \A c \in Conns : WF_pvars((ClientStep(c) /\ UNCHANGED messages) \/ MessageStep(c))
    /\ WF_pvars(PruneScan /\ UNCHANGED messages)
    /\ \A t \in Tokens : /\ WF_pvars(PruneOne(t) /\ UNCHANGED messages)
                         /\ WF_pvars(Idle(t) /\ UNCHANGED messages)

-----------------------------------------------------------------------------
(* Properties *)

\* A private message is pushed only after the table has it as delivered, and
\* only on the connection of the session the recipient had when it was stored:
\* not on a later one that took the name over, nor on the sender's; and the
\* variables have their types.
ReceivedWhereIssued ==
    /\ PTypeOK
    /\ \A n \in Messages, c \in Conns :
          <<n, c>> \in received =>
              /\ n \in DOMAIN stored /\ stored[n].status = "delivered"
              /\ issuedTo[stored[n].token] = c

\* What a row with status "delivered" is worth: once no handler works on the
\* message, the recipient was sent it, or the write to the recipient failed, or
\* the sender's connection is over (the KeyError for a session that ended since
\* the check, and a PRIVATE_MESSAGE_STATUS that could not be written).
LostOnlyByEnd ==
    \A n \in DOMAIN stored :
        LET row == stored[n] IN
        row.status = "delivered" =>
            \/ \E c \in Conns : handling[c] = n
            \/ <<n, issuedTo[row.token]>> \in received
            \/ n \in failed
            \/ pc[row.sender] \in {"final", "closed"}
=============================================================================
