--------------------------- MODULE BackendRegistry ---------------------------
(***************************************************************************)
(* The process servers as the Gateway knows them (backend_service.py): the *)
(* dictionary backends, the table backend_servers, the health check, and   *)
(* the control connection of every process server (server/main.py).        *)
(*                                                                         *)
(* register_backend and update_heartbeat write memory and table under one  *)
(* lock and are one step each.  The health check writes the memory under   *)
(* the lock and the table after it, server by server.  The statistics a    *)
(* heartbeat carries are left out: no decision here depends on them.       *)
(***************************************************************************)
EXTENDS Naturals, FiniteSets

CONSTANTS
    Servers,   \* server ids
    MaxBeats,  \* heartbeats the buffers of a control connection hold
    NoEntry

ASSUME BackendAssumption ==
    /\ MaxBeats \in Nat \ {0}
    /\ NoEntry \notin [status : {"alive", "down"}, old : BOOLEAN]

VARIABLES
    proc,     \* a server process: down, registering, linked to the Gateway, or
              \* cut off from it (it never connects a second time)
    backends, \* the Gateway's memory; old: no heartbeat for 15 seconds
    table,    \* backend_servers.status
    beats,    \* heartbeats on their way on the control connection
    acking,   \* the Gateway's thread has an acknowledgement to send
    full,     \* its acknowledgements, which nobody reads, fill the buffers
    late,     \* packets of dead processes the Gateway has yet to read
    marking   \* backends_to_mark_down, as far as not written

control == <<beats, acking, full, late>>
vars    == <<proc, backends, table, control, marking>>

Entry == [status : {"alive", "down"}, old : BOOLEAN]
Fresh == [status |-> "alive", old |-> FALSE]

TypeOK ==
    /\ proc \in [Servers -> {"down", "registering", "linked", "cut"}]
    /\ backends \in [Servers -> Entry \cup {NoEntry}]
    /\ table \in [Servers -> {"none", "alive", "down"}]
    /\ beats \in [Servers -> 0 .. MaxBeats]
    /\ acking \in [Servers -> BOOLEAN] /\ full \in [Servers -> BOOLEAN]
    /\ late \in [Servers -> SUBSET {"register", "beat"}]
    /\ marking \subseteq Servers

Init ==
    /\ proc = [s \in Servers |-> "down"]
    /\ backends = [s \in Servers |-> NoEntry] /\ table = [s \in Servers |-> "none"]
    /\ beats = [s \in Servers |-> 0] /\ full = [s \in Servers |-> FALSE]
    /\ acking = [s \in Servers |-> FALSE] /\ late = [s \in Servers |-> {}]
    /\ marking = {}

Known(s) == backends[s] # NoEntry
Alive    == {s \in Servers : Known(s) /\ backends[s].status = "alive"}

-----------------------------------------------------------------------------
(* What the packets of a server do at the Gateway *)

RegisterBackend(s) ==
    /\ backends' = [backends EXCEPT ![s] = Fresh]
    /\ table' = [table EXCEPT ![s] = "alive"]

\* A variant with a bug: a server that is down stays so in memory.
HeartbeatKeepsStatus(s) ==
    IF Known(s) THEN /\ backends' = [backends EXCEPT ![s].old = FALSE]
                     /\ table' = [table EXCEPT ![s] = "alive"]
                ELSE UNCHANGED <<backends, table>>

\* A heartbeat of a server the Gateway does not know is ignored.
UpdateHeartbeat(s) ==
    IF Known(s) THEN /\ backends' = [backends EXCEPT ![s] = Fresh]
                     /\ table' = [table EXCEPT ![s] = "alive"]
                ELSE UNCHANGED <<backends, table>>

-----------------------------------------------------------------------------
(* Process servers and their control connections *)

Start(s) ==
    /\ proc[s] = "down"
    /\ proc' = [proc EXCEPT ![s] = "registering"]
    /\ UNCHANGED <<backends, table, control, marking>>

Register(s) ==
    /\ proc[s] = "registering"
    /\ proc' = [proc EXCEPT ![s] = "linked"]
    /\ RegisterBackend(s)
    /\ UNCHANGED <<control, marking>>

\* _heartbeat_loop; without a connection the send fails, which is logged.
Beat(s) ==
    /\ proc[s] = "linked" /\ beats[s] < MaxBeats
    /\ beats' = [beats EXCEPT ![s] = @ + 1]
    /\ UNCHANGED <<proc, backends, table, acking, full, late, marking>>

HandleBeat(s) ==
    /\ beats[s] > 0 /\ ~acking[s]
    /\ beats' = [beats EXCEPT ![s] = @ - 1]
    /\ acking' = [acking EXCEPT ![s] = TRUE]
    /\ UpdateHeartbeat(s)
    /\ UNCHANGED <<proc, full, late, marking>>

\* Any acknowledgement may be the last one the buffers take; the thread waits
\* for ever with the next.
SendAck(s) ==
    /\ acking[s] /\ ~full[s]
    /\ acking' = [acking EXCEPT ![s] = FALSE]
    /\ \E last \in BOOLEAN : full' = [full EXCEPT ![s] = last]
    /\ UNCHANGED <<proc, backends, table, beats, late, marking>>

\* What the process has sent may still be read, or is lost with the thread that
\* fails to acknowledge.  Several late heartbeats count as one.
Crash(s) ==
    /\ proc[s] # "down"
    /\ proc' = [proc EXCEPT ![s] = "down"]
    /\ LET sent == IF proc[s] = "registering" THEN {"register"}
                   ELSE IF beats[s] > 0 THEN {"beat"} ELSE {}
       IN  \E some \in SUBSET sent : late' = [late EXCEPT ![s] = @ \cup some]
    /\ beats' = [beats EXCEPT ![s] = 0] /\ full' = [full EXCEPT ![s] = FALSE]
    /\ acking' = [acking EXCEPT ![s] = FALSE]
    /\ UNCHANGED <<backends, table, marking>>

LatePacket(s, p) ==
    /\ p \in late[s]
    /\ late' = [late EXCEPT ![s] = @ \ {p}]
    /\ IF p = "register" THEN RegisterBackend(s) ELSE UpdateHeartbeat(s)
    /\ UNCHANGED <<proc, beats, acking, full, marking>>

-----------------------------------------------------------------------------
(* The health check: _check_timeouts *)

\* 15 seconds without a heartbeat.
Silence(s) ==
    /\ s \in Alive /\ ~backends[s].old
    /\ backends' = [backends EXCEPT ![s].old = TRUE]
    /\ UNCHANGED <<proc, table, control, marking>>

TimedOut == {s \in Alive : backends[s].old}

Scan(marked) ==
    /\ marking = {} /\ marked # {}
    /\ backends' = [s \in Servers |->
                      IF s \in TimedOut THEN [backends[s] EXCEPT !.status = "down"]
                                        ELSE backends[s]]
    /\ marking' = marked
    /\ UNCHANGED <<proc, table, control>>

\* A variant with a bug: only one of the servers found gets into the list.
HealthScanOne == \E s \in TimedOut : Scan({s})

HealthScan == Scan(TimedOut)

HealthWrite(s) ==
    /\ s \in marking
    /\ table' = [table EXCEPT ![s] = "down"]
    /\ marking' = marking \ {s}
    /\ UNCHANGED <<proc, backends, control>>

-----------------------------------------------------------------------------
\* The Gateway dies and starts again: memory and connections are gone.  A
\* process that waits for its registration exits, the others run on.
GatewayRestart ==
    /\ backends' = [s \in Servers |-> NoEntry]
    /\ marking' = {}
    /\ proc' = [s \in Servers |-> CASE proc[s] = "registering" -> "down"
                                    [] proc[s] = "linked" -> "cut"
                                    [] OTHER -> proc[s]]
    /\ beats' = [s \in Servers |-> 0] /\ full' = [s \in Servers |-> FALSE]
    /\ acking' = [s \in Servers |-> FALSE] /\ late' = [s \in Servers |-> {}]
    /\ UNCHANGED table

Control(s) ==
    \/ Start(s) \/ Register(s) \/ Crash(s) \/ Beat(s) \/ HandleBeat(s) \/ SendAck(s)
    \/ \E p \in late[s] : LatePacket(s, p)

Health(s) == Silence(s) \/ HealthWrite(s)

Next ==
    \/ \E s \in Servers : Control(s) \/ Health(s)
    \/ HealthScan
    \/ GatewayRestart

Spec == Init /\ [][Next]_vars

\* The Gateway's threads and the heartbeat loops go on, and a server that is
\* down and of which nothing is left to read becomes silent.
Fairness ==
    /\ WF_vars(HealthScan)
    /\ \A s \in Servers :
          /\ WF_vars(Register(s)) /\ WF_vars(Beat(s)) /\ WF_vars(HandleBeat(s))
          /\ WF_vars(SendAck(s)) /\ WF_vars(\E p \in late[s] : LatePacket(s, p))
          /\ WF_vars(HealthWrite(s))
          /\ WF_vars(proc[s] = "down" /\ late[s] = {} /\ Silence(s))

FairSpec == Spec /\ Fairness

-----------------------------------------------------------------------------
(* Properties *)

\* A server that is down in memory is down in the table, or the health check is
\* about to write it there: heartbeats, registrations, late packets and checks
\* in any order never leave a server that users are routed to but that the
\* health check does not look at any more (update_heartbeat, _check_timeouts).
DownIsWritten ==
    \A s \in Servers : Known(s) /\ backends[s].status = "down"
        => table[s] = "down" \/ s \in marking

\* A server that has died is not alive in the table in the end, if the Gateway
\* that knew it goes on, whatever was still to be read or written when it died.
KnownDeadIsDown ==
    \A s \in Servers :
        <>[](proc[s] = "down" /\ Known(s)) => <>[](table[s] = "down")

\* A server that goes on beating is one users can be routed to, again and again,
\* although the health check may write 'down' after the heartbeat that should
\* have prevented it; until its acknowledgements fill the buffers.
BeatingComesBack ==
    \A s \in Servers :
        proc[s] = "linked" ~> \/ table[s] = "alive" /\ s \in Alive
                              \/ proc[s] # "linked"
                              \/ full[s]
=============================================================================
