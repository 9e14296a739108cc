------------------------ MODULE BackendRegistryProofs ------------------------
(***************************************************************************)
(* Proofs about BackendRegistry for any number of process servers and any  *)
(* size of the buffers: types, and DownIsWritten, which is inductive       *)
(* together with them.                                                     *)
(***************************************************************************)
EXTENDS BackendRegistry, TLAPS

IInv == TypeOK /\ DownIsWritten

\* An entry is no null value, and a fresh one is an entry.
LEMMA EntryFacts ==
    /\ NoEntry \notin Entry
    /\ Fresh \in Entry /\ Fresh.status = "alive"
BY BackendAssumption DEF Entry, Fresh

\* What a registration or a heartbeat writes keeps types, and a server it
\* leaves down in memory is one it has not touched.
LEMMA PacketFacts ==
    ASSUME IInv, NEW s \in Servers, RegisterBackend(s) \/ UpdateHeartbeat(s),
           marking' = marking
    PROVE  /\ backends' \in [Servers -> Entry \cup {NoEntry}]
           /\ table' \in [Servers -> {"none", "alive", "down"}]
           /\ DownIsWritten'
<1>1. CASE UNCHANGED <<backends, table>>
  BY <1>1 DEF IInv, TypeOK, DownIsWritten, Known
<1>2. CASE /\ backends' = [backends EXCEPT ![s] = Fresh]
           /\ table' = [table EXCEPT ![s] = "alive"]
  <2>1. /\ backends' \in [Servers -> Entry \cup {NoEntry}]
        /\ table' \in [Servers -> {"none", "alive", "down"}]
    BY <1>2, EntryFacts DEF IInv, TypeOK
  <2>2. \A t \in Servers : \/ t = s /\ backends'[t].status = "alive"
                           \/ backends'[t] = backends[t] /\ table'[t] = table[t]
    BY <1>2, EntryFacts DEF IInv, TypeOK
  <2>3. DownIsWritten'
    BY <2>2 DEF IInv, DownIsWritten, Known
  <2> QED
    BY <2>1, <2>3
<1> QED
  BY <1>1, <1>2 DEF RegisterBackend, UpdateHeartbeat

-----------------------------------------------------------------------------
\* Before anything has happened no server is known.
LEMMA InitIInv == Init => IInv
BY BackendAssumption DEF Init, IInv, TypeOK, DownIsWritten, Known

\* Every step of the Gateway and of the process servers preserves the invariant.
LEMMA NextIInv == IInv /\ [Next]_vars => IInv'
<1> SUFFICES ASSUME IInv, [Next]_vars PROVE IInv'
  OBVIOUS
<1> USE BackendAssumption DEF IInv
<1>1. ASSUME NEW s \in Servers, Start(s) PROVE IInv'
  BY <1>1 DEF Start, TypeOK, control, DownIsWritten, Known
<1>2. ASSUME NEW s \in Servers, Register(s) PROVE IInv'
  BY <1>2, PacketFacts DEF Register, TypeOK, control
<1>3. ASSUME NEW s \in Servers, Crash(s) PROVE IInv'
  <2>1. late' \in [Servers -> SUBSET {"register", "beat"}]
    <3>1. PICK some \in SUBSET {"register", "beat"} :
             late' = [late EXCEPT ![s] = @ \cup some]
      BY <1>3 DEF Crash
    <3> QED
      BY <3>1 DEF TypeOK
  <2> QED
    BY <1>3, <2>1 DEF Crash, TypeOK, DownIsWritten, Known
<1>4. ASSUME NEW s \in Servers, Beat(s) PROVE IInv'
  BY <1>4 DEF Beat, TypeOK, DownIsWritten, Known
<1>5. ASSUME NEW s \in Servers, HandleBeat(s) PROVE IInv'
  BY <1>5, PacketFacts DEF HandleBeat, TypeOK
<1>6. ASSUME NEW s \in Servers, SendAck(s) PROVE IInv'
  BY <1>6 DEF SendAck, TypeOK, DownIsWritten, Known
<1>7. ASSUME NEW s \in Servers, NEW p \in late[s], LatePacket(s, p) PROVE IInv'
  <2>1. RegisterBackend(s) \/ UpdateHeartbeat(s)
    BY <1>7 DEF LatePacket
  <2> QED
    BY <1>7, <2>1, PacketFacts DEF LatePacket, TypeOK
<1>8. ASSUME NEW s \in Servers, Silence(s) PROVE IInv'
  <2>1. /\ backends[s] \in Entry /\ backends[s].status = "alive"
        /\ [backends[s] EXCEPT !.old = TRUE] \in Entry
        /\ [backends[s] EXCEPT !.old = TRUE].status = "alive"
    BY <1>8 DEF Silence, Alive, Known, TypeOK, Entry
  <2>2. TypeOK'
    BY <1>8, <2>1 DEF Silence, TypeOK, control
  <2>3. DownIsWritten'
    BY <1>8, <2>1 DEF Silence, TypeOK, DownIsWritten, Known
  <2> QED
    BY <2>2, <2>3
<1>9. ASSUME HealthScan PROVE IInv'
  <2>1. \A s \in TimedOut : [backends[s] EXCEPT !.status = "down"] \in Entry
    BY DEF TimedOut, Alive, Known, TypeOK, Entry
  <2>2. TypeOK'
    BY <1>9, <2>1 DEF HealthScan, Scan, TimedOut, Alive, TypeOK, control
  <2>3. DownIsWritten'
    BY <1>9 DEF HealthScan, Scan, TypeOK, DownIsWritten, Known
  <2> QED
    BY <2>2, <2>3
<1>10. ASSUME NEW s \in Servers, HealthWrite(s) PROVE IInv'
  BY <1>10 DEF HealthWrite, TypeOK, control, DownIsWritten, Known
<1>11. ASSUME GatewayRestart PROVE IInv'
  <2>1. proc' \in [Servers -> {"down", "registering", "linked", "cut"}]
    BY <1>11 DEF GatewayRestart, TypeOK
  <2> QED
    BY <1>11, <2>1 DEF GatewayRestart, TypeOK, DownIsWritten, Known
<1>12. CASE UNCHANGED vars
  BY <1>12 DEF vars, control, TypeOK, DownIsWritten, Known
<1> QED
  BY <1>1, <1>2, <1>3, <1>4, <1>5, <1>6, <1>7, <1>8, <1>9, <1>10, <1>11, <1>12
     DEF Next, Control, Health

\* The invariant holds in every reachable state.
THEOREM Invariance == Spec => []IInv
BY InitIInv, NextIInv, PTL DEF Spec

\* The types of the registry and of the control connections.
THEOREM TypeCorrect == Spec => []TypeOK
BY Invariance, PTL DEF IInv

\* Whatever packets, checks, crashes and restarts interleave, a server that is
\* down in memory is down in the table or about to be.
THEOREM DownIsWrittenTheorem == Spec => []DownIsWritten
BY Invariance, PTL DEF IInv
=============================================================================
