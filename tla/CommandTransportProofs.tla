----------------------- MODULE CommandTransportProofs -----------------------
(***************************************************************************)
(* Proofs about send_command for every number of senders, vehicles,        *)
(* attempts, crashes and gateway restarts.                                 *)
(***************************************************************************)
EXTENDS CommandTransport, TLAPS

Points == Resting \cup InCall

\* A step of a sender inside a call, or one that ends it, keeps the shapes of
\* its locals.
LEMMA LeaveType ==
    ASSUME TypeOK, NEW s \in Senders, NEW point \in Resting, Leave(s, point)
    PROVE  /\ pc' \in [Senders -> Points]
           /\ attempt' \in [Senders -> Nat]
           /\ ack' \in [Senders -> Ack]
           /\ last' \in [Senders -> Nat \cup {Absent}]
           /\ \A t \in Senders : pc'[t] \in InCall
                                   => t # s /\ pc[t] = pc'[t]
BY DEF Leave, Goto, TypeOK, Points, Resting, InCall, Trying, Ack, NoAck

LEMMA FailType ==
    ASSUME TypeOK, NEW s \in Senders, pc[s] \in Trying, AttemptFails(s)
    PROVE  TypeOK'
<1>1. CASE attempt[s] >= MaxAttempts
  <2>1. Leave(s, "raised") /\ "raised" \in Resting
    BY <1>1 DEF AttemptFails, Resting
  <2>2. Record(s, "send_failed") \in [id : Nat, status : Statuses]
    BY DEF Record, Statuses, TypeOK, Command
  <2>3. log' \subseteq [id : Nat, status : Statuses]
    BY <1>1, <2>2 DEF AttemptFails, TypeOK
  <2> QED
    BY <2>1, <2>3, LeaveType
       DEF AttemptFails, TypeOK, Points, bounds, gateway
<1>2. CASE ~(attempt[s] >= MaxAttempts)
  <2>1. attempt' \in [Senders -> Nat]
    BY <1>2 DEF AttemptFails, TypeOK
  <2>2. NoAck \in Ack
    BY DEF NoAck, Ack
  <2>3. ack' \in [Senders -> Ack]
    BY <1>2, <2>2 DEF AttemptFails, TypeOK
  <2>4. last' \in [Senders -> Nat \cup {Absent}]
    BY <1>2 DEF AttemptFails, TypeOK
  <2>5. /\ pc' \in [Senders -> Resting \cup InCall]
        /\ \A t \in Senders : pc'[t] \in InCall
                               => pc[t] \in InCall
    BY <1>2 DEF AttemptFails, Goto, TypeOK, InCall, Trying
  <2>6. /\ cmd' = cmd /\ clock' = clock /\ seen' = seen /\ lastNonce' = lastNonce
        /\ log' = log /\ gwNonce' = gwNonce /\ deliveries' = deliveries /\ acks' = acks
        /\ wire' = wire /\ sends' = sends /\ crashes' = crashes /\ restarts' = restarts
    BY <1>2 DEF AttemptFails, bounds, gateway
  <2> QED BY <2>1, <2>3, <2>4, <2>5, <2>6 DEF TypeOK
<1> QED BY <1>1, <1>2

LEMMA EnvelopeType ==
    ASSUME TypeOK, NEW s \in Senders, NEW v \in Vehicles, NEW p \in Payloads,
           Envelope(s, v, p)
    PROVE  /\ clock' \in Nat /\ lastNonce' = lastNonce /\ gwNonce' \in Nat
           /\ deliveries' = deliveries /\ acks' = acks /\ wire' = wire
           /\ log' = log /\ Purged \in [Keys -> Nat \cup {Absent}]
           /\ sends' \in Nat /\ crashes' \in Nat /\ restarts' \in Nat
           /\ cmd' \in [Senders -> Command]
           /\ cmd'[s].key \in Keys /\ cmd'[s].id = sends + 1
           /\ \A t \in Senders : t # s => cmd'[t] = cmd[t]
<1>1. <<v, p>> \in Keys
  BY DEF Keys
<1>2. [id |-> sends + 1, key |-> <<v, p>>] \in Command
  BY <1>1 DEF Command, TypeOK
<1>3. Purged \in [Keys -> Nat \cup {Absent}]
  BY DEF Purged, TypeOK
<1> QED
  BY <1>1, <1>2, <1>3 DEF Envelope, TypeOK, gateway

\* A call begins: the sender's point changes, its locals keep their shapes.
LEMMA CallType ==
    ASSUME TypeOK, NEW s \in Senders, NEW v \in Vehicles, NEW p \in Payloads,
           Envelope(s, v, p), NEW point \in Points, Goto(s, point),
           seen' \in {seen, Purged}, attempt' \in [Senders -> Nat], UNCHANGED <<ack, last>>
    PROVE  TypeOK'
<1>1. pc' \in [Senders -> Resting \cup InCall]
  BY DEF Goto, TypeOK, Points
<1>2. \A t \in Senders : t # s => pc'[t] = pc[t]
  BY DEF Goto, TypeOK
<1>3. seen' \in [Keys -> Nat \cup {Absent}]
  BY EnvelopeType DEF TypeOK
<1> QED
  BY <1>1, <1>2, <1>3, EnvelopeType DEF TypeOK

LEMMA TypeStep == TypeOK /\ [Next]_vars => TypeOK'
<1> SUFFICES ASSUME TypeOK, [Next]_vars PROVE TypeOK'
  OBVIOUS
<1>1. ASSUME NEW s \in Senders, NEW v \in Vehicles, NEW p \in Payloads,
             CheckRaises(s, v, p) \/ SkipDuplicate(s, v, p)
      PROVE  TypeOK'
  <2>1. Envelope(s, v, p) /\ seen' \in {seen, Purged} /\ UNCHANGED locals
    BY <1>1 DEF CheckRaises, SkipDuplicate
  <2>2. attempt' \in [Senders -> Nat] /\ UNCHANGED <<ack, last>>
    BY <2>1 DEF locals, TypeOK
  <2>3. Goto(s, "raised") \/ Goto(s, "skip")
    BY <1>1 DEF CheckRaises, SkipDuplicate
  <2>4. "raised" \in Points /\ "skip" \in Points
    BY DEF Points, Resting, InCall
  <2> QED BY <2>1, <2>2, <2>3, <2>4, CallType
<1>2. ASSUME NEW s \in Senders, NEW v \in Vehicles, NEW p \in Payloads, Begin(s, v, p)
      PROVE  TypeOK'
  <2>1. attempt' \in [Senders -> Nat] /\ UNCHANGED <<ack, last>>
    BY <1>2 DEF Begin, TypeOK
  <2>2. Goto(s, "post") \/ Goto(s, "returned")
    BY <1>2 DEF Begin
  <2>3. "post" \in Points /\ "returned" \in Points
    BY DEF Points, Resting, InCall, Trying
  <2> QED BY <1>2, <2>1, <2>2, <2>3, CallType DEF Begin
<1>3. ASSUME NEW s \in Senders, Post(s) PROVE TypeOK'
  <2>1. cmd[s].key \in Keys /\ cmd[s].id \in Nat
    BY <1>3 DEF Post, TypeOK, InCall, Trying, Command
  <2>2. wire' \subseteq [id : Nat, key : Keys, attempt : Nat]
    BY <1>3, <2>1 DEF Post, TypeOK
  <2>3. /\ pc' \in [Senders -> Resting \cup InCall]
        /\ \A t \in Senders : pc'[t] \in InCall => pc[t] \in InCall
    BY <1>3 DEF Post, Goto, TypeOK, InCall, Trying
  <2> QED
    BY <1>3, <2>2, <2>3 DEF Post, TypeOK, ledger, locals, bounds
<1>4. ASSUME NEW request \in wire, RequestArrives(request) PROVE TypeOK'
  <2>1. request \in [id : Nat, key : Keys, attempt : Nat]
    BY DEF TypeOK
  <2>2. /\ gwNonce' \in Nat
        /\ deliveries' \subseteq [id : Nat, key : Keys, attempt : Nat]
        /\ wire' \subseteq [id : Nat, key : Keys, attempt : Nat]
        /\ acks' \subseteq Ack
    BY <1>4, <2>1 DEF RequestArrives, TypeOK, Ack
  <2> QED
    BY <1>4, <2>2 DEF RequestArrives, TypeOK, ledger, locals, bounds
<1>5. ASSUME NEW s \in Senders, NoReply(s) PROVE TypeOK'
  BY <1>5, FailType DEF NoReply, Trying
<1>6. ASSUME NEW s \in Senders, NEW a \in acks, CorrelationFails(s, a) PROVE TypeOK'
  BY <1>6, FailType DEF CorrelationFails, Trying
<1>7. ASSUME NEW s \in Senders, NEW a \in acks, Correlates(s, a) PROVE TypeOK'
  BY <1>7 DEF Correlates, Goto, TypeOK, InCall, Trying, ledger, gateway, bounds
<1>8. ASSUME NEW s \in Senders, ReadNonce(s) PROVE TypeOK'
  <2>1. VehicleOf(s) \in Vehicles
    BY <1>8 DEF ReadNonce, TypeOK, InCall, Trying, VehicleOf, Keys
  <2> QED
    BY <1>8, <2>1 DEF ReadNonce, Goto, TypeOK, InCall, Trying, ledger, gateway, bounds
<1>9. ASSUME NEW s \in Senders, NonceRejected(s) PROVE TypeOK'
  BY <1>9, FailType DEF NonceRejected, Trying
<1>10. ASSUME NEW s \in Senders, UpdateNonce(s) PROVE TypeOK'
  <2>1. ack[s].nonce \in Nat
    BY DEF TypeOK, Ack
  <2> QED
    BY <1>10, <2>1 DEF UpdateNonce, Goto, TypeOK, InCall, Trying, gateway, locals, bounds
<1>11. ASSUME NEW s \in Senders, VerifyAccepts(s) PROVE TypeOK'
  BY <1>11 DEF VerifyAccepts, Goto, TypeOK, InCall, Trying, ledger, gateway, locals, bounds
<1>12. ASSUME NEW s \in Senders, VerifyRejects(s) PROVE TypeOK'
  BY <1>12, FailType DEF VerifyRejects, Trying
<1>13. ASSUME NEW s \in Senders, MarkSeen(s) PROVE TypeOK'
  <2>1. clock + KeyTTL \in Nat
    BY TransportAssumption DEF TypeOK
  <2> QED
    BY <1>13, <2>1 DEF MarkSeen, Goto, TypeOK, InCall, Trying, gateway, locals, bounds
<1>14. ASSUME NEW s \in Senders, LogAckOk(s) PROVE TypeOK'
  <2>1. Leave(s, "returned") /\ "returned" \in Resting
    BY <1>14 DEF LogAckOk, Resting
  <2>2. Record(s, "ack_ok") \in [id : Nat, status : Statuses]
    BY DEF Record, Statuses, TypeOK, Command
  <2>3. log' \subseteq [id : Nat, status : Statuses]
    BY <1>14, <2>2 DEF LogAckOk, TypeOK
  <2> QED
    BY <1>14, <2>1, <2>3, LeaveType DEF LogAckOk, TypeOK, Points, gateway, bounds
<1>15. ASSUME NEW s \in Senders, LogDuplicate(s) PROVE TypeOK'
  <2>1. Leave(s, "returned") /\ "returned" \in Resting
    BY <1>15 DEF LogDuplicate, Resting
  <2>2. Record(s, "duplicate_skip") \in [id : Nat, status : Statuses]
    BY DEF Record, Statuses, TypeOK, Command
  <2>3. log' \subseteq [id : Nat, status : Statuses]
    BY <1>15, <2>2 DEF LogDuplicate, TypeOK
  <2> QED
    BY <1>15, <2>1, <2>3, LeaveType DEF LogDuplicate, TypeOK, Points, gateway, bounds
<1>16. ASSUME NEW s \in Senders, Escapes(s) PROVE TypeOK'
  <2>1. Leave(s, "raised") /\ "raised" \in Resting
    BY <1>16 DEF Escapes, Resting
  <2> QED
    BY <1>16, <2>1, LeaveType DEF Escapes, TypeOK, Points, ledger, gateway, bounds
<1>17. ASSUME NEW s \in Senders, Crash(s) PROVE TypeOK'
  <2>1. Leave(s, "idle") /\ "idle" \in Resting
    BY <1>17 DEF Crash, Resting
  <2>2. NoCommand \in Command
    BY DEF NoCommand, Command
  <2> QED
    BY <1>17, <2>1, <2>2, LeaveType DEF Crash, TypeOK, Points, ledger, gateway
<1>18. CASE GatewayRestarts
  BY <1>18, TransportAssumption DEF GatewayRestarts, TypeOK, ledger, locals
<1>19. CASE Tick
  BY <1>19 DEF Tick, TypeOK, ledger, gateway, locals, bounds
<1>20. CASE UNCHANGED vars
  BY <1>20 DEF vars, TypeOK, ledger, gateway, locals, bounds
<1> QED
  BY <1>1, <1>2, <1>3, <1>4, <1>5, <1>6, <1>7, <1>8, <1>9, <1>10, <1>11, <1>12, <1>13,
     <1>14, <1>16, <1>17, <1>18, <1>19, <1>20, <1>15 DEF Next, Call, Progress

LEMMA TypeInit == Init => TypeOK
BY TransportAssumption
   DEF Init, TypeOK, NoCommand, Command, NoAck, Ack, Resting, InCall, Trying, Statuses

\* Every reachable state of the senders, the ledger and the gateway is well
\* typed; in particular a sender inside a call always has its envelope, also
\* after crashes.
THEOREM TypeCorrect == Spec => []TypeOK
BY TypeInit, TypeStep, PTL DEF Spec

-----------------------------------------------------------------------------
(* One process per vehicle: the nonce read is the nonce written against, and *)
(* no other process marks the key a process is busy with.                    *)

Busy(s) == pc[s] \in InCall

NonceIsCurrent == \A s \in Senders : pc[s] = "update" => last[s] = lastNonce[VehicleOf(s)]

ServesItsVehicle == \A s \in Senders : Busy(s) => VehicleOf(s) \in Serves[s]

ExclusiveInv == TypeOK /\ NonceIsCurrent /\ ServesItsVehicle /\ NoResendWhileLive

\* Steps that leave a sender's command, nonce table and keys alone or less live.
LEMMA QuietStep ==
    ASSUME ExclusiveInv, TypeOK',
           \A t \in Senders : Busy(t)' => Busy(t) /\ cmd'[t] = cmd[t],
           \A t \in Senders : pc'[t] = "update" => pc[t] = "update" /\ last'[t] = last[t],
           \A t \in Senders : pc'[t] \in Trying => pc[t] \in Trying,
           \A key \in Keys : Live(key)' => Live(key),
           lastNonce' = lastNonce
    PROVE  ExclusiveInv'
<1>1. NonceIsCurrent'
  BY DEF ExclusiveInv, NonceIsCurrent, VehicleOf, Busy, InCall, Trying
<1>2. ServesItsVehicle'
  BY DEF ExclusiveInv, ServesItsVehicle, VehicleOf
<1>3. NoResendWhileLive'
  <2> SUFFICES ASSUME NEW t \in Senders, pc'[t] \in Trying
               PROVE  ~(seen'[cmd'[t].key] # Absent /\ seen'[cmd'[t].key] >= clock')
    BY DEF NoResendWhileLive, Live
  <2>1. cmd'[t] = cmd[t] /\ pc[t] \in Trying
    BY DEF Busy, InCall
  <2>2. cmd[t].key \in Keys
    BY <2>1 DEF ExclusiveInv, TypeOK, InCall
  <2>3. ~Live(cmd[t].key)
    BY <2>1 DEF ExclusiveInv, NoResendWhileLive
  <2> QED BY <2>1, <2>2, <2>3 DEF Live
<1> QED BY <1>1, <1>2, <1>3 DEF ExclusiveInv

LEMMA ExclusiveFail ==
    ASSUME ExclusiveInv, TypeOK', NEW s \in Senders, pc[s] \in Trying, AttemptFails(s)
    PROVE  ExclusiveInv'
<1>1. /\ \A t \in Senders : t # s => pc'[t] = pc[t] /\ last'[t] = last[t]
      /\ pc'[s] \in {"raised", "post"}
      /\ cmd' = cmd /\ seen' = seen /\ clock' = clock /\ lastNonce' = lastNonce
  BY DEF AttemptFails, Leave, Goto, ExclusiveInv, TypeOK
<1>2. \A key : Live(key)' <=> Live(key)
  BY <1>1 DEF Live
<1>3. \A t \in Senders : Busy(t)' => Busy(t) /\ cmd'[t] = cmd[t]
  BY <1>1 DEF Busy, InCall
<1>4. \A t \in Senders : pc'[t] = "update" => pc[t] = "update" /\ last'[t] = last[t]
  BY <1>1
<1>5. \A t \in Senders : pc'[t] \in Trying => pc[t] \in Trying
  BY <1>1
<1> QED BY <1>1, <1>2, <1>3, <1>4, <1>5, QuietStep

LEMMA ExclusiveLeave ==
    ASSUME ExclusiveInv, TypeOK', NEW s \in Senders, NEW point \in Resting,
           Leave(s, point), \A t \in Senders : t # s => cmd'[t] = cmd[t],
           \A key \in Keys : Live(key)' => Live(key), lastNonce' = lastNonce
    PROVE  ExclusiveInv'
<1>1. /\ \A t \in Senders : t # s => pc'[t] = pc[t] /\ last'[t] = last[t]
      /\ pc'[s] \in Resting
  BY DEF Leave, Goto, ExclusiveInv, TypeOK
<1>2. pc'[s] \notin InCall
  BY <1>1 DEF Resting, Trying, InCall
<1>3. \A t \in Senders : Busy(t)' => Busy(t) /\ cmd'[t] = cmd[t]
  BY <1>1, <1>2 DEF Busy, InCall
<1>4. \A t \in Senders : pc'[t] = "update" => pc[t] = "update" /\ last'[t] = last[t]
  BY <1>1, <1>2 DEF Trying, InCall
<1>5. \A t \in Senders : pc'[t] \in Trying => pc[t] \in Trying
  BY <1>1, <1>2 DEF InCall
<1> QED BY <1>3, <1>4, <1>5, QuietStep

LEMMA EnvelopePurges ==
    ASSUME TypeOK, NEW s \in Senders, NEW v \in Vehicles, NEW p \in Payloads,
           Envelope(s, v, p), seen' \in {seen, Purged}
    PROVE  \A key \in Keys : Live(key)' => Live(key)
BY DEF Envelope, Purged, Live, TypeOK, Absent

\* A call begins, and goes on to send only if its key is not live.
LEMMA ExclusiveCall ==
    ASSUME ExclusiveInv, TypeOK', NEW s \in Senders, NEW v \in Vehicles, NEW p \in Payloads,
           Envelope(s, v, p), seen' \in {seen, Purged}, last' = last,
           NEW point \in {"raised", "returned", "skip", "post"}, Goto(s, point),
           point = "post" => ~Live(<<v, p>>)
    PROVE  ExclusiveInv'
<1>0. TypeOK
  BY DEF ExclusiveInv
<1>1. v \in Serves[s] /\ <<v, p>> \in Keys
  BY DEF Envelope, Keys
<1>2. /\ lastNonce' = lastNonce
      /\ \A t \in Senders : t # s => cmd'[t] = cmd[t] /\ pc'[t] = pc[t]
      /\ cmd'[s].key = <<v, p>> /\ pc'[s] = point
  BY <1>0 DEF Envelope, Goto, TypeOK
<1>3. \A key \in Keys : Live(key)' => Live(key)
  BY <1>0, EnvelopePurges
<1>4. NonceIsCurrent'
  BY <1>2 DEF ExclusiveInv, NonceIsCurrent, VehicleOf
<1>5. ServesItsVehicle'
  BY <1>1, <1>2 DEF ExclusiveInv, ServesItsVehicle, VehicleOf, Busy, InCall
<1>6. NoResendWhileLive'
  <2> SUFFICES ASSUME NEW t \in Senders, pc'[t] \in Trying
               PROVE  ~(seen'[cmd'[t].key] # Absent /\ seen'[cmd'[t].key] >= clock')
    BY DEF NoResendWhileLive, Live
  <2>1. CASE t = s
    BY <1>1, <1>2, <1>3, <2>1 DEF Live, Trying, InCall
  <2>2. CASE t # s
    <3>1. cmd'[t].key \in Keys
      BY DEF TypeOK, Trying, InCall
    <3>2. ~Live(cmd[t].key)
      BY <1>2, <2>2 DEF ExclusiveInv, NoResendWhileLive
    <3> QED BY <1>2, <1>3, <2>2, <3>1, <3>2 DEF Live
  <2> QED BY <2>1, <2>2
<1> QED BY <1>4, <1>5, <1>6 DEF ExclusiveInv

LEMMA ExclusiveStep ==
    ASSUME ExclusiveVehicles
    PROVE  ExclusiveInv /\ [Next]_vars => ExclusiveInv'
<1> SUFFICES ASSUME ExclusiveInv, [Next]_vars PROVE ExclusiveInv'
  OBVIOUS
<1>0. TypeOK /\ TypeOK'
  BY TypeStep DEF ExclusiveInv
<1>1. ASSUME NEW s \in Senders, NEW v \in Vehicles, NEW p \in Payloads,
             CheckRaises(s, v, p) \/ SkipDuplicate(s, v, p)
      PROVE  ExclusiveInv'
  <2>1. Envelope(s, v, p) /\ seen' \in {seen, Purged} /\ last' = last
    BY <1>1 DEF CheckRaises, SkipDuplicate, locals
  <2>2. Goto(s, "raised") \/ Goto(s, "skip")
    BY <1>1 DEF CheckRaises, SkipDuplicate
  <2> QED BY <1>0, <2>1, <2>2, ExclusiveCall
<1>2. ASSUME NEW s \in Senders, NEW v \in Vehicles, NEW p \in Payloads, Begin(s, v, p)
      PROVE  ExclusiveInv'
  <2>1. Envelope(s, v, p) /\ seen' \in {seen, Purged} /\ last' = last /\ ~Live(<<v, p>>)
    BY <1>2 DEF Begin
  <2>2. Goto(s, "post") \/ Goto(s, "returned")
    BY <1>2 DEF Begin
  <2> QED BY <1>0, <2>1, <2>2, ExclusiveCall
<1>3. ASSUME NEW s \in Senders, NEW point \in Trying \ {"update"}, pc[s] \in Trying,
             Goto(s, point), UNCHANGED <<clock, ledger, cmd, last>>
      PROVE  ExclusiveInv'
  <2>1. /\ \A t \in Senders : t # s => pc'[t] = pc[t]
        /\ pc'[s] = point
    BY <1>0, <1>3 DEF Goto, TypeOK
  <2>2. /\ cmd' = cmd /\ last' = last /\ lastNonce' = lastNonce
        /\ \A key : Live(key)' <=> Live(key)
    BY <1>3 DEF ledger, Live
  <2>3. \A t \in Senders : Busy(t)' => Busy(t) /\ cmd'[t] = cmd[t]
    BY <1>3, <2>1, <2>2 DEF Busy, InCall
  <2>4. \A t \in Senders : pc'[t] = "update" => pc[t] = "update" /\ last'[t] = last[t]
    BY <2>1, <2>2
  <2>5. \A t \in Senders : pc'[t] \in Trying => pc[t] \in Trying
    BY <1>3, <2>1
  <2> QED BY <1>0, <2>2, <2>3, <2>4, <2>5, QuietStep
<1>4. ASSUME NEW s \in Senders, ReadNonce(s) PROVE ExclusiveInv'
  <2>1. /\ \A t \in Senders : t # s => pc'[t] = pc[t] /\ last'[t] = last[t]
        /\ pc[s] = "read" /\ pc'[s] = "update" /\ last'[s] = lastNonce[VehicleOf(s)]
        /\ cmd' = cmd /\ lastNonce' = lastNonce /\ seen' = seen /\ clock' = clock
    BY <1>0, <1>4 DEF ReadNonce, Goto, TypeOK, ledger
  <2>2. NonceIsCurrent'
    BY <2>1 DEF ExclusiveInv, NonceIsCurrent, VehicleOf
  <2>3. ServesItsVehicle' /\ NoResendWhileLive'
    BY <2>1 DEF ExclusiveInv, ServesItsVehicle, NoResendWhileLive, VehicleOf, Busy, InCall,
                Trying, Live
  <2> QED BY <1>0, <2>2, <2>3 DEF ExclusiveInv
<1>5. ASSUME NEW s \in Senders, UpdateNonce(s) PROVE ExclusiveInv'
  <2>1. /\ \A t \in Senders : t # s => pc'[t] = pc[t]
        /\ pc[s] = "update" /\ pc'[s] = "verify"
        /\ cmd' = cmd /\ last' = last /\ seen' = seen /\ clock' = clock
        /\ \A v \in Vehicles : v # VehicleOf(s) => lastNonce'[v] = lastNonce[v]
    BY <1>0, <1>5 DEF UpdateNonce, Goto, TypeOK, locals
  <2>2. NonceIsCurrent'
    <3> SUFFICES ASSUME NEW t \in Senders, pc'[t] = "update"
                 PROVE  last[t] = lastNonce'[VehicleOf(t)]
      BY <2>1 DEF NonceIsCurrent, VehicleOf
    <3>1. t # s /\ pc[t] = "update"
      BY <2>1
    <3>2. VehicleOf(t) \in Serves[t] /\ VehicleOf(s) \in Serves[s]
      BY <2>1, <3>1 DEF ExclusiveInv, ServesItsVehicle, Busy, InCall, Trying
    <3>3. VehicleOf(t) # VehicleOf(s)
      BY <3>1, <3>2 DEF ExclusiveVehicles
    <3>4. VehicleOf(t) \in Vehicles
      BY <1>0, <3>1 DEF TypeOK, Trying, InCall, VehicleOf, Keys
    <3> QED
      BY <2>1, <3>1, <3>3, <3>4 DEF ExclusiveInv, NonceIsCurrent
  <2>3. ServesItsVehicle' /\ NoResendWhileLive'
    BY <2>1 DEF ExclusiveInv, ServesItsVehicle, NoResendWhileLive, VehicleOf, Busy, InCall,
                Trying, Live
  <2> QED BY <1>0, <2>2, <2>3 DEF ExclusiveInv
<1>6. ASSUME NEW s \in Senders, MarkSeen(s) PROVE ExclusiveInv'
  <2>1. /\ \A t \in Senders : t # s => pc'[t] = pc[t]
        /\ pc[s] = "mark" /\ pc'[s] = "log"
        /\ cmd' = cmd /\ last' = last /\ lastNonce' = lastNonce /\ clock' = clock
        /\ \A key \in Keys : key # cmd[s].key => seen'[key] = seen[key]
    BY <1>0, <1>6 DEF MarkSeen, Goto, TypeOK, locals
  <2>2. NonceIsCurrent' /\ ServesItsVehicle'
    BY <2>1 DEF ExclusiveInv, NonceIsCurrent, ServesItsVehicle, VehicleOf, Busy, InCall, Trying
  <2>3. NoResendWhileLive'
    <3> SUFFICES ASSUME NEW t \in Senders, pc'[t] \in Trying PROVE ~Live(cmd[t].key)'
      BY <2>1 DEF NoResendWhileLive
    <3>1. t # s /\ pc[t] \in Trying
      BY <2>1 DEF Trying, InCall
    <3>2. VehicleOf(t) \in Serves[t] /\ VehicleOf(s) \in Serves[s]
      BY <2>1, <3>1 DEF ExclusiveInv, ServesItsVehicle, Busy, InCall, Trying
    <3>3. cmd[t].key # cmd[s].key
      BY <3>1, <3>2 DEF ExclusiveVehicles, VehicleOf
    <3>4. cmd[t].key \in Keys
      BY <1>0, <3>1 DEF TypeOK, InCall
    <3> QED
      BY <2>1, <3>1, <3>3, <3>4 DEF ExclusiveInv, NoResendWhileLive, Live
  <2> QED BY <1>0, <2>2, <2>3 DEF ExclusiveInv
<1>7. ASSUME NEW s \in Senders, Post(s) PROVE ExclusiveInv'
  BY <1>3, <1>7 DEF Post, Trying, InCall, ledger, locals
<1>8. ASSUME NEW s \in Senders, NoReply(s) PROVE ExclusiveInv'
  BY <1>0, <1>8, ExclusiveFail DEF NoReply, Trying, InCall
<1>9. ASSUME NEW s \in Senders, NEW a \in acks, CorrelationFails(s, a) PROVE ExclusiveInv'
  BY <1>0, <1>9, ExclusiveFail DEF CorrelationFails, Trying, InCall
<1>10. ASSUME NEW s \in Senders, NEW a \in acks, Correlates(s, a) PROVE ExclusiveInv'
  BY <1>3, <1>10 DEF Correlates, Trying, InCall, ledger
<1>11. ASSUME NEW s \in Senders, NonceRejected(s) PROVE ExclusiveInv'
  BY <1>0, <1>11, ExclusiveFail DEF NonceRejected, Trying, InCall
<1>12. ASSUME NEW s \in Senders, VerifyAccepts(s) PROVE ExclusiveInv'
  BY <1>3, <1>12 DEF VerifyAccepts, Trying, InCall, ledger, locals
<1>13. ASSUME NEW s \in Senders, VerifyRejects(s) PROVE ExclusiveInv'
  BY <1>0, <1>13, ExclusiveFail DEF VerifyRejects, Trying, InCall
<1>14. ASSUME NEW s \in Senders, LogAckOk(s) PROVE ExclusiveInv'
  <2>1. Leave(s, "returned") /\ "returned" \in Resting
    BY <1>14 DEF LogAckOk, Resting
  <2>2. cmd' = cmd /\ lastNonce' = lastNonce /\ \A key : Live(key)' <=> Live(key)
    BY <1>14 DEF LogAckOk, Live
  <2> QED BY <1>0, <2>1, <2>2, ExclusiveLeave
<1>15. ASSUME NEW s \in Senders, LogDuplicate(s) PROVE ExclusiveInv'
  <2>1. Leave(s, "returned") /\ "returned" \in Resting
    BY <1>15 DEF LogDuplicate, Resting
  <2>2. cmd' = cmd /\ lastNonce' = lastNonce /\ \A key : Live(key)' <=> Live(key)
    BY <1>15 DEF LogDuplicate, Live
  <2> QED BY <1>0, <2>1, <2>2, ExclusiveLeave
<1>16. ASSUME NEW s \in Senders, Escapes(s) PROVE ExclusiveInv'
  <2>1. Leave(s, "raised") /\ "raised" \in Resting
    BY <1>16 DEF Escapes, Resting
  <2>2. cmd' = cmd /\ lastNonce' = lastNonce /\ \A key : Live(key)' <=> Live(key)
    BY <1>16 DEF Escapes, Live, ledger
  <2> QED BY <1>0, <2>1, <2>2, ExclusiveLeave
<1>17. ASSUME NEW s \in Senders, Crash(s) PROVE ExclusiveInv'
  <2>1. Leave(s, "idle") /\ "idle" \in Resting
    BY <1>17 DEF Crash, Resting
  <2>2. /\ \A t \in Senders : t # s => cmd'[t] = cmd[t]
        /\ lastNonce' = lastNonce /\ \A key : Live(key)' <=> Live(key)
    BY <1>0, <1>17 DEF Crash, Live, ledger, TypeOK
  <2> QED BY <1>0, <2>1, <2>2, ExclusiveLeave
<1>18. ASSUME pc' = pc, cmd' = cmd, last' = last, lastNonce' = lastNonce,
              \A key \in Keys : Live(key)' => Live(key)
       PROVE  ExclusiveInv'
  <2>1. \A t \in Senders : Busy(t)' => Busy(t) /\ cmd'[t] = cmd[t]
    BY <1>18 DEF Busy, InCall
  <2> QED BY <1>0, <1>18, <2>1, QuietStep
<1>19. CASE GatewayRestarts
  BY <1>18, <1>19 DEF GatewayRestarts, ledger, locals, Live
<1>20. CASE Tick
  <2>1. \A key \in Keys : Live(key)' => Live(key)
    BY <1>0, <1>20 DEF Tick, ledger, Live, TypeOK, Absent
  <2> QED BY <1>18, <1>20, <2>1 DEF Tick, ledger, locals
<1>21. ASSUME NEW request \in wire, RequestArrives(request) PROVE ExclusiveInv'
  BY <1>18, <1>21 DEF RequestArrives, ledger, locals, Live
<1>22. CASE UNCHANGED vars
  BY <1>18, <1>22 DEF vars, ledger, locals, Live
<1> QED
  BY <1>1, <1>2, <1>4, <1>5, <1>6, <1>7, <1>8, <1>9, <1>10, <1>11, <1>12, <1>13, <1>14,
     <1>16, <1>17, <1>19, <1>20, <1>22, <1>15, <1>21 DEF Next, Call, Progress

LEMMA ExclusiveInit == Init => ExclusiveInv
BY TypeInit
   DEF Init, ExclusiveInv, NonceIsCurrent, ServesItsVehicle, NoResendWhileLive, Busy, InCall, Trying

\* With one process per vehicle the remembered nonce of every vehicle only grows
\* and by at most the window, for any number of senders, crashes, lost or crossed
\* acknowledgements and gateway restarts.
THEOREM NoncesOnlyGrow ==
    ASSUME ExclusiveVehicles
    PROVE  Spec => NonceMonotone
<1> DEFINE Grows == \A v \in Vehicles :
         lastNonce'[v] # lastNonce[v] /\ lastNonce[v] # Absent =>
            lastNonce'[v] > lastNonce[v] /\ lastNonce'[v] <= lastNonce[v] + NonceWindow
<1>1. ExclusiveInv /\ [Next]_vars => [Grows]_vars
  <2> SUFFICES ASSUME ExclusiveInv, [Next]_vars, NEW v \in Vehicles,
                      lastNonce'[v] # lastNonce[v], lastNonce[v] # Absent
               PROVE  lastNonce'[v] > lastNonce[v] /\ lastNonce'[v] <= lastNonce[v] + NonceWindow
    OBVIOUS
  <2>1. \E s \in Senders : UpdateNonce(s)
    <3>1. ASSUME NEW s \in Senders, Call(s) PROVE FALSE
      BY <3>1 DEF Call, CheckRaises, SkipDuplicate, Begin, Envelope
    <3>2. ASSUME NEW s \in Senders, Crash(s) \/ Escapes(s) \/ LogDuplicate(s) \/ Post(s)
          PROVE  FALSE
      BY <3>2 DEF Crash, Escapes, LogDuplicate, Post, ledger
    <3>3. ASSUME NEW s \in Senders, AttemptFails(s) PROVE FALSE
      BY <3>3 DEF AttemptFails
    <3>4. ASSUME NEW s \in Senders, Progress(s) PROVE UpdateNonce(s)
      BY <3>2, <3>3, <3>4
         DEF Progress, NoReply, CorrelationFails, Correlates, ReadNonce, NonceRejected,
             VerifyAccepts, VerifyRejects, MarkSeen, LogAckOk, ledger
    <3>5. ~(GatewayRestarts \/ Tick \/ UNCHANGED vars)
      BY DEF GatewayRestarts, Tick, vars, ledger
    <3>6. ASSUME NEW request \in wire, RequestArrives(request) PROVE FALSE
      BY <3>6 DEF RequestArrives, ledger
    <3> QED BY <3>1, <3>2, <3>4, <3>5, <3>6 DEF Next
  <2>2. PICK s \in Senders : UpdateNonce(s)
    BY <2>1
  <2>3. v = VehicleOf(s) /\ lastNonce'[v] = ack[s].nonce
    BY <2>2 DEF UpdateNonce, ExclusiveInv, TypeOK
  <2>4. last[s] = lastNonce[v] /\ NonceAccepted(s)
    BY <2>2, <2>3 DEF UpdateNonce, ExclusiveInv, NonceIsCurrent
  <2> QED
    BY <2>3, <2>4 DEF NonceAccepted
<1>2. Spec => [][Grows]_vars
  BY <1>1, ExclusiveInit, ExclusiveStep, PTL DEF Spec
<1> QED BY <1>2 DEF NonceMonotone

\* With one process per vehicle no acknowledged command is being sent again while
\* its key is live.
THEOREM NoLiveResend ==
    ASSUME ExclusiveVehicles
    PROVE  Spec => []NoResendWhileLive
<1>1. ExclusiveInv => NoResendWhileLive
  BY DEF ExclusiveInv
<1> QED BY <1>1, ExclusiveInit, ExclusiveStep, PTL DEF Spec

-----------------------------------------------------------------------------
(* One outcome per command, for any number of processes on the ledger.      *)

\* Ids are handed out once, and a command a sender still works on has no record.
OutcomeInv ==
    /\ \A s \in Senders : cmd[s].id <= sends /\ (Busy(s) => cmd[s].id >= 1)
    /\ \A s, t \in Senders : s # t /\ cmd[s].id = cmd[t].id => cmd[s].id = 0
    /\ \A entry \in log : entry.id <= sends
    /\ \A entry \in log, s \in Senders : Busy(s) => entry.id # cmd[s].id
    /\ OneOutcome

\* A step that records nothing and begins no call.
LEMMA OutcomeQuiet ==
    ASSUME OutcomeInv, UNCHANGED <<cmd, sends, log>>, \A t \in Senders : Busy(t)' => Busy(t)
    PROVE  OutcomeInv'
BY DEF OutcomeInv, OneOutcome

\* A call ends with a record.
LEMMA OutcomeRecorded ==
    ASSUME TypeOK, OutcomeInv, NEW s \in Senders, Busy(s), NEW status,
           UNCHANGED <<cmd, sends>>, log' = log \cup {Record(s, status)},
           ~Busy(s)', \A t \in Senders : Busy(t)' => Busy(t)
    PROVE  OutcomeInv'
<1>1. \A entry \in log' : entry \in log \/ entry.id = cmd[s].id
  BY DEF Record
<1>2. \A entry \in log' : entry.id <= sends'
  BY <1>1 DEF OutcomeInv
<1>3. \A entry \in log', t \in Senders : Busy(t)' => entry.id # cmd'[t].id
  BY <1>1 DEF OutcomeInv, TypeOK, Command
<1>4. OneOutcome'
  BY DEF OutcomeInv, OneOutcome, Record
<1> QED BY <1>2, <1>3, <1>4 DEF OutcomeInv

LEMMA OutcomeFails ==
    ASSUME TypeOK, OutcomeInv, NEW s \in Senders, pc[s] \in Trying, AttemptFails(s)
    PROVE  OutcomeInv'
<1>1. cmd' = cmd /\ sends' = sends /\ Busy(s)
  BY DEF AttemptFails, bounds, Busy, InCall
<1>2. CASE attempt[s] >= MaxAttempts
  <2>1. log' = log \cup {Record(s, "send_failed")} /\ pc' = [pc EXCEPT ![s] = "raised"]
    BY <1>2 DEF AttemptFails, Leave, Goto
  <2>2. ~Busy(s)' /\ \A t \in Senders : Busy(t)' => Busy(t)
    BY <2>1 DEF Busy, InCall, Trying, TypeOK
  <2> QED BY <1>1, <2>1, <2>2, OutcomeRecorded
<1>3. CASE ~(attempt[s] >= MaxAttempts)
  <2>1. log' = log /\ pc' = [pc EXCEPT ![s] = "post"]
    BY <1>3 DEF AttemptFails, Goto
  <2>2. \A t \in Senders : Busy(t)' => Busy(t)
    BY <1>1, <2>1 DEF Busy, InCall, TypeOK
  <2> QED BY <1>1, <2>1, <2>2, OutcomeQuiet
<1> QED BY <1>2, <1>3

LEMMA OutcomeCall ==
    ASSUME TypeOK, OutcomeInv, NEW s \in Senders, NEW v \in Vehicles, NEW p \in Payloads,
           Envelope(s, v, p), NEW point, Goto(s, point)
    PROVE  OutcomeInv'
<1>1. /\ cmd'[s].id = sends + 1 /\ \A t \in Senders : t # s => cmd'[t] = cmd[t]
      /\ sends' = sends + 1 /\ sends \in Nat /\ log' = log
  BY EnvelopeType DEF Envelope, TypeOK
<1>2. \A t \in Senders : t # s => (Busy(t)' <=> Busy(t))
  BY DEF Goto, Busy, InCall, TypeOK
<1>3. \A t \in Senders : cmd[t].id \in Nat
  BY DEF TypeOK, Command
<1>4. \A entry \in log : entry.id \in Nat /\ entry.id <= sends
  BY DEF TypeOK, OutcomeInv
<1>5. \A t \in Senders : cmd'[t].id <= sends' /\ (Busy(t)' => cmd'[t].id >= 1)
  BY <1>1, <1>2, <1>3 DEF OutcomeInv
<1>6. \A t, u \in Senders : t # u /\ cmd'[t].id = cmd'[u].id => cmd'[t].id = 0
  BY <1>1, <1>3 DEF OutcomeInv
<1>7. \A entry \in log' : entry.id <= sends'
  BY <1>1, <1>4
<1>8. ASSUME NEW entry \in log', NEW t \in Senders, Busy(t)'
      PROVE  entry.id # cmd'[t].id
  <2>1. CASE t = s
    BY <1>1, <1>4, <2>1
  <2>2. CASE t # s
    BY <1>1, <1>2, <1>8, <2>2 DEF OutcomeInv
  <2> QED BY <2>1, <2>2
<1>9. OneOutcome'
  BY <1>1 DEF OutcomeInv, OneOutcome
<1> QED BY <1>5, <1>6, <1>7, <1>8, <1>9 DEF OutcomeInv

LEMMA OutcomeStep ==
    ASSUME TypeOK, OutcomeInv, [Next]_vars
    PROVE  OutcomeInv'
<1>1. ASSUME NEW s \in Senders, NEW point, point \in Resting \/ Busy(s),
             pc' = [pc EXCEPT ![s] = point], UNCHANGED <<cmd, sends, log>>
      PROVE  OutcomeInv'
  <2>1. \A t \in Senders : Busy(t)' => Busy(t)
    BY <1>1 DEF Busy, InCall, Resting, Trying, TypeOK
  <2> QED BY <1>1, <2>1, OutcomeQuiet
<1>2. ASSUME NEW s \in Senders, \/ Post(s) \/ ReadNonce(s) \/ UpdateNonce(s)
                                \/ VerifyAccepts(s) \/ MarkSeen(s) \/ \E a \in acks : Correlates(s, a)
      PROVE  OutcomeInv'
  <2>1. /\ UNCHANGED <<cmd, sends, log>> /\ Busy(s)
        /\ \E point : pc' = [pc EXCEPT ![s] = point]
    BY <1>2 DEF Post, ReadNonce, UpdateNonce, VerifyAccepts, MarkSeen, Correlates,
                Goto, Busy, InCall, Trying, ledger, gateway, bounds
  <2> QED BY <1>1, <2>1
<1>3. ASSUME NEW s \in Senders, \/ NoReply(s) \/ NonceRejected(s) \/ VerifyRejects(s)
                                \/ \E a \in acks : CorrelationFails(s, a)
      PROVE  OutcomeInv'
  <2>1. pc[s] \in Trying /\ AttemptFails(s)
    BY <1>3 DEF NoReply, NonceRejected, VerifyRejects, CorrelationFails, Trying, InCall
  <2> QED BY <2>1, OutcomeFails
<1>4. ASSUME NEW s \in Senders, LogAckOk(s) \/ LogDuplicate(s)
      PROVE  OutcomeInv'
  <2>1. /\ UNCHANGED <<cmd, sends>> /\ Busy(s)
        /\ \E status : log' = log \cup {Record(s, status)}
        /\ pc' = [pc EXCEPT ![s] = "returned"]
    BY <1>4 DEF LogAckOk, LogDuplicate, Leave, Goto, Busy, InCall, bounds
  <2>2. ~Busy(s)' /\ \A t \in Senders : Busy(t)' => Busy(t)
    BY <2>1 DEF Busy, InCall, Trying, TypeOK
  <2> QED BY <2>1, <2>2, OutcomeRecorded
<1>5. ASSUME NEW s \in Senders, Escapes(s)
      PROVE  OutcomeInv'
  <2>1. UNCHANGED <<cmd, sends, log>> /\ pc' = [pc EXCEPT ![s] = "raised"]
    BY <1>5 DEF Escapes, Leave, Goto, ledger, bounds
  <2> QED BY <1>1, <2>1 DEF Resting
<1>6. ASSUME NEW s \in Senders, Crash(s)
      PROVE  OutcomeInv'
  <2>1. /\ UNCHANGED <<sends, log>> /\ pc' = [pc EXCEPT ![s] = "idle"]
        /\ cmd' = [cmd EXCEPT ![s] = NoCommand] /\ sends \in Nat
    BY <1>6 DEF Crash, Leave, Goto, ledger, TypeOK
  <2>2. ~Busy(s)' /\ \A t \in Senders : t # s => (Busy(t)' <=> Busy(t))
    BY <2>1 DEF Busy, InCall, Trying, TypeOK
  <2>3. cmd'[s].id = 0 /\ \A t \in Senders : t # s => cmd'[t] = cmd[t]
    BY <2>1 DEF NoCommand, TypeOK
  <2>4. \A t \in Senders : cmd'[t].id <= sends' /\ (Busy(t)' => cmd'[t].id >= 1)
    BY <2>1, <2>2, <2>3 DEF OutcomeInv
  <2>5. \A t, u \in Senders : t # u /\ cmd'[t].id = cmd'[u].id => cmd'[t].id = 0
    BY <2>3 DEF OutcomeInv
  <2>6. \A entry \in log', t \in Senders : Busy(t)' => entry.id # cmd'[t].id
    BY <2>1, <2>2, <2>3 DEF OutcomeInv
  <2> QED BY <2>1, <2>4, <2>5, <2>6 DEF OutcomeInv, OneOutcome
<1>7. CASE GatewayRestarts \/ Tick \/ UNCHANGED vars \/ \E request \in wire : RequestArrives(request)
  <2>1. UNCHANGED <<cmd, sends, log, pc>>
    BY <1>7 DEF GatewayRestarts, Tick, RequestArrives, vars, ledger, bounds
  <2> QED BY <2>1, OutcomeQuiet DEF Busy, InCall
<1>8. ASSUME NEW s \in Senders, Call(s)
      PROVE  OutcomeInv'
  BY <1>8, OutcomeCall DEF Call, CheckRaises, SkipDuplicate, Begin
<1> QED BY <1>2, <1>3, <1>4, <1>5, <1>6, <1>7, <1>8 DEF Next, Progress

LEMMA OutcomeInit == Init => OutcomeInv
BY TransportAssumption DEF Init, OutcomeInv, OneOutcome, Busy, InCall, Trying, NoCommand

\* A command has one outcome in the ledger, for any number of processes, attempts
\* and crashes: it is recorded when its call ends, and a call ends once.
THEOREM OutcomesAgree == Spec => []OneOutcome
<1>1. OutcomeInv => OneOutcome
  BY DEF OutcomeInv
<1>2. Spec => []TypeOK
  BY TypeCorrect
<1>3. TypeOK /\ OutcomeInv /\ [Next]_vars => OutcomeInv'
  BY OutcomeStep
<1> QED BY <1>1, <1>2, <1>3, OutcomeInit, PTL DEF Spec

-----------------------------------------------------------------------------
(* Delivery: send_command delivers what it reports as sent, and implements  *)
(* CommandLink, for every number of senders, vehicles, attempts, crashes    *)
(* and gateway restarts.                                                    *)

\* Where a sender is once it took an acknowledgement for its own.
PastAck == {"read", "update", "verify", "mark", "log"}

Delivered(s) == \E d \in deliveries : d.id = cmd[s].id /\ d.key = cmd[s].key

\* Command ids are never reused: not by two senders, not after a crash.
IdsAreFresh ==
    /\ \A s \in Senders : cmd[s].id <= sends
    /\ \A s \in Senders : Busy(s) => cmd[s].id >= 1
    /\ \A s, t \in Senders : s # t /\ cmd[s].id = cmd[t].id => cmd[s].id = 0
    /\ \A d \in wire \cup deliveries : d.id >= 1 /\ d.id <= sends

IdsNameKeys ==
    \A d \in wire \cup deliveries, s \in Senders : d.id = cmd[s].id => d.key = cmd[s].key

AcksAreEarned == \A a \in acks : \E d \in deliveries : d.id = a.id

\* An equal command was delivered.
Equalled(s) == \E d \in deliveries : d.key = cmd[s].key

SkippedIsDelivered == \A s \in Senders : pc[s] = "skip" => Equalled(s)

AckedIsDelivered == \A s \in Senders : pc[s] \in PastAck => Delivered(s)

SeenIsDelivered ==
    \A key \in Keys : seen[key] # Absent => \E d \in deliveries : d.key = key

DeliveryInv ==
    /\ TypeOK
    /\ IdsAreFresh /\ IdsNameKeys /\ AcksAreEarned
    /\ AckedIsDelivered /\ SeenIsDelivered /\ SkippedIsDelivered /\ SuccessMeansDelivered

-----------------------------------------------------------------------------

\* A step that neither takes a command nor delivers one.
LEMMA DeliveryQuiet ==
    ASSUME DeliveryInv, TypeOK',
           UNCHANGED <<cmd, sends, deliveries, acks, wire>>, log \subseteq log',
           \A t \in Senders : Busy(t)' => Busy(t),
           \A t \in Senders : pc'[t] \in PastAck => Delivered(t),
           \A t \in Senders : pc'[t] = "skip" => pc[t] = "skip",
           \A t \in Senders : pc'[t] = "returned" =>
               \/ pc[t] = "returned"
               \/ Delivered(t)
               \/ Equalled(t) /\ Record(t, "duplicate_skip") \in log',
           \A key \in Keys : seen'[key] # Absent =>
                               seen[key] # Absent \/ \E d \in deliveries : d.key = key
    PROVE  DeliveryInv'
<1>1. IdsAreFresh'
  BY DEF DeliveryInv, IdsAreFresh
<1>2. IdsNameKeys' /\ AcksAreEarned'
  BY DEF DeliveryInv, IdsNameKeys, AcksAreEarned
<1>3. AckedIsDelivered'
  BY DEF AckedIsDelivered, Delivered
<1>4. SeenIsDelivered'
  BY DEF DeliveryInv, SeenIsDelivered
<1>5. SuccessMeansDelivered'
  BY DEF DeliveryInv, SuccessMeansDelivered, Delivered, Equalled, Record
<1>6. SkippedIsDelivered'
  BY DEF DeliveryInv, SkippedIsDelivered, Equalled
<1> QED BY <1>1, <1>2, <1>3, <1>4, <1>5, <1>6 DEF DeliveryInv

LEMMA DeliveryFail ==
    ASSUME DeliveryInv, TypeOK', NEW s \in Senders, pc[s] \in Trying, AttemptFails(s)
    PROVE  DeliveryInv'
<1>1. /\ \A t \in Senders : t # s => pc'[t] = pc[t]
      /\ pc'[s] \in {"raised", "post"}
      /\ UNCHANGED <<cmd, sends, deliveries, acks, wire, seen>> /\ log \subseteq log'
  BY DEF AttemptFails, Leave, Goto, DeliveryInv, TypeOK, gateway, bounds
<1>2. \A t \in Senders : Busy(t)' => Busy(t)
  BY <1>1 DEF Busy, InCall
<1>3. \A t \in Senders : pc'[t] \in PastAck => Delivered(t)
  BY <1>1 DEF DeliveryInv, AckedIsDelivered, PastAck
<1>4. \A t \in Senders : pc'[t] = "returned" => pc[t] = "returned"
  BY <1>1
<1>5. \A t \in Senders : pc'[t] = "skip" => pc[t] = "skip"
  BY <1>1
<1> QED BY <1>1, <1>2, <1>3, <1>4, <1>5, DeliveryQuiet

\* One sender moves on, and if it passes the acknowledgement or returns, its
\* command was delivered, or an equal one that it is logged as a duplicate of.
LEMMA DeliveryMove ==
    ASSUME DeliveryInv, TypeOK', NEW s \in Senders, Busy(s), NEW point,
           pc' = [pc EXCEPT ![s] = point],
           point # "skip", point \in PastAck => Delivered(s),
           point = "returned" =>
               Delivered(s) \/ (Equalled(s) /\ Record(s, "duplicate_skip") \in log'),
           UNCHANGED <<cmd, sends, deliveries, acks, wire>>, log \subseteq log',
           \A key \in Keys : seen'[key] # Absent =>
                               seen[key] # Absent \/ \E d \in deliveries : d.key = key
    PROVE  DeliveryInv'
<1>1. /\ \A t \in Senders : t # s => pc'[t] = pc[t]
      /\ pc'[s] = point
  BY DEF DeliveryInv, TypeOK
<1>2. \A t \in Senders : Busy(t)' => Busy(t)
  BY <1>1 DEF Busy, InCall
<1>3. \A t \in Senders : pc'[t] \in PastAck => Delivered(t)
  BY <1>1 DEF DeliveryInv, AckedIsDelivered
<1>4. \A t \in Senders : pc'[t] = "returned" =>
          \/ pc[t] = "returned"
          \/ Delivered(t)
          \/ Equalled(t) /\ Record(t, "duplicate_skip") \in log'
  BY <1>1
<1>5. \A t \in Senders : pc'[t] = "skip" => pc[t] = "skip"
  BY <1>1
<1> QED BY <1>1, <1>2, <1>3, <1>4, <1>5, DeliveryQuiet

\* A new command gets an id nobody has, and nothing was sent under it.
LEMMA DeliveryEnvelope ==
    ASSUME DeliveryInv, TypeOK', NEW s \in Senders, NEW v \in Vehicles, NEW p \in Payloads,
           Envelope(s, v, p), seen' \in {seen, Purged},
           NEW point \in {"raised", "skip", "post"}, Goto(s, point),
           point = "skip" => \E d \in deliveries : d.key = <<v, p>>
    PROVE  DeliveryInv'
<1>1. /\ \A t \in Senders : t # s => cmd'[t] = cmd[t] /\ pc'[t] = pc[t]
      /\ cmd'[s].id = sends + 1 /\ cmd'[s].key = <<v, p>>
      /\ pc'[s] = point
      /\ sends' = sends + 1 /\ sends \in Nat
      /\ UNCHANGED <<deliveries, acks, wire, log>>
  BY DEF DeliveryInv, TypeOK, Envelope, Goto, gateway
<1>2. \A t \in Senders : cmd[t].id \in Nat /\ cmd'[t].id \in Nat
  BY DEF DeliveryInv, TypeOK, Command
<1>3. \A d \in wire \cup deliveries : d.id \in Nat
  BY DEF DeliveryInv, TypeOK
<1>4. \A t \in Senders : t # s => (Busy(t)' <=> Busy(t))
  BY <1>1 DEF Busy
<1>5. IdsAreFresh'
  <2>1. \A t \in Senders : cmd'[t].id <= sends'
    BY <1>1, <1>2 DEF DeliveryInv, IdsAreFresh
  <2>2. \A t \in Senders : Busy(t)' => cmd'[t].id >= 1
    BY <1>1, <1>4 DEF DeliveryInv, IdsAreFresh
  <2>3. ASSUME NEW t \in Senders, NEW u \in Senders, t # u, cmd'[t].id = cmd'[u].id
        PROVE  cmd'[t].id = 0
    BY <1>1, <1>2, <2>3 DEF DeliveryInv, IdsAreFresh
  <2>4. \A d \in wire' \cup deliveries' : d.id >= 1 /\ d.id <= sends'
    BY <1>1, <1>3 DEF DeliveryInv, IdsAreFresh
  <2> QED BY <2>1, <2>2, <2>3, <2>4 DEF IdsAreFresh
<1>6. IdsNameKeys'
  <2> SUFFICES ASSUME NEW d \in wire \cup deliveries, NEW t \in Senders,
                      d.id = cmd'[t].id
               PROVE  d.key = cmd'[t].key
    BY <1>1 DEF IdsNameKeys
  <2>1. t # s
    BY <1>1, <1>3 DEF DeliveryInv, IdsAreFresh
  <2> QED BY <1>1, <2>1 DEF DeliveryInv, IdsNameKeys
<1>7. AcksAreEarned'
  BY <1>1 DEF DeliveryInv, AcksAreEarned
<1>8. AckedIsDelivered'
  BY <1>1 DEF DeliveryInv, AckedIsDelivered, Delivered, PastAck
<1>9. SeenIsDelivered'
  BY <1>1 DEF DeliveryInv, SeenIsDelivered, Purged
<1>10. SuccessMeansDelivered'
  BY <1>1 DEF DeliveryInv, SuccessMeansDelivered, Record
<1>11. SkippedIsDelivered'
  BY <1>1 DEF DeliveryInv, SkippedIsDelivered, Equalled
<1> QED BY <1>5, <1>6, <1>7, <1>8, <1>9, <1>10, <1>11 DEF DeliveryInv

LEMMA DeliveryStep ==
    ASSUME MaxAttempts >= 1
    PROVE  DeliveryInv /\ [Next]_vars => DeliveryInv'
<1> SUFFICES ASSUME DeliveryInv, [Next]_vars PROVE DeliveryInv'
  OBVIOUS
<1>0. TypeOK /\ TypeOK'
  BY TypeStep DEF DeliveryInv
<1>1. ASSUME NEW s \in Senders, NEW v \in Vehicles, NEW p \in Payloads,
             CheckRaises(s, v, p) \/ SkipDuplicate(s, v, p) \/ Begin(s, v, p)
      PROVE  DeliveryInv'
  <2>1. Envelope(s, v, p) /\ seen' \in {seen, Purged}
    BY <1>1 DEF CheckRaises, SkipDuplicate, Begin
  <2>2. CASE CheckRaises(s, v, p)
    BY <1>0, <2>1, <2>2, DeliveryEnvelope DEF CheckRaises
  <2>3. CASE SkipDuplicate(s, v, p)
    <3>1. <<v, p>> \in Keys /\ seen[<<v, p>>] # Absent
      BY <2>3 DEF SkipDuplicate, Live, Keys
    <3>2. \E d \in deliveries : d.key = <<v, p>>
      BY <3>1 DEF DeliveryInv, SeenIsDelivered
    <3> QED BY <1>0, <2>1, <2>3, <3>2, DeliveryEnvelope DEF SkipDuplicate
  <2>4. CASE Begin(s, v, p)
    BY <1>0, <2>1, <2>4, DeliveryEnvelope DEF Begin
  <2> QED BY <1>1, <2>2, <2>3, <2>4
<1>2. ASSUME NEW s \in Senders, LogDuplicate(s) PROVE DeliveryInv'
  <2>1. Equalled(s)
    BY <1>2 DEF LogDuplicate, DeliveryInv, SkippedIsDelivered
  <2> QED
    BY <1>0, <1>2, <2>1, DeliveryMove
       DEF LogDuplicate, Leave, Goto, Busy, InCall, PastAck, gateway, bounds
<1>3. ASSUME NEW s \in Senders, Post(s) PROVE DeliveryInv'
  <2> DEFINE new == [id |-> cmd[s].id, key |-> cmd[s].key, attempt |-> attempt[s]]
  <2>1. /\ Busy(s)
        /\ pc' = [pc EXCEPT ![s] = "await"]
        /\ wire' = wire \cup {new}
        /\ UNCHANGED <<cmd, sends, seen, log, deliveries, acks>>
    BY <1>3 DEF Post, Goto, Busy, InCall, Trying, ledger, bounds
  <2>2. /\ \A t \in Senders : t # s => pc'[t] = pc[t]
        /\ pc'[s] = "await"
    BY <1>0, <2>1 DEF TypeOK
  <2>3. new.id = cmd[s].id /\ new.key = cmd[s].key
    OBVIOUS
  <2> HIDE DEF new
  <2>4. IdsAreFresh'
    BY <1>0, <2>1, <2>2, <2>3 DEF DeliveryInv, IdsAreFresh, Busy
  <2>5. IdsNameKeys'
    <3> SUFFICES ASSUME NEW d \in wire' \cup deliveries', NEW t \in Senders, d.id = cmd[t].id
                 PROVE  d.key = cmd[t].key
      BY <2>1 DEF IdsNameKeys
    <3>1. CASE d \in wire \cup deliveries
      BY <3>1 DEF DeliveryInv, IdsNameKeys
    <3>2. CASE d = new
      <4>1. cmd[s].id # 0 /\ cmd[s].id = cmd[t].id
        BY <1>0, <2>1, <2>3, <3>2 DEF DeliveryInv, IdsAreFresh, TypeOK, Command
      <4>2. t = s
        BY <4>1 DEF DeliveryInv, IdsAreFresh
      <4> QED BY <2>3, <3>2, <4>2
    <3> QED BY <2>1, <3>1, <3>2
  <2>6. AcksAreEarned' /\ SeenIsDelivered'
    BY <2>1 DEF DeliveryInv, AcksAreEarned, SeenIsDelivered
  <2>7. AckedIsDelivered' /\ SkippedIsDelivered'
    BY <2>1, <2>2
       DEF DeliveryInv, AckedIsDelivered, SkippedIsDelivered, Delivered, Equalled, PastAck
  <2>8. SuccessMeansDelivered'
    BY <2>1, <2>2 DEF DeliveryInv, SuccessMeansDelivered, Record
  <2> QED BY <1>0, <2>4, <2>5, <2>6, <2>7, <2>8 DEF DeliveryInv
<1>4. ASSUME NEW request \in wire, RequestArrives(request) PROVE DeliveryInv'
  <2>1. /\ wire' \cup deliveries' = wire \cup deliveries
        /\ deliveries' = deliveries \cup {request}
        /\ acks' = acks \cup {[id |-> request.id, nonce |-> gwNonce + 1]}
        /\ UNCHANGED <<pc, cmd, sends, seen, log>>
    BY <1>4 DEF RequestArrives, ledger, bounds
  <2>2. IdsAreFresh' /\ IdsNameKeys'
    BY <2>1 DEF DeliveryInv, IdsAreFresh, IdsNameKeys, Busy
  <2>3. AcksAreEarned'
    BY <2>1 DEF DeliveryInv, AcksAreEarned
  <2>4. AckedIsDelivered' /\ SeenIsDelivered' /\ SkippedIsDelivered'
    BY <2>1 DEF DeliveryInv, AckedIsDelivered, SeenIsDelivered, SkippedIsDelivered,
                Delivered, Equalled
  <2>5. SuccessMeansDelivered'
    BY <2>1 DEF DeliveryInv, SuccessMeansDelivered, Record
  <2> QED BY <1>0, <2>2, <2>3, <2>4, <2>5 DEF DeliveryInv
<1>5. ASSUME NEW s \in Senders, NoReply(s) PROVE DeliveryInv'
  BY <1>0, <1>5, DeliveryFail DEF NoReply, Trying, InCall
<1>6. ASSUME NEW s \in Senders, NEW a \in acks, CorrelationFails(s, a) PROVE DeliveryInv'
  BY <1>0, <1>6, DeliveryFail DEF CorrelationFails, Trying, InCall
<1>7. ASSUME NEW s \in Senders, NEW a \in acks, Correlates(s, a) PROVE DeliveryInv'
  <2>1. Delivered(s)
    BY <1>7 DEF Correlates, DeliveryInv, AcksAreEarned, IdsNameKeys, Delivered
  <2> QED
    BY <1>0, <1>7, <2>1, DeliveryMove
       DEF Correlates, Goto, Busy, InCall, Trying, ledger, gateway, bounds
<1>8. ASSUME NEW s \in Senders, ReadNonce(s) PROVE DeliveryInv'
  <2>1. Delivered(s)
    BY <1>8 DEF ReadNonce, DeliveryInv, AckedIsDelivered, PastAck
  <2> QED
    BY <1>0, <1>8, <2>1, DeliveryMove
       DEF ReadNonce, Goto, Busy, InCall, Trying, ledger, gateway, bounds
<1>9. ASSUME NEW s \in Senders, NonceRejected(s) PROVE DeliveryInv'
  BY <1>0, <1>9, DeliveryFail DEF NonceRejected, Trying, InCall
<1>10. ASSUME NEW s \in Senders, UpdateNonce(s) PROVE DeliveryInv'
  <2>1. Delivered(s)
    BY <1>10 DEF UpdateNonce, DeliveryInv, AckedIsDelivered, PastAck
  <2> QED
    BY <1>0, <1>10, <2>1, DeliveryMove
       DEF UpdateNonce, Goto, Busy, InCall, Trying, gateway, bounds
<1>11. ASSUME NEW s \in Senders, VerifyAccepts(s) PROVE DeliveryInv'
  <2>1. Delivered(s)
    BY <1>11 DEF VerifyAccepts, DeliveryInv, AckedIsDelivered, PastAck
  <2> QED
    BY <1>0, <1>11, <2>1, DeliveryMove
       DEF VerifyAccepts, Goto, Busy, InCall, Trying, ledger, gateway, bounds
<1>12. ASSUME NEW s \in Senders, VerifyRejects(s) PROVE DeliveryInv'
  BY <1>0, <1>12, DeliveryFail DEF VerifyRejects, Trying, InCall
<1>13. ASSUME NEW s \in Senders, MarkSeen(s) PROVE DeliveryInv'
  <2>1. Delivered(s)
    BY <1>13 DEF MarkSeen, DeliveryInv, AckedIsDelivered, PastAck
  <2>2. \A key \in Keys : seen'[key] # Absent =>
                            seen[key] # Absent \/ \E d \in deliveries : d.key = key
    BY <1>0, <1>13, <2>1 DEF MarkSeen, TypeOK, Delivered
  <2> QED
    BY <1>0, <1>13, <2>1, <2>2, DeliveryMove
       DEF MarkSeen, Goto, Busy, InCall, Trying, gateway, bounds
<1>14. ASSUME NEW s \in Senders, LogAckOk(s) PROVE DeliveryInv'
  <2>1. Delivered(s)
    BY <1>14 DEF LogAckOk, DeliveryInv, AckedIsDelivered, PastAck
  <2>2. /\ Busy(s) /\ pc' = [pc EXCEPT ![s] = "returned"]
        /\ UNCHANGED <<cmd, sends, deliveries, acks, wire>> /\ log \subseteq log'
    BY <1>14 DEF LogAckOk, Leave, Goto, Busy, InCall, gateway, bounds
  <2>3. \A key \in Keys : seen'[key] # Absent =>
                            seen[key] # Absent \/ \E d \in deliveries : d.key = key
    BY <1>14 DEF LogAckOk
  <2>4. pc'[s] = "returned" /\ \A t \in Senders : t # s => pc'[t] = pc[t]
    BY <1>0, <2>2 DEF TypeOK
  <2>5. \A t \in Senders : Busy(t)' => Busy(t)
    BY <2>2, <2>4 DEF Busy
  <2>6. \A t \in Senders : pc'[t] \in PastAck => Delivered(t)
    BY <2>1, <2>4 DEF DeliveryInv, AckedIsDelivered
  <2>7. /\ \A t \in Senders : pc'[t] = "skip" => pc[t] = "skip"
        /\ \A t \in Senders : pc'[t] = "returned" => pc[t] = "returned" \/ Delivered(t)
    BY <2>1, <2>4
  <2> QED BY <1>0, <2>2, <2>3, <2>5, <2>6, <2>7, DeliveryQuiet
<1>15. ASSUME NEW s \in Senders, Escapes(s) PROVE DeliveryInv'
  BY <1>0, <1>15, DeliveryMove
     DEF Escapes, Leave, Goto, Busy, InCall, PastAck, ledger, gateway, bounds
<1>16. ASSUME NEW s \in Senders, Crash(s) PROVE DeliveryInv'
  <2>1. /\ \A t \in Senders : t # s => pc'[t] = pc[t] /\ cmd'[t] = cmd[t]
        /\ pc'[s] = "idle" /\ cmd'[s].id = 0
        /\ UNCHANGED <<sends, deliveries, acks, wire, seen, log>>
    BY <1>0, <1>16 DEF Crash, Leave, Goto, NoCommand, TypeOK, ledger, gateway
  <2>2. sends \in Nat
    BY <1>0 DEF TypeOK
  <2>3. IdsAreFresh'
    <3>1. ASSUME NEW t \in Senders, NEW u \in Senders, t # u, cmd'[t].id = cmd'[u].id
          PROVE  cmd'[t].id = 0
      BY <2>1, <3>1 DEF DeliveryInv, IdsAreFresh
    <3>2. \A t \in Senders : cmd'[t].id <= sends'
      BY <2>1, <2>2 DEF DeliveryInv, IdsAreFresh
    <3>3. \A t \in Senders : Busy(t)' => cmd'[t].id >= 1
      BY <2>1 DEF DeliveryInv, IdsAreFresh, Busy, InCall, Trying
    <3>4. \A d \in wire' \cup deliveries' : d.id >= 1 /\ d.id <= sends'
      BY <2>1 DEF DeliveryInv, IdsAreFresh
    <3> QED BY <3>1, <3>2, <3>3, <3>4 DEF IdsAreFresh
  <2>4. IdsNameKeys'
    BY <2>1 DEF DeliveryInv, IdsAreFresh, IdsNameKeys
  <2>5. AcksAreEarned' /\ SeenIsDelivered'
    BY <2>1 DEF DeliveryInv, AcksAreEarned, SeenIsDelivered
  <2>6. AckedIsDelivered' /\ SkippedIsDelivered'
    BY <2>1
       DEF DeliveryInv, AckedIsDelivered, SkippedIsDelivered, Delivered, Equalled, PastAck
  <2>7. SuccessMeansDelivered'
    BY <2>1 DEF DeliveryInv, SuccessMeansDelivered, Record
  <2> QED BY <1>0, <2>3, <2>4, <2>5, <2>6, <2>7 DEF DeliveryInv
<1>17. ASSUME UNCHANGED <<pc, cmd, sends, deliveries, acks, wire, seen, log>>
       PROVE  DeliveryInv'
  BY <1>0, <1>17, DeliveryQuiet DEF Busy, InCall, DeliveryInv, AckedIsDelivered
<1>18. CASE GatewayRestarts
  BY <1>17, <1>18 DEF GatewayRestarts, ledger
<1>19. CASE Tick
  BY <1>17, <1>19 DEF Tick, ledger, gateway, bounds
<1>20. CASE UNCHANGED vars
  BY <1>17, <1>20 DEF vars, ledger, gateway, bounds
<1> QED
  BY <1>1, <1>2, <1>3, <1>4, <1>5, <1>6, <1>7, <1>8, <1>9, <1>10, <1>11, <1>12, <1>13,
     <1>14, <1>15, <1>16, <1>18, <1>19, <1>20 DEF Next, Call, Progress

LEMMA DeliveryInit == Init => DeliveryInv
<1> SUFFICES ASSUME Init PROVE DeliveryInv
  OBVIOUS
<1>1. TypeOK
  BY TypeInit
<1>2. IdsAreFresh /\ IdsNameKeys /\ AcksAreEarned
  BY DEF Init, IdsAreFresh, IdsNameKeys, AcksAreEarned, NoCommand, Busy, InCall, Trying
<1>3. AckedIsDelivered /\ SeenIsDelivered /\ SkippedIsDelivered /\ SuccessMeansDelivered
  BY DEF Init, AckedIsDelivered, SeenIsDelivered, SkippedIsDelivered,
         SuccessMeansDelivered, PastAck
<1> QED BY <1>1, <1>2, <1>3 DEF DeliveryInv

\* Whenever send_command returns normally the vehicle got this command, or an
\* equal one before it was skipped as a duplicate, for any number of processes
\* on the ledger, also when several of them command one vehicle.  (With
\* max_attempts 0 the loop body never runs and this fails.)
THEOREM SuccessIsDelivery ==
    ASSUME MaxAttempts >= 1
    PROVE  Spec => []SuccessMeansDelivered
<1>1. DeliveryInv => SuccessMeansDelivered
  BY DEF DeliveryInv
<1> QED BY <1>1, DeliveryInit, DeliveryStep, PTL DEF Spec

-----------------------------------------------------------------------------
(* Refinement.                                                             *)

\* A sender that goes on working on its command is a stutter.
LEMMA StaysBusy ==
    ASSUME TypeOK, NEW s \in Senders, pc[s] \notin Resting \cup {"skip"},
           NEW point, point \notin Resting \cup {"skip"}, pc' = [pc EXCEPT ![s] = point]
    PROVE  CallStates' = CallStates
BY DEF CallStates, TypeOK

LEMMA EndsCall ==
    ASSUME TypeOK, NEW s \in Senders, NEW point \in Resting,
           pc' = [pc EXCEPT ![s] = point]
    PROVE  CallStates' = [CallStates EXCEPT ![s] = point]
BY DEF CallStates, TypeOK

\* A sender inside its call is working.
LEMMA Working ==
    ASSUME NEW s \in Senders, pc[s] \in InCall
    PROVE  CallStates[s] \in Link!Working
BY DEF CallStates, InCall, Trying, Resting, Link!Working

\* A step that changes neither requests nor keys leaves the abstract ones alone.
LEMMA SameView ==
    ASSUME UNCHANGED <<deliveries, wire, seen, clock>>
    PROVE  UNCHANGED <<Sent, Executed, LiveKeys>>
BY DEF Sent, Executed, CommandsOf, LiveKeys, Live

\* An attempt that fails ends the call with an exception or is a stutter.
LEMMA FailRefines ==
    ASSUME TypeOK, NEW s \in Senders, pc[s] \in Trying, AttemptFails(s)
    PROVE  Link!Raise(s) \/ UNCHANGED Link!vars
<1>1. /\ UNCHANGED <<cmd, deliveries, wire, seen, clock>>
      /\ pc[s] \notin Resting \cup {"skip"} /\ pc[s] \in InCall
  BY DEF AttemptFails, gateway, InCall, Trying, Resting
<1>2. UNCHANGED <<cmd, Sent, Executed, LiveKeys>>
  BY <1>1, SameView
<1>3. CASE attempt[s] >= MaxAttempts
  <2>1. CallStates' = [CallStates EXCEPT ![s] = "raised"]
    BY <1>3, EndsCall DEF AttemptFails, Leave, Goto, Resting
  <2> QED BY <1>1, <1>2, <2>1, Working DEF Link!Raise
<1>4. CASE ~(attempt[s] >= MaxAttempts)
  <2>1. CallStates' = CallStates
    BY <1>1, <1>4, StaysBusy DEF AttemptFails, Goto, Resting
  <2> QED BY <1>2, <2>1 DEF Link!vars
<1> QED BY <1>3, <1>4

LEMMA LinkInit == Init => Link!Init
BY DEF Init, Link!Init, CallStates, Sent, Executed, CommandsOf, LiveKeys, Live, NoCommand,
       Link!NoCommand, Resting

LEMMA LinkStep ==
    ASSUME MaxAttempts >= 1
    PROVE  /\ ExclusiveInv /\ ExclusiveInv' /\ DeliveryInv /\ DeliveryInv' /\ [Next]_vars
           => [Link!Next]_Link!vars
<1> SUFFICES ASSUME ExclusiveInv, ExclusiveInv', DeliveryInv, DeliveryInv', [Next]_vars
             PROVE  [Link!Next]_Link!vars
  OBVIOUS
<1>0. TypeOK /\ TypeOK'
  BY DEF DeliveryInv
<1>1. ASSUME NEW s \in Senders, NEW v \in Vehicles, NEW p \in Payloads,
             Envelope(s, v, p), seen' \in {seen, Purged}
      PROVE  /\ CallStates[s] \notin Link!Working
             /\ \A d \in Sent : d.id # cmd'[s].id
             /\ cmd'[s] \in Link!Command /\ cmd'[s].key = <<v, p>>
             /\ cmd' = [cmd EXCEPT ![s] = cmd'[s]]
             /\ UNCHANGED <<Sent, Executed, LiveKeys>>
  <2>1. /\ cmd' = [cmd EXCEPT ![s] = [id |-> sends + 1, key |-> <<v, p>>]]
        /\ cmd'[s] = [id |-> sends + 1, key |-> <<v, p>>]
        /\ pc[s] \in Resting /\ sends < MaxSends /\ sends \in Nat
        /\ UNCHANGED <<deliveries, wire, clock>>
        /\ <<v, p>> \in Keys
    BY <1>0, <1>1 DEF Envelope, TypeOK, gateway, Keys
  <2>2. sends + 1 \in 1 .. MaxSends
    BY <2>1, TransportAssumption
  <2>3. \A d \in wire \cup deliveries : d.id # sends + 1
    BY <1>0, <2>1 DEF DeliveryInv, IdsAreFresh, TypeOK
  <2>4. LiveKeys' = LiveKeys
    BY <1>0, <1>1, <2>1 DEF LiveKeys, Live, Purged, TypeOK, Absent
  <2>5. UNCHANGED <<Sent, Executed>> /\ \A d \in Sent : d.id # sends + 1
    BY <2>1, <2>3 DEF Sent, Executed, CommandsOf
  <2>6. CallStates[s] \notin Link!Working
    BY <2>1 DEF CallStates, Resting, Link!Working
  <2>7. cmd'[s] \in Link!Command /\ cmd'[s].key = <<v, p>> /\ cmd'[s].id = sends + 1
    BY <2>1, <2>2 DEF Link!Command
  <2>8. cmd' = [cmd EXCEPT ![s] = cmd'[s]]
    BY <2>1
  <2> QED BY <2>4, <2>5, <2>6, <2>7, <2>8
<1>2. ASSUME NEW s \in Senders, NEW v \in Vehicles, NEW p \in Payloads,
             SkipDuplicate(s, v, p)
      PROVE  Link!Skip(s, cmd'[s]) /\ cmd'[s] \in Link!Command
  <2>1. Envelope(s, v, p) /\ seen' \in {seen, Purged} /\ <<v, p>> \in LiveKeys
    BY <1>2 DEF SkipDuplicate, LiveKeys, Keys
  <2>2. CallStates' = [CallStates EXCEPT ![s] = "skipping"]
    BY <1>0, <1>2 DEF SkipDuplicate, Goto, Resting, CallStates, TypeOK
  <2> QED BY <1>1, <2>1, <2>2 DEF Link!Skip, Link!Accept
<1>3. ASSUME NEW s \in Senders, NEW v \in Vehicles, NEW p \in Payloads,
              CheckRaises(s, v, p)
       PROVE  Link!Refuse(s, cmd'[s]) /\ cmd'[s] \in Link!Command
  <2>1. Envelope(s, v, p) /\ seen' \in {seen, Purged}
    BY <1>3 DEF CheckRaises
  <2>2. CallStates' = [CallStates EXCEPT ![s] = "raised"]
    BY <1>0, <1>3, EndsCall DEF CheckRaises, Goto, Resting
  <2> QED BY <1>1, <2>1, <2>2 DEF Link!Refuse, Link!Accept
<1>4. ASSUME NEW s \in Senders, NEW v \in Vehicles, NEW p \in Payloads, Begin(s, v, p)
      PROVE  Link!Begin(s, cmd'[s]) /\ cmd'[s] \in Link!Command
  <2>1. Envelope(s, v, p) /\ seen' \in {seen, Purged} /\ <<v, p>> \notin LiveKeys
    BY <1>4 DEF Begin, LiveKeys
  <2>2. CallStates' = [CallStates EXCEPT ![s] = "busy"]
    BY <1>0, <1>4 DEF Begin, Goto, Resting, CallStates, TypeOK
  <2> QED BY <1>1, <2>1, <2>2 DEF Link!Begin, Link!Accept
<1>5. ASSUME NEW s \in Senders, Post(s) PROVE Link!Send(s)
  <2> DEFINE new == [id |-> cmd[s].id, key |-> cmd[s].key, attempt |-> attempt[s]]
  <2>1. /\ pc[s] = "post" /\ pc' = [pc EXCEPT ![s] = "await"]
        /\ wire' = wire \cup {new}
        /\ UNCHANGED <<cmd, deliveries, seen, clock>>
    BY <1>5 DEF Post, Goto, ledger
  <2>2. CallStates[s] = "busy" /\ CallStates' = CallStates
    BY <1>0, <2>1, StaysBusy DEF CallStates, Resting
  <2>3. cmd[s].key \notin LiveKeys
    BY <2>1 DEF ExclusiveInv, NoResendWhileLive, LiveKeys, Trying
  <2>4. cmd[s] = [id |-> new.id, key |-> new.key]
    BY <1>0 DEF TypeOK, Command
  <2> HIDE DEF new
  <2>5. Sent' = Sent \cup {cmd[s]}
    <3>1. wire' \cup deliveries' = (wire \cup deliveries) \cup {new}
      BY <2>1
    <3>2. Sent' = {[id |-> d.id, key |-> d.key] : d \in (wire \cup deliveries) \cup {new}}
      BY <3>1 DEF Sent, CommandsOf
    <3>3. Sent' = {[id |-> d.id, key |-> d.key] : d \in wire \cup deliveries}
                    \cup {[id |-> new.id, key |-> new.key]}
      BY <3>2
    <3> QED BY <2>4, <3>3 DEF Sent, CommandsOf
  <2>6. LiveKeys' = LiveKeys /\ Executed' = Executed
    BY <2>1 DEF LiveKeys, Live, Executed, CommandsOf
  <2> QED BY <2>1, <2>2, <2>3, <2>5, <2>6 DEF Link!Send
<1>6. ASSUME NEW request \in wire, RequestArrives(request)
       PROVE  \E c \in Sent : Link!Deliver(c)
  <2> DEFINE c == [id |-> request.id, key |-> request.key]
  <2>1. /\ wire' \cup deliveries' = wire \cup deliveries
        /\ deliveries' = deliveries \cup {request}
        /\ UNCHANGED <<pc, cmd, seen, clock>>
    BY <1>6 DEF RequestArrives, ledger
  <2>2. Executed' = Executed \cup {c}
    <3>1. Executed' = {[id |-> d.id, key |-> d.key] : d \in deliveries \cup {request}}
      BY <2>1 DEF Executed, CommandsOf
    <3> QED BY <3>1 DEF Executed, CommandsOf
  <2>3. c \in Sent /\ Sent' = Sent
    BY <2>1 DEF Sent, CommandsOf
  <2>4. UNCHANGED <<CallStates, cmd, LiveKeys>>
    BY <2>1 DEF CallStates, LiveKeys, Live
  <2> HIDE DEF c
  <2> QED BY <2>2, <2>3, <2>4 DEF Link!Deliver
<1>7. ASSUME NEW s \in Senders, NEW point, pc[s] \notin Resting \cup {"skip"},
             point \notin Resting \cup {"skip"}, pc' = [pc EXCEPT ![s] = point],
             UNCHANGED <<cmd, deliveries, wire, seen, clock>>
      PROVE  UNCHANGED Link!vars
  BY <1>0, <1>7, StaysBusy, SameView DEF Link!vars
<1>8. ASSUME NEW s \in Senders, NoReply(s) PROVE Link!Raise(s) \/ UNCHANGED Link!vars
  BY <1>0, <1>8, FailRefines DEF NoReply, Trying, InCall
<1>9. ASSUME NEW s \in Senders, NEW a \in acks, CorrelationFails(s, a)
      PROVE  Link!Raise(s) \/ UNCHANGED Link!vars
  BY <1>0, <1>9, FailRefines DEF CorrelationFails, Trying, InCall
<1>10. ASSUME NEW s \in Senders, NEW a \in acks, Correlates(s, a)
      PROVE  UNCHANGED Link!vars
  BY <1>7, <1>10 DEF Correlates, Goto, Resting, ledger, gateway
<1>11. ASSUME NEW s \in Senders, ReadNonce(s) PROVE UNCHANGED Link!vars
  BY <1>7, <1>11 DEF ReadNonce, Goto, Resting, ledger, gateway
<1>12. ASSUME NEW s \in Senders, NonceRejected(s)
       PROVE  Link!Raise(s) \/ UNCHANGED Link!vars
  BY <1>0, <1>12, FailRefines DEF NonceRejected, Trying, InCall
<1>13. ASSUME NEW s \in Senders, UpdateNonce(s) PROVE UNCHANGED Link!vars
  BY <1>7, <1>13 DEF UpdateNonce, Goto, Resting, gateway
<1>14. ASSUME NEW s \in Senders, VerifyAccepts(s) PROVE UNCHANGED Link!vars
  BY <1>7, <1>14 DEF VerifyAccepts, Goto, Resting, ledger, gateway
<1>15. ASSUME NEW s \in Senders, VerifyRejects(s)
       PROVE  Link!Raise(s) \/ UNCHANGED Link!vars
  BY <1>0, <1>15, FailRefines DEF VerifyRejects, Trying, InCall
<1>16. ASSUME NEW s \in Senders, pc[s] \in PastAck
       PROVE  CallStates[s] = "busy" /\ cmd[s] \in Executed
  <2>1. cmd[s] = [id |-> cmd[s].id, key |-> cmd[s].key]
    BY <1>0 DEF TypeOK, Command
  <2>2. Delivered(s)
    BY <1>16 DEF DeliveryInv, AckedIsDelivered
  <2>3. [id |-> cmd[s].id, key |-> cmd[s].key] \in Executed
    BY <2>2 DEF Delivered, Executed, CommandsOf
  <2> QED BY <1>16, <2>1, <2>3 DEF CallStates, PastAck, Resting
<1>17. ASSUME NEW s \in Senders, MarkSeen(s) PROVE Link!Remember(s)
  <2>1. /\ pc[s] = "mark" /\ pc' = [pc EXCEPT ![s] = "log"]
        /\ seen' = [seen EXCEPT ![cmd[s].key] = clock + KeyTTL]
        /\ UNCHANGED <<cmd, deliveries, wire, clock>>
        /\ cmd[s].key \in Keys
    BY <1>0, <1>17 DEF MarkSeen, Goto, gateway, TypeOK, InCall, Trying
  <2>2. CallStates' = CallStates
    BY <1>0, <2>1, StaysBusy DEF Resting
  <2>3. CallStates[s] = "busy" /\ cmd[s] \in Executed
    BY <1>16, <2>1 DEF PastAck
  <2>4. LiveKeys' = LiveKeys \cup {cmd[s].key}
    <3>1. clock + KeyTTL >= clock /\ clock + KeyTTL # Absent
      BY <1>0, TransportAssumption DEF TypeOK, Absent
    <3>2. \A key \in Keys : Live(key)' <=> Live(key) \/ key = cmd[s].key
      BY <1>0, <2>1, <3>1 DEF Live, TypeOK
    <3> QED BY <2>1, <3>2 DEF LiveKeys
  <2>5. Sent' = Sent /\ Executed' = Executed
    BY <2>1 DEF Sent, Executed, CommandsOf
  <2> QED BY <2>1, <2>2, <2>3, <2>4, <2>5 DEF Link!Remember
<1>18. ASSUME NEW s \in Senders, LogAckOk(s) \/ LogDuplicate(s) PROVE Link!Return(s)
  <2>1. /\ CallStates' = [CallStates EXCEPT ![s] = "returned"]
        /\ UNCHANGED <<cmd, deliveries, wire, seen, clock>>
    BY <1>0, <1>18, EndsCall DEF LogAckOk, LogDuplicate, Leave, Goto, Resting, gateway
  <2>2. \/ CallStates[s] = "skipping"
        \/ CallStates[s] = "busy" /\ cmd[s] \in Executed
    <3>1. CASE LogAckOk(s)
      BY <1>16, <3>1 DEF LogAckOk, PastAck
    <3>2. CASE LogDuplicate(s)
      BY <3>2 DEF LogDuplicate, CallStates, Resting
    <3> QED BY <1>18, <3>1, <3>2
  <2> QED BY <2>1, <2>2, SameView DEF Link!Return
<1>19. ASSUME NEW s \in Senders, Escapes(s) PROVE Link!Raise(s)
  <2>1. /\ CallStates' = [CallStates EXCEPT ![s] = "raised"]
        /\ UNCHANGED <<cmd, deliveries, wire, seen, clock>> /\ pc[s] \in InCall
    BY <1>0, <1>19, EndsCall DEF Escapes, Leave, Goto, Resting, gateway, ledger
  <2> QED BY <2>1, Working, SameView DEF Link!Raise
<1>20. ASSUME NEW s \in Senders, Crash(s) PROVE Link!Die(s)
  <2>1. /\ CallStates' = [CallStates EXCEPT ![s] = "idle"]
        /\ cmd' = [cmd EXCEPT ![s] = Link!NoCommand]
        /\ UNCHANGED <<deliveries, wire, seen, clock>> /\ pc[s] \in InCall
    BY <1>0, <1>20, EndsCall
       DEF Crash, Leave, Goto, Resting, gateway, ledger, NoCommand, Link!NoCommand
  <2> QED BY <2>1, Working, SameView DEF Link!Die
<1>21. CASE GatewayRestarts
  <2>1. UNCHANGED <<pc, cmd, deliveries, wire, seen, clock>>
    BY <1>21 DEF GatewayRestarts, ledger
  <2> QED BY <2>1, SameView DEF Link!vars, CallStates
<1>22. CASE Tick
  <2>1. UNCHANGED <<pc, cmd, deliveries, wire, seen>> /\ clock' = clock + 1
    BY <1>22 DEF Tick, ledger, gateway
  <2>2. LiveKeys' \in SUBSET LiveKeys
    BY <1>0, <2>1 DEF LiveKeys, Live, TypeOK, Absent
  <2>3. Link!Forget
    BY <2>1, <2>2 DEF Link!Forget, CallStates, Sent, Executed, CommandsOf
  <2> QED BY <2>3 DEF Link!Next
<1>23. CASE UNCHANGED vars
  <2>1. UNCHANGED <<pc, cmd, deliveries, wire, seen, clock>>
    BY <1>23 DEF vars, ledger, gateway
  <2> QED BY <2>1, SameView DEF Link!vars, CallStates
<1>24. ASSUME NEW s \in Senders, Call(s) \/ Progress(s) \/ Crash(s)
       PROVE  [Link!Next]_Link!vars
  <2>1. CASE Call(s)
    BY <1>2, <1>4, <1>3, <2>1 DEF Call, Link!Next
  <2>2. CASE Progress(s)
    <3>1. Link!Send(s) \/ Link!Remember(s) \/ Link!Return(s) \/ Link!Raise(s)
            \/ UNCHANGED Link!vars
      BY <1>5, <1>8, <1>9, <1>10, <1>11, <1>12, <1>13, <1>14, <1>15, <1>17, <1>18,
         <1>19, <2>2 DEF Progress
    <3> QED BY <3>1 DEF Link!Next
  <2>3. CASE Crash(s)
    BY <1>20, <2>3 DEF Link!Next
  <2> QED BY <1>24, <2>1, <2>2, <2>3
<1>25. ASSUME NEW request \in wire, RequestArrives(request)
       PROVE  [Link!Next]_Link!vars
  BY <1>6, <1>25 DEF Link!Next
<1> QED BY <1>21, <1>22, <1>23, <1>24, <1>25 DEF Next

\* With one process per vehicle send_command implements CommandLink: behind its
\* retries, lost and crossed acknowledgements, crashes and key expiry, a call that
\* returns was executed and a remembered command is not executed again.
THEOREM LinkRefinement ==
    ASSUME ExclusiveVehicles, MaxAttempts >= 1
    PROVE  Spec => ImplementsLink
<1>1. Spec => Link!Init
  BY LinkInit DEF Spec
<1>2. Spec => []ExclusiveInv
  BY ExclusiveInit, ExclusiveStep, PTL DEF Spec
<1>3. Spec => []DeliveryInv
  BY DeliveryInit, DeliveryStep, PTL DEF Spec
<1>4. Spec => [][Link!Next]_Link!vars
  BY <1>2, <1>3, LinkStep, PTL DEF Spec
<1> QED BY <1>1, <1>4, PTL DEF ImplementsLink, Link!Spec

=============================================================================
