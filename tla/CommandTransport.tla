-------------------------- MODULE CommandTransport --------------------------
(***************************************************************************)
(* send_command of the HTTP and MQTT transports, whose loops differ only   *)
(* in the exceptions they catch: senders (processes with a transport       *)
(* object of their own) that share one durable command ledger, and the     *)
(* vendor gateway that executes commands and acknowledges them with        *)
(* increasing nonces.                                                      *)
(*                                                                         *)
(* Every ledger call is one SQLite transaction and one step, so senders    *)
(* interleave between reading the last nonce and writing the new one.      *)
(* A request can be lost or arrive at any later time, also after its call  *)
(* gave up or its process died; a reply can be lost or belong to another   *)
(* command; senders crash between any two steps; the gateway restarts and  *)
(* counts from its base again.                                             *)
(*                                                                         *)
(* Whether a signature or a certificate fingerprint is accepted is a free  *)
(* choice of Verify: keys and pins rotate under the senders, and the       *)
(* rollout guard that counts the outcomes changes only the pins.           *)
(***************************************************************************)
EXTENDS Integers

CONSTANTS
    Senders, Vehicles, Payloads,
    Serves,          \* the vehicles a sender is used for
    MaxAttempts,     \* retry.max_attempts
    NonceWindow,     \* ack.nonce_window
    KeyTTL,          \* idempotency.key_ttl_s
    GatewayBase,     \* the gateway's nonce counter when it starts
    MaxSends,        \* bound: calls of send_command
    MaxTime,         \* bound: the clock
    MaxCrashes,      \* bound: sender crashes
    MaxRestarts      \* bound: gateway restarts

ASSUME TransportAssumption ==
    /\ Serves \in [Senders -> SUBSET Vehicles]
    /\ MaxAttempts \in Nat
    /\ NonceWindow \in Nat \ {0}
    /\ KeyTTL \in Nat
    /\ GatewayBase \in Nat
    /\ MaxSends \in Nat /\ MaxTime \in Nat /\ MaxCrashes \in Nat /\ MaxRestarts \in Nat

VARIABLES
    clock,        \* time.time()
    seen,         \* table idempotency_keys: the expiry of each key, Absent if none
    lastNonce,    \* table vehicle_nonce, Absent if none
    log,          \* table command_events: command ids with their status
    gwNonce,      \* the gateway's nonce counter
    deliveries,   \* the commands the gateway executed, one record per request
    acks,         \* the acknowledgements the gateway sent
    wire,         \* the requests that were sent and did not arrive so far
    pc,           \* where a sender is
    cmd,          \* its command: id and idempotency key
    attempt, ack, last,           \* locals: attempt, response_data, last_nonce
    sends, crashes, restarts      \* the bounded counters

ledger  == <<seen, lastNonce, log>>
gateway == <<gwNonce, deliveries, acks, wire>>
locals  == <<attempt, ack, last>>
bounds  == <<sends, crashes, restarts>>
vars    == <<clock, ledger, gateway, pc, cmd, locals, bounds>>

Absent == -1

\* The idempotency key is a hash of vehicle and payload; the command id is fresh.
Keys == Vehicles \X Payloads

Command == [id : Nat, key : Keys \cup {<<>>}]

NoCommand == [id |-> 0, key |-> <<>>]

VehicleOf(s) == cmd[s].key[1]

Ack == [id : Nat, nonce : Nat]

NoAck == [id |-> 0, nonce |-> 0]

\* Between calls, after a normal return, after an exception.
Resting == {"idle", "returned", "raised"}

\* Where a sender works on a command it has not marked as seen yet.
Trying == {"post", "await", "read", "update", "verify", "mark"}

\* Inside a call; at "skip" a duplicate still has to be logged.
InCall == Trying \cup {"skip", "log"}

Statuses == {"ack_ok", "duplicate_skip", "send_failed"}

Record(s, status) == [id |-> cmd[s].id, status |-> status]

Init ==
    /\ clock = 0
    /\ seen = [key \in Keys |-> Absent]
    /\ lastNonce = [v \in Vehicles |-> Absent]
    /\ log = {}
    /\ gwNonce = GatewayBase
    /\ deliveries = {}
    /\ acks = {}
    /\ wire = {}
    /\ pc = [s \in Senders |-> "idle"]
    /\ cmd = [s \in Senders |-> NoCommand]
    /\ attempt = [s \in Senders |-> 0]
    /\ ack = [s \in Senders |-> NoAck]
    /\ last = [s \in Senders |-> Absent]
    /\ sends = 0 /\ crashes = 0 /\ restarts = 0

Goto(s, point) == pc' = [pc EXCEPT ![s] = point]

\* The call is over; its locals are gone.
Leave(s, point) ==
    /\ Goto(s, point)
    /\ attempt' = [attempt EXCEPT ![s] = 0]
    /\ ack' = [ack EXCEPT ![s] = NoAck]
    /\ last' = [last EXCEPT ![s] = Absent]

-----------------------------------------------------------------------------
(* A new call: envelope and duplicate check.                               *)

\* is_duplicate_idempotency_key deletes what expired before now and selects.
Purged == [key \in Keys |-> IF seen[key] < clock THEN Absent ELSE seen[key]]

Live(key) == seen[key] # Absent /\ seen[key] >= clock

Envelope(s, v, p) ==
    /\ pc[s] \in Resting
    /\ v \in Serves[s]
    /\ sends < MaxSends
    /\ sends' = sends + 1
    /\ cmd' = [cmd EXCEPT ![s] = [id |-> sends + 1, key |-> <<v, p>>]]
    /\ UNCHANGED <<clock, lastNonce, log, gateway, crashes, restarts>>

\* The duplicate check itself raises, and its transaction is rolled back.
CheckRaises(s, v, p) ==
    /\ Envelope(s, v, p)
    /\ Goto(s, "raised")
    /\ UNCHANGED <<seen, locals>>

\* Mutant: a duplicate is noticed but sent all the same.
BeginAnyway(s, v, p) ==
    /\ Envelope(s, v, p)
    /\ seen' = Purged
    /\ attempt' = [attempt EXCEPT ![s] = 1]
    /\ Goto(s, IF MaxAttempts >= 1 THEN "post" ELSE "returned")
    /\ UNCHANGED <<ack, last>>

\* The key is live: nothing will be sent.
SkipDuplicate(s, v, p) ==
    /\ Envelope(s, v, p)
    /\ seen' = Purged
    /\ Live(<<v, p>>)
    /\ Goto(s, "skip")
    /\ UNCHANGED locals

\* Log the duplicate and return.
LogDuplicate(s) ==
    /\ pc[s] = "skip"
    /\ log' = log \cup {Record(s, "duplicate_skip")}
    /\ Leave(s, "returned")
    /\ UNCHANGED <<clock, seen, lastNonce, gateway, cmd, bounds>>

\* Enter the retry loop; a loop of no attempts falls through.
Begin(s, v, p) ==
    /\ Envelope(s, v, p)
    /\ seen' = Purged
    /\ ~Live(<<v, p>>)
    /\ attempt' = [attempt EXCEPT ![s] = 1]
    /\ Goto(s, IF MaxAttempts >= 1 THEN "post" ELSE "returned")
    /\ UNCHANGED <<ack, last>>

-----------------------------------------------------------------------------
(* The gateway and the wire.                                               *)

\* The request is on its way; the sender waits for the reply.
Post(s) ==
    /\ pc[s] = "post"
    /\ wire' = wire \cup {[id |-> cmd[s].id, key |-> cmd[s].key, attempt |-> attempt[s]]}
    /\ Goto(s, "await")
    /\ UNCHANGED <<clock, ledger, gwNonce, deliveries, acks, cmd, locals, bounds>>

\* A request arrives, whatever became of its call, or never: the gateway
\* executes it and acknowledges it with the next nonce.  Whether the reply
\* arrives in time is decided at "await".
RequestArrives(r) ==
    /\ r \in wire
    /\ wire' = wire \ {r}
    /\ gwNonce' = gwNonce + 1
    /\ deliveries' = deliveries \cup {r}
    /\ acks' = acks \cup {[id |-> r.id, nonce |-> gwNonce + 1]}
    /\ UNCHANGED <<clock, ledger, pc, cmd, locals, bounds>>

GatewayRestarts ==
    /\ restarts < MaxRestarts
    /\ restarts' = restarts + 1
    /\ gwNonce' = GatewayBase
    /\ UNCHANGED <<clock, ledger, deliveries, acks, wire, pc, cmd, locals, sends, crashes>>

-----------------------------------------------------------------------------
(* The reply.                                                              *)

\* Mutant: every failed attempt is logged, not only the last one.
AttemptFailsLogged(s) ==
    /\ log' = log \cup {Record(s, "send_failed")}
    /\ IF attempt[s] >= MaxAttempts
       THEN Leave(s, "raised")
       ELSE /\ attempt' = [attempt EXCEPT ![s] = @ + 1]
            /\ ack' = [ack EXCEPT ![s] = NoAck]
            /\ last' = [last EXCEPT ![s] = Absent]
            /\ Goto(s, "post")
    /\ UNCHANGED <<clock, seen, lastNonce, gateway, cmd, bounds>>

\* Mutant: the loop counts down and never reaches the last attempt.
AttemptFailsCountsDown(s) ==
    /\ attempt' = [attempt EXCEPT ![s] = @ - 1]
    /\ ack' = [ack EXCEPT ![s] = NoAck]
    /\ last' = [last EXCEPT ![s] = Absent]
    /\ Goto(s, "post")
    /\ UNCHANGED <<clock, ledger, gateway, cmd, bounds>>

\* Mutant: the attempt is not counted, so the loop never ends.
AttemptFailsForever(s) ==
    /\ ack' = [ack EXCEPT ![s] = NoAck]
    /\ last' = [last EXCEPT ![s] = Absent]
    /\ Goto(s, "post")
    /\ UNCHANGED <<clock, ledger, gateway, cmd, attempt, bounds>>

\* The except clause of the attempt: the last attempt logs and raises, an
\* earlier one sleeps and tries again with the same envelope.
AttemptFails(s) ==
    /\ IF attempt[s] >= MaxAttempts
       THEN /\ log' = log \cup {Record(s, "send_failed")}
            /\ Leave(s, "raised")
       ELSE /\ attempt' = [attempt EXCEPT ![s] = @ + 1]
            /\ ack' = [ack EXCEPT ![s] = NoAck]
            /\ last' = [last EXCEPT ![s] = Absent]
            /\ Goto(s, "post")
            /\ UNCHANGED log
    /\ UNCHANGED <<clock, seen, lastNonce, gateway, cmd, bounds>>

\* No usable acknowledgement: timeout, connection refused, an HTTP error, an
\* ack without id or nonce.
NoReply(s) ==
    /\ pc[s] = "await"
    /\ AttemptFails(s)

\* An acknowledgement for another command arrives.
CorrelationFails(s, a) ==
    /\ pc[s] = "await"
    /\ a.id # cmd[s].id
    /\ AttemptFails(s)

\* Mutant: any acknowledgement is taken for the command's own.
CorrelatesAny(s, a) ==
    /\ pc[s] = "await"
    /\ ack' = [ack EXCEPT ![s] = a]
    /\ Goto(s, "read")
    /\ UNCHANGED <<clock, ledger, gateway, cmd, attempt, last, bounds>>

Correlates(s, a) ==
    /\ pc[s] = "await"
    /\ a.id = cmd[s].id
    /\ ack' = [ack EXCEPT ![s] = a]
    /\ Goto(s, "read")
    /\ UNCHANGED <<clock, ledger, gateway, cmd, attempt, last, bounds>>

\* Mutant: the transport keeps the last nonce in memory and starts without one.
ReadNonceForgets(s) ==
    /\ pc[s] = "read"
    /\ last' = [last EXCEPT ![s] = Absent]
    /\ Goto(s, "update")
    /\ UNCHANGED <<clock, ledger, gateway, cmd, attempt, ack, bounds>>

\* get_last_ack_nonce
ReadNonce(s) ==
    /\ pc[s] = "read"
    /\ last' = [last EXCEPT ![s] = lastNonce[VehicleOf(s)]]
    /\ Goto(s, "update")
    /\ UNCHANGED <<clock, ledger, gateway, cmd, attempt, ack, bounds>>

\* The replay and window checks, against the nonce that was read.
NonceAccepted(s) ==
    \/ last[s] = Absent
    \/ ack[s].nonce > last[s] /\ ack[s].nonce <= last[s] + NonceWindow

NonceRejected(s) ==
    /\ pc[s] = "update"
    /\ ~NonceAccepted(s)
    /\ AttemptFails(s)

\* update_last_ack_nonce, before the signature is looked at.
UpdateNonce(s) ==
    /\ pc[s] = "update"
    /\ NonceAccepted(s)
    /\ lastNonce' = [lastNonce EXCEPT ![VehicleOf(s)] = ack[s].nonce]
    /\ Goto(s, "verify")
    /\ UNCHANGED <<clock, seen, log, gateway, cmd, locals, bounds>>

VerifyAccepts(s) ==
    /\ pc[s] = "verify"
    /\ Goto(s, "mark")
    /\ UNCHANGED <<clock, ledger, gateway, cmd, locals, bounds>>

VerifyRejects(s) ==
    /\ pc[s] = "verify"
    /\ AttemptFails(s)

\* Mutant: the keys of the same payload are marked for every vehicle.
MarkSeenForAll(s) ==
    /\ pc[s] = "mark"
    /\ seen' = [key \in Keys |->
                  IF key[2] = cmd[s].key[2] THEN clock + KeyTTL ELSE seen[key]]
    /\ Goto(s, "log")
    /\ UNCHANGED <<clock, lastNonce, log, gateway, cmd, locals, bounds>>

\* mark_idempotency_key
MarkSeen(s) ==
    /\ pc[s] = "mark"
    /\ seen' = [seen EXCEPT ![cmd[s].key] = clock + KeyTTL]
    /\ Goto(s, "log")
    /\ UNCHANGED <<clock, lastNonce, log, gateway, cmd, locals, bounds>>

LogAckOk(s) ==
    /\ pc[s] = "log"
    /\ log' = log \cup {Record(s, "ack_ok")}
    /\ Leave(s, "returned")
    /\ UNCHANGED <<clock, seen, lastNonce, gateway, cmd, bounds>>

\* An exception no except clause of send_command names: a connection reset while
\* the answer is read, a body that is not JSON, an error of the MQTT client's own,
\* a ledger or pin file that cannot be written, also where a duplicate is logged.
\* The call is over, neither retried nor logged.
Escapes(s) ==
    /\ pc[s] \in InCall
    /\ Leave(s, "raised")
    /\ UNCHANGED <<clock, ledger, gateway, cmd, bounds>>

\* The process dies and is started again: only the ledger survives.
Crash(s) ==
    /\ pc[s] \in InCall
    /\ crashes < MaxCrashes
    /\ crashes' = crashes + 1
    /\ Leave(s, "idle")
    /\ cmd' = [cmd EXCEPT ![s] = NoCommand]
    /\ UNCHANGED <<clock, ledger, gateway, sends, restarts>>

Tick ==
    /\ clock < MaxTime
    /\ clock' = clock + 1
    /\ UNCHANGED <<ledger, gateway, pc, cmd, locals, bounds>>

-----------------------------------------------------------------------------

\* What a call does on its own once it was entered.
Progress(s) ==
    /\ pc[s] \in InCall
    /\ \/ Escapes(s)
       \/ LogDuplicate(s) \/ Post(s)
       \/ NoReply(s)
       \/ \E a \in acks : CorrelationFails(s, a) \/ Correlates(s, a)
       \/ ReadNonce(s) \/ NonceRejected(s) \/ UpdateNonce(s)
       \/ VerifyAccepts(s) \/ VerifyRejects(s)
       \/ MarkSeen(s) \/ LogAckOk(s)

Call(s) ==
    \E v \in Vehicles, p \in Payloads :
        CheckRaises(s, v, p) \/ SkipDuplicate(s, v, p) \/ Begin(s, v, p)

Next ==
    \/ \E s \in Senders : Call(s) \/ Progress(s) \/ Crash(s)
    \/ \E r \in wire : RequestArrives(r)
    \/ GatewayRestarts
    \/ Tick

\* A sender that is inside a call keeps running; nobody has to call, the gateway
\* and the clock owe nothing.
Fairness == \A s \in Senders : WF_vars(Progress(s))

Spec == Init /\ [][Next]_vars /\ Fairness

-----------------------------------------------------------------------------
(* Properties.                                                             *)

TypeOK ==
    /\ clock \in Nat
    /\ seen \in [Keys -> Nat \cup {Absent}]
    /\ lastNonce \in [Vehicles -> Nat \cup {Absent}]
    /\ log \subseteq [id : Nat, status : Statuses]
    /\ gwNonce \in Nat
    /\ deliveries \subseteq [id : Nat, key : Keys, attempt : Nat]
    /\ acks \subseteq Ack
    /\ wire \subseteq [id : Nat, key : Keys, attempt : Nat]
    /\ pc \in [Senders -> Resting \cup InCall]
    /\ cmd \in [Senders -> Command]
    /\ \A s \in Senders : pc[s] \in InCall => cmd[s].key \in Keys
    /\ attempt \in [Senders -> Nat]
    /\ ack \in [Senders -> Ack]
    /\ last \in [Senders -> Nat \cup {Absent}]
    /\ sends \in Nat /\ crashes \in Nat /\ restarts \in Nat

\* Each vehicle is commanded by one process.
ExclusiveVehicles ==
    \A s, t \in Senders : s # t => Serves[s] \cap Serves[t] = {}

\* The nonce remembered for a vehicle only grows, and never by more than the
\* window, across retries, lost and crossed acknowledgements, crashes and gateway
\* restarts: no nonce is accepted twice for a vehicle.  (It takes one process
\* per vehicle, since the read and the write are separate transactions.)
NonceMonotone ==
    [][\A v \in Vehicles :
         lastNonce'[v] # lastNonce[v] /\ lastNonce[v] # Absent =>
            lastNonce'[v] > lastNonce[v] /\ lastNonce'[v] <= lastNonce[v] + NonceWindow]_vars

\* When send_command returns normally the vehicle really got the command: this
\* very command was delivered, or, for a duplicate skip, an equal command was
\* delivered before, whatever was lost, delayed, crossed or crashed meanwhile.
SuccessMeansDelivered ==
    \A s \in Senders : pc[s] = "returned" =>
        \E d \in deliveries :
            /\ d.key = cmd[s].key
            /\ d.id = cmd[s].id \/ Record(s, "duplicate_skip") \in log

\* While the key of an acknowledged command is live no call is busy sending the
\* same command again, also when keys expire meanwhile or a sender restarts.
\* (A request of an earlier attempt or call may still arrive and be executed.)
NoResendWhileLive ==
    \A s \in Senders : pc[s] \in Trying => ~Live(cmd[s].key)

\* The ledger gives every command one outcome: a command that failed on an
\* early attempt and was acknowledged later is only recorded as acknowledged.
OneOutcome == \A e, f \in log : e.id = f.id => e.status = f.status

\* Every call of send_command ends, by returning or raising or because its
\* process dies, although any attempt may wait for a reply that never comes: a
\* sender is outside a call again and again.
SendTerminates == \A s \in Senders : []<>(pc[s] \in Resting)

\* The abstract call: everything between the duplicate check and the end is
\* "busy", or "skipping" for a duplicate; a request is its command, whichever
\* attempt made it, and has been sent if it is under way or has arrived.
CallStates ==
    [s \in Senders |-> IF pc[s] \in Resting THEN pc[s]
                       ELSE IF pc[s] = "skip" THEN "skipping" ELSE "busy"]

CommandsOf(requests) == {[id |-> r.id, key |-> r.key] : r \in requests}

Executed == CommandsOf(deliveries)

Sent == CommandsOf(wire \cup deliveries)

LiveKeys == {key \in Keys : Live(key)}

Link == INSTANCE CommandLink WITH
    Ids       <- 1 .. MaxSends,
    call      <- CallStates,
    sent      <- Sent,
    delivered <- Executed,
    live      <- LiveKeys

\* send_command, with its retries, its lossy wire, its ledger and its crashes,
\* implements the promise of CommandLink to its callers.
ImplementsLink == Link!Spec

=============================================================================
