----------------------------- MODULE CommandLink -----------------------------
(***************************************************************************)
(* What send_command promises its callers, without the wire, the retries,  *)
(* the acknowledgements and the ledger behind it: a call that returns      *)
(* normally was executed by the vehicle, or it met an equal command that   *)
(* was and is remembered; while a command is remembered no call sends it   *)
(* again.  It promises nothing about when a command is executed: what was  *)
(* sent may reach the vehicle after its call ended, repeatedly or never.   *)
(* CommandTransport implements this specification.                         *)
(***************************************************************************)
EXTENDS Integers

CONSTANTS Senders, Keys, Ids

VARIABLES
    call,         \* the state of each sender's call
    cmd,          \* its command
    sent,         \* the commands handed to the wire
    delivered,    \* the commands the vehicles executed
    live          \* the keys remembered as executed

vars == <<call, cmd, sent, delivered, live>>

Command == [id : Ids, key : Keys]

NoCommand == [id |-> 0, key |-> <<>>]

Working == {"busy", "skipping"}

Init ==
    /\ call = [s \in Senders |-> "idle"]
    /\ cmd = [s \in Senders |-> NoCommand]
    /\ sent = {}
    /\ delivered = {}
    /\ live = {}

\* Take a new command, one that was never sent.
Accept(s, c, point) ==
    /\ call[s] \notin Working
    /\ \A d \in sent : d.id # c.id
    /\ cmd' = [cmd EXCEPT ![s] = c]
    /\ call' = [call EXCEPT ![s] = point]
    /\ UNCHANGED <<sent, delivered, live>>

Begin(s, c) == c.key \notin live /\ Accept(s, c, "busy")

Skip(s, c) == c.key \in live /\ Accept(s, c, "skipping")

Refuse(s, c) == Accept(s, c, "raised")

Send(s) ==
    /\ call[s] = "busy"
    /\ cmd[s].key \notin live
    /\ sent' = sent \cup {cmd[s]}
    /\ UNCHANGED <<call, cmd, delivered, live>>

\* A vehicle executes a command, possibly not for the first time, whatever
\* became of its call.
Deliver(c) ==
    /\ c \in sent
    /\ delivered' = delivered \cup {c}
    /\ UNCHANGED <<call, cmd, sent, live>>

Remember(s) ==
    /\ call[s] = "busy"
    /\ cmd[s] \in delivered
    /\ live' = live \cup {cmd[s].key}
    /\ UNCHANGED <<call, cmd, sent, delivered>>

Return(s) ==
    /\ \/ call[s] = "skipping"
       \/ call[s] = "busy" /\ cmd[s] \in delivered
    /\ call' = [call EXCEPT ![s] = "returned"]
    /\ UNCHANGED <<cmd, sent, delivered, live>>

Raise(s) ==
    /\ call[s] \in Working
    /\ call' = [call EXCEPT ![s] = "raised"]
    /\ UNCHANGED <<cmd, sent, delivered, live>>

Die(s) ==
    /\ call[s] \in Working
    /\ call' = [call EXCEPT ![s] = "idle"]
    /\ cmd' = [cmd EXCEPT ![s] = NoCommand]
    /\ UNCHANGED <<sent, delivered, live>>

Forget ==
    /\ live' \in SUBSET live
    /\ UNCHANGED <<call, cmd, sent, delivered>>

Next ==
    \/ \E s \in Senders :
          \/ \E c \in Command : Begin(s, c) \/ Skip(s, c) \/ Refuse(s, c)
          \/ Send(s) \/ Remember(s) \/ Return(s) \/ Raise(s) \/ Die(s)
    \/ \E c \in sent : Deliver(c)
    \/ Forget

Spec == Init /\ [][Next]_vars

=============================================================================
