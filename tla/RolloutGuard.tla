----------------------------- MODULE RolloutGuard -----------------------------
(***************************************************************************)
(* Processes that hold a VendorCertPinset: transports that check the       *)
(* fingerprint of every acknowledgement and roll pins back when too many   *)
(* checks fail, and tools that rotate, schedule and revoke.  Each process  *)
(* reads the pin file once, when it starts, works on its copy and writes   *)
(* the whole copy back.                                                    *)
(***************************************************************************)
EXTENDS CertPins, Sequences, FiniteSets

CONSTANTS
    Processes, Vendors,
    InitialFiles,      \* what the pin file may hold at first
    Windows,           \* the validity windows <<from, until>> pins are scheduled with
    WindowSize,        \* rollout_policy.error_window_size
    MinSamples,        \* rollout_policy.min_samples
    ErrorNum, ErrorDen,\* rollout_policy.error_rate_threshold, a fraction
    Cooldown           \* rollout_policy.rollback_cooldown_s

PinFile == [Vendors -> VendorRecord]

\* policy.py makes the window and the number of samples at least one.
ASSUME RolloutAssumption ==
    /\ InitialFiles \subseteq PinFile
    /\ Windows \subseteq Nat \X Nat
    /\ WindowSize \in Nat \ {0} /\ MinSamples \in Nat \ {0}
    /\ ErrorNum \in Nat /\ ErrorDen \in Nat \ {0}
    /\ Cooldown \in Nat

VARIABLES
    clock,
    file,           \* the pin file
    up,             \* whether a process runs
    mem,            \* its copy of the pin file, _data
    outcomes,       \* _ack_outcomes: the last verdicts, of all vendors
    lastRollback,   \* _last_rollback_ts_by_vendor, Absent if none
    pending,        \* the verdict about to be recorded
    samples         \* history: verdicts since the last rollback, up to MinSamples

guard == <<outcomes, lastRollback, pending, samples>>
vars  == <<clock, file, up, mem, guard>>

Absent == -1

None == [busy |-> FALSE]

Verdict == [busy : {TRUE}, vendor : Vendors, ok : BOOLEAN]

Fresh == [v \in Vendors |-> Absent]

Init ==
    /\ clock = 0
    /\ file \in InitialFiles
    /\ up = [p \in Processes |-> FALSE]
    /\ mem = [p \in Processes |-> file]
    /\ outcomes = [p \in Processes |-> << >>]
    /\ lastRollback = [p \in Processes |-> Fresh]
    /\ pending = [p \in Processes |-> None]
    /\ samples = [p \in Processes |-> 0]

Idle(p) == up[p] /\ ~pending[p].busy

\* The copy of p changes to record r of vendor v and is written to the file.
Store(p, v, r) ==
    /\ mem' = [mem EXCEPT ![p][v] = r]
    /\ file' = [mem[p] EXCEPT ![v] = r]

-----------------------------------------------------------------------------
(* Starting and stopping.                                                  *)

Start(p) ==
    /\ ~up[p]
    /\ up' = [up EXCEPT ![p] = TRUE]
    /\ mem' = [mem EXCEPT ![p] = file]
    /\ UNCHANGED <<clock, file, guard>>

\* The process ends, or dies, and takes window and cooldowns with it.
Stop(p) ==
    /\ up[p]
    /\ up' = [up EXCEPT ![p] = FALSE]
    /\ outcomes' = [outcomes EXCEPT ![p] = << >>]
    /\ lastRollback' = [lastRollback EXCEPT ![p] = Fresh]
    /\ pending' = [pending EXCEPT ![p] = None]
    /\ samples' = [samples EXCEPT ![p] = 0]
    /\ UNCHANGED <<clock, file, mem>>

-----------------------------------------------------------------------------
(* The operations of the pin set.                                          *)

RotatePin(p, v, fp) ==
    /\ Idle(p)
    /\ Store(p, v, Rotate(mem[p][v], fp))
    /\ UNCHANGED <<clock, up, guard>>

SchedulePin(p, v, fp, w) ==
    /\ Idle(p)
    /\ Store(p, v, Schedule(mem[p][v], [fp |-> fp, from |-> w[1], until |-> w[2]]))
    /\ UNCHANGED <<clock, up, guard>>

RevokePin(p, v, fp) ==
    /\ Idle(p)
    /\ Store(p, v, Revoke(mem[p][v], fp))
    /\ UNCHANGED <<clock, up, guard>>

RollbackPins(p, v) ==
    /\ Idle(p)
    /\ mem[p][v].previous # {}
    /\ Store(p, v, Rollback(mem[p][v]))
    /\ UNCHANGED <<clock, up, guard>>

-----------------------------------------------------------------------------
(* The transport's use of it.                                              *)

Judge(p, v, ok) == pending' = [pending EXCEPT ![p] = [busy |-> TRUE, vendor |-> v, ok |-> ok]]

\* The acknowledgement failed before its fingerprint was looked at: correlation,
\* nonce or signature.
AckFails(p, v) ==
    /\ Idle(p)
    /\ Judge(p, v, FALSE)
    /\ UNCHANGED <<clock, file, up, mem, outcomes, lastRollback, samples>>

\* A revoked fingerprint is refused before anything else happens.
RefuseRevoked(p, v, fp) ==
    /\ Idle(p)
    /\ fp \in mem[p][v].revoked
    /\ Judge(p, v, FALSE)
    /\ UNCHANGED <<clock, file, up, mem, outcomes, lastRollback, samples>>

\* The clock was read before the cutover reads it again.
EarlierReadings == {t \in {clock - 1, clock} : t >= 0}

\* Mutant: the cutover is not saved.
CheckPinUnsaved(p, v, fp) ==
    /\ Idle(p)
    /\ fp \notin mem[p][v].revoked
    /\ mem' = [mem EXCEPT ![p][v] = Cutover(@, clock)]
    /\ \E now \in EarlierReadings :
          Judge(p, v, fp \in Allowed(Cutover(mem[p][v], clock), now))
    /\ UNCHANGED <<clock, file, up, outcomes, lastRollback, samples>>

\* assert_vendor_fingerprint_allowed: cut over, save if that changed anything,
\* then look the fingerprint up.
CheckPin(p, v, fp) ==
    /\ Idle(p)
    /\ fp \notin mem[p][v].revoked
    /\ LET r == Cutover(mem[p][v], clock)
       IN  /\ IF r = mem[p][v] THEN UNCHANGED <<file, mem>> ELSE Store(p, v, r)
           /\ \E now \in EarlierReadings : Judge(p, v, fp \in Allowed(r, now))
    /\ UNCHANGED <<clock, up, outcomes, lastRollback, samples>>

\* Mutant: the window of outcomes is never trimmed.
PushedUnbounded(p) == Append(outcomes[p], pending[p].ok)

\* The deque with the new verdict.
Pushed(p) ==
    Append(IF Len(outcomes[p]) >= WindowSize THEN Tail(outcomes[p]) ELSE outcomes[p],
           pending[p].ok)

Counted(p) == IF samples[p] < MinSamples THEN samples[p] + 1 ELSE samples[p]

Failures(s) == Cardinality({i \in DOMAIN s : ~s[i]})

CoolingDown(p, v) ==
    lastRollback[p][v] # Absent /\ clock - lastRollback[p][v] < Cooldown

\* The new verdict is a failure and the failure rate of the window, over all
\* vendors, reaches the threshold.
Breached(p) ==
    /\ ~pending[p].ok
    /\ Len(Pushed(p)) >= MinSamples
    /\ Failures(Pushed(p)) * ErrorDen >= ErrorNum * Len(Pushed(p))
    /\ ~CoolingDown(p, pending[p].vendor)

\* _record_ack_verification_result without a rollback: not breached, or no
\* previous pins to return to, which leaves window and cooldown as they are.
RecordOutcome(p) ==
    /\ up[p] /\ pending[p].busy
    /\ Breached(p) => mem[p][pending[p].vendor].previous = {}
    /\ outcomes' = [outcomes EXCEPT ![p] = Pushed(p)]
    /\ samples' = [samples EXCEPT ![p] = Counted(p)]
    /\ pending' = [pending EXCEPT ![p] = None]
    /\ UNCHANGED <<clock, file, up, mem, lastRollback>>

\* Mutant: the window is not cleared after a rollback.
AutoRollbackKeepsWindow(p) ==
    /\ up[p] /\ pending[p].busy
    /\ Breached(p)
    /\ LET v == pending[p].vendor
       IN  /\ mem[p][v].previous # {}
           /\ Store(p, v, Rollback(mem[p][v]))
           /\ lastRollback' = [lastRollback EXCEPT ![p][v] = clock]
    /\ outcomes' = [outcomes EXCEPT ![p] = Pushed(p)]
    /\ samples' = [samples EXCEPT ![p] = 0]
    /\ pending' = [pending EXCEPT ![p] = None]
    /\ UNCHANGED <<clock, up>>

AutoRollback(p) ==
    /\ up[p] /\ pending[p].busy
    /\ Breached(p)
    /\ LET v == pending[p].vendor
       IN  /\ mem[p][v].previous # {}
           /\ Store(p, v, Rollback(mem[p][v]))
           /\ lastRollback' = [lastRollback EXCEPT ![p][v] = clock]
    /\ outcomes' = [outcomes EXCEPT ![p] = << >>]
    /\ samples' = [samples EXCEPT ![p] = 0]
    /\ pending' = [pending EXCEPT ![p] = None]
    /\ UNCHANGED <<clock, up>>

Tick ==
    /\ clock < MaxTime
    /\ clock' = clock + 1
    /\ UNCHANGED <<file, up, mem, guard>>

-----------------------------------------------------------------------------

OnPin(p, v, fp) ==
    \/ RotatePin(p, v, fp) \/ RevokePin(p, v, fp)
    \/ \E w \in Windows : SchedulePin(p, v, fp, w)
    \/ RefuseRevoked(p, v, fp) \/ CheckPin(p, v, fp)

Next ==
    \/ \E p \in Processes :
          \/ Start(p) \/ Stop(p) \/ RecordOutcome(p) \/ AutoRollback(p)
          \/ \E v \in Vendors :
                \/ RollbackPins(p, v) \/ AckFails(p, v)
                \/ \E fp \in Prints : OnPin(p, v, fp)
    \/ Tick

Spec == Init /\ [][Next]_vars

-----------------------------------------------------------------------------
(* Properties.                                                             *)

TypeOK ==
    /\ clock \in Nat
    /\ file \in PinFile
    /\ up \in [Processes -> BOOLEAN]
    /\ mem \in [Processes -> PinFile]
    /\ outcomes \in [Processes -> Seq(BOOLEAN)]
    /\ \A p \in Processes : Len(outcomes[p]) <= WindowSize
    /\ lastRollback \in [Processes -> [Vendors -> Nat \cup {Absent}]]
    /\ pending \in [Processes -> Verdict \cup {None}]
    /\ samples \in [Processes -> Nat]

\* One process at a time holds the pin file.
SoleWriter == \A p, q \in Processes : p = q

\* A process that dies at any point and starts again decides as before: whatever
\* it changed in memory, cutovers during a check included, is in the file.
MemoryIsFile == \A p \in Processes : up[p] => mem[p] = file

\* No operation loses a pin of active or next that has not expired: neither the
\* cutover, which replaces active, nor a rollback, nor a restart.
UnexpiredPinsKept ==
    [][\A v \in Vendors : \A pin \in file[v].active \cup file[v].next :
          pin.until >= clock => pin \in file'[v].active \cup file'[v].next]_vars

\* A revocation is for good.
RevocationStays ==
    [][\A v \in Vendors : file[v].revoked \subseteq file'[v].revoked]_vars

\* Two automatic rollbacks of one process have MinSamples verdicts between them,
\* whichever vendors they concern: one burst of failures rolls back once.
FreshEvidence ==
    [][\A p \in Processes, v \in Vendors :
          /\ pending[p].busy /\ mem[p][v].previous # {} /\ mem'[p][v].previous = {}
          => samples[p] + 1 >= MinSamples]_vars

\* A rollback returns to pins a vendor can present.
RollbackRestores ==
    [][\A v \in Vendors :
          /\ file[v].previous # {} /\ file'[v].previous = {}
          => Valid(file'[v].active, clock) # {}]_vars

=============================================================================
