-------------------------- MODULE RolloutGuardProofs --------------------------
(***************************************************************************)
(* Proofs about the pin set and the rollout guard, for every set of        *)
(* vendors, fingerprints, windows and thresholds, and about the gate with  *)
(* the key ring in front of them.                                          *)
(***************************************************************************)
EXTENDS AckGate, SequenceTheorems, TLAPS

\* The pins of active, and those a rollback would return to, have begun.
Begun(r, t) == \A pin \in r.active \cup r.previous : pin.from <= t

\* What every operation does to a record: no unexpired pin and no revocation is
\* lost, and what is active has begun.
Keeps(r, s, t) ==
    /\ s \in VendorRecord
    /\ \A pin \in r.active \cup r.next : pin.until >= t => pin \in s.active \cup s.next
    /\ r.revoked \subseteq s.revoked
    /\ Begun(s, t)

LEMMA RotateKeeps ==
    ASSUME NEW r \in VendorRecord, NEW t \in Nat, Begun(r, t), NEW fp \in Prints
    PROVE  Keeps(r, Rotate(r, fp), t)
<1>1. [fp |-> fp, from |-> 0, until |-> Forever] \in Pin
  BY ClockAssumption DEF Pin, Forever
<1>2. CASE fp \in PrintsOf(r.active)
  BY <1>2 DEF Keeps, Rotate, VendorRecord, Begun
<1>3. CASE fp \notin PrintsOf(r.active)
  <2> DEFINE unlimited == [fp |-> fp, from |-> 0, until |-> Forever]
  <2>1. unlimited \in Pin /\ unlimited.from <= t
    BY <1>1
  <2> HIDE DEF unlimited
  <2>2. Rotate(r, fp) =
          [active |-> r.active \cup {unlimited}, next |-> r.next, previous |-> r.previous,
           allowed |-> r.allowed \cup {fp}, revoked |-> r.revoked]
    <3>1. Rotate(r, fp) = [r EXCEPT !.allowed = r.allowed \cup {fp},
                                    !.active = r.active \cup {unlimited}]
      BY <1>3 DEF Rotate, unlimited
    <3>2. r = [active |-> r.active, next |-> r.next, previous |-> r.previous,
               allowed |-> r.allowed, revoked |-> r.revoked]
      BY DEF VendorRecord
    <3> QED BY <3>1, <3>2
  <2>3. Rotate(r, fp) \in VendorRecord
    BY <2>1, <2>2 DEF VendorRecord
  <2>4. /\ Rotate(r, fp).active = r.active \cup {unlimited}
        /\ Rotate(r, fp).next = r.next
        /\ Rotate(r, fp).previous = r.previous
        /\ Rotate(r, fp).revoked = r.revoked
    BY <2>2
  <2> QED BY <2>1, <2>3, <2>4 DEF Keeps, Begun
<1> QED BY <1>2, <1>3

LEMMA ScheduleKeeps ==
    ASSUME NEW r \in VendorRecord, NEW t \in Nat, Begun(r, t), NEW pin \in Pin
    PROVE  Keeps(r, Schedule(r, pin), t)
BY DEF Keeps, Schedule, VendorRecord, Begun

LEMMA RevokeKeeps ==
    ASSUME NEW r \in VendorRecord, NEW t \in Nat, Begun(r, t), NEW fp \in Prints
    PROVE  Keeps(r, Revoke(r, fp), t)
BY DEF Keeps, Revoke, VendorRecord, Begun

LEMMA RollbackKeeps ==
    ASSUME NEW r \in VendorRecord, NEW t \in Nat, Begun(r, t)
    PROVE  Keeps(r, Rollback(r), t)
BY DEF Keeps, Rollback, VendorRecord, Begun

\* The cutover drops only pins that have expired, because what is active has
\* begun: an active pin that is not valid can only be too old.
LEMMA CutoverKeeps ==
    ASSUME NEW r \in VendorRecord, NEW t \in Nat, Begun(r, t)
    PROVE  Keeps(r, Cutover(r, t), t)
<1>1. CASE Valid(r.active, t) = {} /\ Valid(r.next, t) # {}
  <2>1. Cutover(r, t) =
          [r EXCEPT !.active = Valid(r.next, t), !.next = @ \ Valid(r.next, t),
                    !.previous = IF r.active = {} THEN @ ELSE r.active]
    BY <1>1 DEF Cutover
  <2>2. \A pin \in r.active : ~(pin.until >= t)
    BY <1>1 DEF Valid, Begun, VendorRecord, Pin
  <2> QED BY <2>1, <2>2 DEF Keeps, VendorRecord, Begun, Valid
<1>2. CASE ~(Valid(r.active, t) = {} /\ Valid(r.next, t) # {})
  <2>1. Cutover(r, t) = [r EXCEPT !.active = Valid(r.active, t)]
    BY <1>2 DEF Cutover
  <2> QED BY <2>1 DEF Keeps, VendorRecord, Begun, Valid, Pin
<1> QED BY <1>1, <1>2

\* Each operation yields a record, whatever the record was.
LEMMA OperationType ==
    ASSUME NEW r \in VendorRecord
    PROVE  /\ \A fp \in Prints : Rotate(r, fp) \in VendorRecord /\ Revoke(r, fp) \in VendorRecord
           /\ \A pin \in Pin : Schedule(r, pin) \in VendorRecord
<1>1. ASSUME NEW fp \in Prints PROVE Rotate(r, fp) \in VendorRecord
  <2>1. [fp |-> fp, from |-> 0, until |-> Forever] \in Pin
    BY ClockAssumption DEF Pin, Forever
  <2> QED BY <2>1 DEF Rotate, VendorRecord
<1>2. ASSUME NEW fp \in Prints PROVE Revoke(r, fp) \in VendorRecord
  BY DEF Revoke, VendorRecord
<1>3. ASSUME NEW pin \in Pin PROVE Schedule(r, pin) \in VendorRecord
  BY DEF Schedule, VendorRecord
<1> QED BY <1>1, <1>2, <1>3

LEMMA TurnType ==
    ASSUME NEW r \in VendorRecord, NEW t \in Nat
    PROVE  Cutover(r, t) \in VendorRecord /\ Rollback(r) \in VendorRecord
BY DEF Cutover, Rollback, VendorRecord, Valid

-----------------------------------------------------------------------------
(* Types.                                                                  *)

LEMMA PushedType ==
    ASSUME TypeOK, NEW p \in Processes, pending[p].busy
    PROVE  /\ Pushed(p) \in Seq(BOOLEAN)
           /\ Len(Pushed(p)) <= WindowSize
           /\ Len(Pushed(p)) <= Len(outcomes[p]) + 1
<1>1. outcomes[p] \in Seq(BOOLEAN) /\ Len(outcomes[p]) <= WindowSize
  BY DEF TypeOK
<1>2. pending[p].ok \in BOOLEAN
  <2>1. pending[p] \in Verdict
    BY DEF TypeOK, None
  <2> QED BY <2>1 DEF Verdict
<1>3. WindowSize \in Nat \ {0}
  BY RolloutAssumption
<1>4. CASE Len(outcomes[p]) >= WindowSize
  <2>1. outcomes[p] # << >>
    BY <1>1, <1>3, <1>4
  <2>2. Tail(outcomes[p]) \in Seq(BOOLEAN) /\ Len(Tail(outcomes[p])) = Len(outcomes[p]) - 1
    BY <1>1, <2>1, HeadTailProperties
  <2> QED BY <1>1, <1>2, <1>3, <1>4, <2>2 DEF Pushed
<1>5. CASE ~(Len(outcomes[p]) >= WindowSize)
  BY <1>1, <1>2, <1>3, <1>5 DEF Pushed
<1> QED BY <1>4, <1>5

LEMMA StoreType ==
    ASSUME TypeOK, NEW p \in Processes, NEW v \in Vendors, NEW r \in VendorRecord,
           Store(p, v, r)
    PROVE  /\ file' \in PinFile /\ mem' \in [Processes -> PinFile]
BY DEF Store, TypeOK, PinFile

\* A pin an operator schedules.
LEMMA ScheduledPin ==
    ASSUME NEW fp \in Prints, NEW w \in Windows
    PROVE  [fp |-> fp, from |-> w[1], until |-> w[2]] \in Pin
BY RolloutAssumption DEF Pin

\* The operations on the pin file, seen together: process p replaced the record of
\* vendor v by what one of the five operations made of it.
Operated(r, s) ==
    \/ \E fp \in Prints : s = Rotate(r, fp) \/ s = Revoke(r, fp)
    \/ \E pin \in Pin : s = Schedule(r, pin)
    \/ s = Rollback(r)
    \/ s = Cutover(r, clock)

Stored ==
    \E p \in Processes, v \in Vendors : \E r :
        up[p] /\ Operated(mem[p][v], r) /\ Store(p, v, r)

\* What a step does to file, copies and clock.
LEMMA StepCases ==
    ASSUME TypeOK, [Next]_vars
    PROVE  \/ Stored /\ UNCHANGED <<clock, up>>
           \/ UNCHANGED <<clock, file>> /\ \E p \in Processes :
                    /\ up' = [up EXCEPT ![p] = TRUE]
                    /\ mem' = [mem EXCEPT ![p] = file]
           \/ UNCHANGED <<clock, file, mem>> /\ \E p \in Processes :
                    up' = [up EXCEPT ![p] = FALSE]
           \/ UNCHANGED <<file, mem, up>> /\ clock' \in {clock, clock + 1}
<1>1. ASSUME NEW p \in Processes, NEW v \in Vendors, NEW fp \in Prints, OnPin(p, v, fp)
      PROVE  \/ Stored /\ UNCHANGED <<clock, up>>
             \/ UNCHANGED <<clock, file, mem, up>>
  <2>1. CASE RotatePin(p, v, fp)
    BY <2>1 DEF RotatePin, Idle, Stored, Operated
  <2>2. CASE RevokePin(p, v, fp)
    BY <2>2 DEF RevokePin, Idle, Stored, Operated
  <2>3. CASE \E w \in Windows : SchedulePin(p, v, fp, w)
    <3>1. PICK w \in Windows : SchedulePin(p, v, fp, w)
      BY <2>3
    <3> DEFINE pin == [fp |-> fp, from |-> w[1], until |-> w[2]]
    <3>2. pin \in Pin
      BY ScheduledPin
    <3>3. Operated(mem[p][v], Schedule(mem[p][v], pin))
      BY <3>2 DEF Operated
    <3>4. up[p] /\ Store(p, v, Schedule(mem[p][v], pin)) /\ UNCHANGED <<clock, up>>
      BY <3>1 DEF SchedulePin, Idle
    <3> QED BY <3>3, <3>4 DEF Stored
  <2>4. CASE RefuseRevoked(p, v, fp)
    BY <2>4 DEF RefuseRevoked
  <2>5. CASE CheckPin(p, v, fp)
    <3>1. CASE Cutover(mem[p][v], clock) = mem[p][v]
      BY <2>5, <3>1 DEF CheckPin
    <3>2. CASE Cutover(mem[p][v], clock) # mem[p][v]
      BY <2>5, <3>2 DEF CheckPin, Idle, Stored, Operated
    <3> QED BY <3>1, <3>2
  <2> QED BY <1>1, <2>1, <2>2, <2>3, <2>4, <2>5 DEF OnPin
<1>2. ASSUME NEW p \in Processes, AutoRollback(p)
      PROVE  Stored /\ UNCHANGED <<clock, up>>
  <2>1. pending[p] \in Verdict
    BY <1>2 DEF AutoRollback, TypeOK, None
  <2>2. pending[p].vendor \in Vendors
    BY <2>1 DEF Verdict
  <2> QED BY <1>2, <2>2 DEF AutoRollback, Stored, Operated
<1>3. ASSUME NEW p \in Processes, NEW v \in Vendors, RollbackPins(p, v)
      PROVE  Stored /\ UNCHANGED <<clock, up>>
  BY <1>3 DEF RollbackPins, Idle, Stored, Operated
<1>4. ASSUME NEW p \in Processes, NEW v \in Vendors, AckFails(p, v)
      PROVE  UNCHANGED <<clock, file, mem, up>>
  BY <1>4 DEF AckFails
<1>5. ASSUME NEW p \in Processes, RecordOutcome(p) PROVE UNCHANGED <<clock, file, mem, up>>
  BY <1>5 DEF RecordOutcome
<1> QED
  BY <1>1, <1>2, <1>3, <1>4, <1>5 DEF Next, Start, Stop, Tick, vars

LEMMA OperatedType ==
    ASSUME NEW r \in VendorRecord, NEW s, Operated(r, s), clock \in Nat
    PROVE  s \in VendorRecord
BY OperationType, TurnType DEF Operated

LEMMA OperatedKeeps ==
    ASSUME NEW r \in VendorRecord, NEW s, Operated(r, s), clock \in Nat, Begun(r, clock)
    PROVE  Keeps(r, s, clock)
BY RotateKeeps, ScheduleKeeps, RevokeKeeps, RollbackKeeps, CutoverKeeps DEF Operated

\* Window, cooldown, verdict and history of a process keep their shapes.
LEMMA GuardType ==
    ASSUME TypeOK, [Next]_vars
    PROVE  /\ outcomes' \in [Processes -> Seq(BOOLEAN)]
           /\ \A p \in Processes : Len(outcomes'[p]) <= WindowSize
           /\ lastRollback' \in [Processes -> [Vendors -> Nat \cup {Absent}]]
           /\ pending' \in [Processes -> Verdict \cup {None}]
           /\ samples' \in [Processes -> Nat]
<1> DEFINE G == /\ outcomes' \in [Processes -> Seq(BOOLEAN)]
                /\ \A p \in Processes : Len(outcomes'[p]) <= WindowSize
                /\ lastRollback' \in [Processes -> [Vendors -> Nat \cup {Absent}]]
                /\ pending' \in [Processes -> Verdict \cup {None}]
                /\ samples' \in [Processes -> Nat]
<1>1. ASSUME UNCHANGED guard PROVE G
  BY <1>1 DEF guard, TypeOK
<1>2. ASSUME NEW p \in Processes, NEW v \in Vendors, NEW ok \in BOOLEAN, Judge(p, v, ok),
             UNCHANGED <<outcomes, lastRollback, samples>>
      PROVE  G
  <2>1. [busy |-> TRUE, vendor |-> v, ok |-> ok] \in Verdict
    BY DEF Verdict
  <2> QED BY <1>2, <2>1 DEF Judge, TypeOK
<1>3. ASSUME NEW p \in Processes, NEW v \in Vendors, NEW fp \in Prints, OnPin(p, v, fp)
      PROVE  G
  <2>1. CASE RefuseRevoked(p, v, fp)
    BY <1>2, <2>1 DEF RefuseRevoked
  <2>2. CASE CheckPin(p, v, fp)
    <3>1. PICK now \in EarlierReadings :
            Judge(p, v, fp \in Allowed(Cutover(mem[p][v], clock), now))
      BY <2>2 DEF CheckPin
    <3>2. UNCHANGED <<outcomes, lastRollback, samples>>
      BY <2>2 DEF CheckPin
    <3>3. (fp \in Allowed(Cutover(mem[p][v], clock), now)) \in BOOLEAN
      OBVIOUS
    <3> QED BY <1>2, <3>1, <3>2, <3>3
  <2>3. CASE RotatePin(p, v, fp) \/ RevokePin(p, v, fp) \/ \E w \in Windows : SchedulePin(p, v, fp, w)
    BY <1>1, <2>3 DEF RotatePin, RevokePin, SchedulePin
  <2> QED BY <1>3, <2>1, <2>2, <2>3 DEF OnPin
<1>4. ASSUME NEW p \in Processes, NEW v \in Vendors, RollbackPins(p, v) \/ AckFails(p, v)
      PROVE  G
  BY <1>1, <1>2, <1>4 DEF RollbackPins, AckFails
<1>5. ASSUME NEW p \in Processes, RecordOutcome(p) PROVE G
  <2>1. Counted(p) \in Nat
    BY DEF Counted, TypeOK
  <2>2. Pushed(p) \in Seq(BOOLEAN) /\ Len(Pushed(p)) <= WindowSize
    BY <1>5, PushedType DEF RecordOutcome
  <2> QED BY <1>5, <2>1, <2>2 DEF RecordOutcome, TypeOK
<1>6. ASSUME NEW p \in Processes, AutoRollback(p) PROVE G
  <2>1. << >> \in Seq(BOOLEAN) /\ Len(<< >>) <= WindowSize
    BY RolloutAssumption
  <2>2. lastRollback' = [lastRollback EXCEPT ![p][pending[p].vendor] = clock] /\ clock \in Nat
    BY <1>6 DEF AutoRollback, TypeOK
  <2>3. lastRollback' \in [Processes -> [Vendors -> Nat \cup {Absent}]]
    BY <2>2 DEF TypeOK
  <2> QED BY <1>6, <2>1, <2>3 DEF AutoRollback, TypeOK
<1>7. ASSUME NEW p \in Processes, Stop(p) PROVE G
  <2>1. << >> \in Seq(BOOLEAN) /\ Len(<< >>) <= WindowSize
    BY RolloutAssumption
  <2>2. Fresh \in [Vendors -> Nat \cup {Absent}]
    BY DEF Fresh
  <2> QED BY <1>7, <2>1, <2>2 DEF Stop, TypeOK
<1> QED
  BY <1>1, <1>3, <1>4, <1>5, <1>6, <1>7 DEF Next, Start, Tick, vars, guard

LEMMA TypeStep == TypeOK /\ [Next]_vars => TypeOK'
<1> SUFFICES ASSUME TypeOK, [Next]_vars PROVE TypeOK'
  OBVIOUS
<1>1. CASE Stored /\ UNCHANGED <<clock, up>>
  <2>0. PICK p \in Processes, v \in Vendors : \E r :
            Operated(mem[p][v], r) /\ Store(p, v, r)
    BY <1>1 DEF Stored
  <2>1. PICK r : Operated(mem[p][v], r) /\ Store(p, v, r)
    BY <2>0
  <2>2. mem[p][v] \in VendorRecord
    BY DEF TypeOK, PinFile
  <2>3. r \in VendorRecord
    BY <2>1, <2>2, OperatedType DEF TypeOK
  <2>4. file' \in PinFile /\ mem' \in [Processes -> PinFile]
    BY <2>1, <2>3, StoreType
  <2> QED BY <1>1, <2>4, GuardType DEF TypeOK
<1>2. ASSUME UNCHANGED <<clock, file>>,
             NEW p \in Processes, up' = [up EXCEPT ![p] = TRUE],
             mem' = [mem EXCEPT ![p] = file]
      PROVE  TypeOK'
  <2>1. mem' \in [Processes -> PinFile] /\ up' \in [Processes -> BOOLEAN]
    BY <1>2 DEF TypeOK
  <2> QED BY <1>2, <2>1, GuardType DEF TypeOK
<1>3. ASSUME UNCHANGED <<clock, file, mem>>, NEW p \in Processes, up' = [up EXCEPT ![p] = FALSE]
      PROVE  TypeOK'
  <2>1. up' \in [Processes -> BOOLEAN]
    BY <1>3 DEF TypeOK
  <2> QED BY <1>3, <2>1, GuardType DEF TypeOK
<1>4. CASE UNCHANGED <<file, mem, up>> /\ clock' \in {clock, clock + 1}
  <2>1. clock' \in Nat
    BY <1>4 DEF TypeOK
  <2> QED BY <1>4, <2>1, GuardType DEF TypeOK
<1> QED BY <1>1, <1>2, <1>3, <1>4, StepCases

LEMMA TypeInit == Init => TypeOK
<1> SUFFICES ASSUME Init PROVE TypeOK
  OBVIOUS
<1>1. << >> \in Seq(BOOLEAN) /\ Len(<< >>) <= WindowSize
  BY RolloutAssumption
<1>2. file \in PinFile /\ Fresh \in [Vendors -> Nat \cup {Absent}]
  BY RolloutAssumption DEF Init, Fresh
<1> QED BY <1>1, <1>2 DEF Init, TypeOK

\* Every reachable state is well typed; the window of outcomes is never longer
\* than configured.
THEOREM TypeCorrect == Spec => []TypeOK
BY TypeInit, TypeStep, PTL DEF Spec

-----------------------------------------------------------------------------
(* One process on the pin file.                                            *)

\* The pin file starts without active or previous pins of the future.
BegunAtStart == \A f \in InitialFiles : \A v \in Vendors : Begun(f[v], 0)

FileBegun == \A v \in Vendors : Begun(file[v], clock)

SoleInv == TypeOK /\ MemoryIsFile /\ FileBegun

\* A sole writer works on what the file holds.
LEMMA StoredKeeps ==
    ASSUME SoleWriter, SoleInv, Stored
    PROVE  /\ \A v \in Vendors : file'[v] = file[v] \/ Keeps(file[v], file'[v], clock)
           /\ \A p \in Processes : up[p] => mem'[p] = file'
<1>0. PICK p \in Processes, v \in Vendors : \E r :
          up[p] /\ Operated(mem[p][v], r) /\ Store(p, v, r)
  BY DEF Stored
<1>1. PICK r : up[p] /\ Operated(mem[p][v], r) /\ Store(p, v, r)
  BY <1>0
<1>2. mem[p] = file
  BY <1>1 DEF SoleInv, MemoryIsFile
<1>3. file \in PinFile /\ clock \in Nat /\ file[v] \in VendorRecord
  BY DEF SoleInv, TypeOK, PinFile
<1>4. Keeps(file[v], r, clock)
  BY <1>1, <1>2, <1>3, OperatedKeeps DEF SoleInv, FileBegun
<1>5. file' = [file EXCEPT ![v] = r] /\ mem'[p] = [file EXCEPT ![v] = r]
  BY <1>1, <1>2 DEF Store, SoleInv, TypeOK
<1>6. \A q \in Processes : q = p
  BY DEF SoleWriter
<1>7. \A u \in Vendors : file'[u] = IF u = v THEN r ELSE file[u]
  BY <1>3, <1>5 DEF PinFile
<1> QED BY <1>4, <1>5, <1>6, <1>7

LEMMA SoleStep ==
    ASSUME SoleWriter
    PROVE  SoleInv /\ [Next]_vars => SoleInv'
<1> SUFFICES ASSUME SoleInv, [Next]_vars PROVE SoleInv'
  OBVIOUS
<1>0. TypeOK /\ TypeOK'
  BY TypeStep DEF SoleInv
<1>1. CASE Stored /\ UNCHANGED <<clock, up>>
  <2>1. MemoryIsFile'
    BY <1>1, StoredKeeps DEF MemoryIsFile
  <2>2. FileBegun'
    BY <1>1, StoredKeeps DEF FileBegun, SoleInv, Keeps
  <2> QED BY <1>0, <2>1, <2>2 DEF SoleInv
<1>2. ASSUME UNCHANGED <<clock, file>>, NEW p \in Processes, mem' = [mem EXCEPT ![p] = file]
      PROVE  SoleInv'
  <2>1. \A q \in Processes : mem'[q] = file'
    BY <1>0, <1>2 DEF SoleWriter, TypeOK
  <2> QED BY <1>0, <1>2, <2>1 DEF SoleInv, MemoryIsFile, FileBegun
<1>3. ASSUME UNCHANGED <<clock, file, mem>>, NEW p \in Processes, up' = [up EXCEPT ![p] = FALSE]
      PROVE  SoleInv'
  <2>1. \A q \in Processes : ~up'[q]
    BY <1>0, <1>3 DEF SoleWriter, TypeOK
  <2> QED BY <1>0, <1>3, <2>1 DEF SoleInv, MemoryIsFile, FileBegun
<1>4. CASE UNCHANGED <<file, mem, up>> /\ clock' \in {clock, clock + 1}
  <2>1. MemoryIsFile'
    BY <1>4 DEF SoleInv, MemoryIsFile
  <2>2. FileBegun'
    <3> SUFFICES ASSUME NEW v \in Vendors, NEW pin \in file[v].active \cup file[v].previous
                 PROVE  pin.from <= clock'
      BY <1>4 DEF FileBegun, Begun
    <3>1. pin.from <= clock
      BY DEF SoleInv, FileBegun, Begun
    <3>2. pin.from \in Nat /\ clock \in Nat
      BY <1>0 DEF TypeOK, PinFile, VendorRecord, Pin
    <3> QED BY <1>4, <3>1, <3>2
  <2> QED BY <1>0, <2>1, <2>2 DEF SoleInv
<1> QED BY <1>0, <1>1, <1>2, <1>3, <1>4, StepCases

LEMMA SoleInit == ASSUME BegunAtStart PROVE Init => SoleInv
BY TypeInit DEF Init, SoleInv, MemoryIsFile, FileBegun, BegunAtStart

\* Under one writer no step loses an unexpired pin or a revocation.
LEMMA SoleKeeps ==
    ASSUME SoleWriter, SoleInv, [Next]_vars, NEW v \in Vendors
    PROVE  file'[v] = file[v] \/ Keeps(file[v], file'[v], clock)
<1>1. Stored \/ file' = file
  BY StepCases DEF SoleInv
<1> QED BY <1>1, StoredKeeps

\* A sole process can die at any point: the file holds what it decided by.
THEOREM RestartsAgree ==
    ASSUME SoleWriter, BegunAtStart
    PROVE  Spec => []MemoryIsFile
<1>1. SoleInv => MemoryIsFile
  BY DEF SoleInv
<1> QED BY <1>1, SoleInit, SoleStep, PTL DEF Spec

\* With one process on the pin file neither cutovers nor rollbacks nor restarts
\* lose a pin before it expires.
THEOREM PinsKept ==
    ASSUME SoleWriter, BegunAtStart
    PROVE  Spec => UnexpiredPinsKept
<1> DEFINE A == \A v \in Vendors : \A pin \in file[v].active \cup file[v].next :
                   pin.until >= clock => pin \in file'[v].active \cup file'[v].next
<1>1. SoleInv /\ [Next]_vars => [A]_vars
  BY SoleKeeps DEF Keeps
<1>2. Spec => [][A]_vars
  BY <1>1, SoleInit, SoleStep, PTL DEF Spec
<1> QED BY <1>2 DEF UnexpiredPinsKept

\* With one process on the pin file a revocation is never undone.
THEOREM RevocationsStay ==
    ASSUME SoleWriter, BegunAtStart
    PROVE  Spec => RevocationStays
<1> DEFINE A == \A v \in Vendors : file[v].revoked \subseteq file'[v].revoked
<1>1. SoleInv /\ [Next]_vars => [A]_vars
  BY SoleKeeps DEF Keeps
<1>2. Spec => [][A]_vars
  BY <1>1, SoleInit, SoleStep, PTL DEF Spec
<1> QED BY <1>2 DEF RevocationStays

-----------------------------------------------------------------------------
(* The evidence behind a rollback, for any number of processes.            *)

\* Only running processes have a verdict to record, and the window never holds
\* verdicts from before the last rollback.
EvidenceInv ==
    /\ TypeOK
    /\ \A p \in Processes : pending[p].busy => up[p]
    /\ \A p \in Processes : Len(outcomes[p]) <= samples[p] \/ samples[p] >= MinSamples

LEMMA EvidenceStep == EvidenceInv /\ [Next]_vars => EvidenceInv'
<1> SUFFICES ASSUME EvidenceInv, [Next]_vars PROVE EvidenceInv'
  OBVIOUS
<1>0. TypeOK /\ TypeOK'
  BY TypeStep DEF EvidenceInv
<1>1. ASSUME UNCHANGED guard, \A q \in Processes : up[q] => up'[q] PROVE EvidenceInv'
  BY <1>0, <1>1 DEF guard, EvidenceInv
<1>2. ASSUME NEW p \in Processes, NEW v \in Vendors, NEW ok, Judge(p, v, ok),
             up[p], UNCHANGED <<outcomes, samples, up>>
      PROVE  EvidenceInv'
  BY <1>0, <1>2 DEF Judge, EvidenceInv, TypeOK
<1>3. ASSUME NEW p \in Processes, NEW v \in Vendors, NEW fp \in Prints, OnPin(p, v, fp)
      PROVE  EvidenceInv'
  <2>1. CASE RefuseRevoked(p, v, fp)
    BY <1>2, <2>1 DEF RefuseRevoked, Idle
  <2>2. CASE CheckPin(p, v, fp)
    BY <1>2, <2>2 DEF CheckPin, Idle
  <2>3. CASE RotatePin(p, v, fp) \/ RevokePin(p, v, fp) \/ \E w \in Windows : SchedulePin(p, v, fp, w)
    BY <1>1, <2>3 DEF RotatePin, RevokePin, SchedulePin
  <2> QED BY <1>3, <2>1, <2>2, <2>3 DEF OnPin
<1>4. ASSUME NEW p \in Processes, NEW v \in Vendors, RollbackPins(p, v) \/ AckFails(p, v)
      PROVE  EvidenceInv'
  BY <1>1, <1>2, <1>4 DEF RollbackPins, AckFails, Idle
<1>5. ASSUME NEW p \in Processes, RecordOutcome(p) PROVE EvidenceInv'
  <2>1. Len(Pushed(p)) <= Len(outcomes[p]) + 1 /\ Pushed(p) \in Seq(BOOLEAN)
    BY <1>0, <1>5, PushedType DEF RecordOutcome
  <2>2. outcomes'[p] = Pushed(p) /\ samples'[p] = Counted(p)
    BY <1>0, <1>5 DEF RecordOutcome, TypeOK
  <2>3. \A q \in Processes : q # p => outcomes'[q] = outcomes[q] /\ samples'[q] = samples[q]
    BY <1>0, <1>5 DEF RecordOutcome, TypeOK
  <2>4. Len(outcomes'[p]) <= samples'[p] \/ samples'[p] >= MinSamples
    <3>1. samples[p] \in Nat /\ MinSamples \in Nat
      BY <1>0, RolloutAssumption DEF TypeOK
    <3>2. Len(outcomes[p]) \in Nat /\ Len(Pushed(p)) \in Nat
      BY <1>0, <2>1 DEF TypeOK
    <3>3. Len(outcomes[p]) <= samples[p] \/ samples[p] >= MinSamples
      BY DEF EvidenceInv
    <3> QED BY <2>1, <2>2, <3>1, <3>2, <3>3 DEF Counted
  <2>5. \A q \in Processes : pending'[q].busy => up'[q]
    BY <1>0, <1>5 DEF RecordOutcome, EvidenceInv, TypeOK, None
  <2> QED BY <1>0, <2>3, <2>4, <2>5 DEF EvidenceInv
<1>6. ASSUME NEW p \in Processes,
             outcomes' = [outcomes EXCEPT ![p] = << >>],
             samples' = [samples EXCEPT ![p] = 0],
             pending' = [pending EXCEPT ![p] = None],
             \A q \in Processes : q # p => up'[q] = up[q]
      PROVE  EvidenceInv'
  <2>1. /\ outcomes'[p] = << >> /\ samples'[p] = 0 /\ pending'[p] = None
        /\ \A q \in Processes : q # p => /\ outcomes'[q] = outcomes[q]
                                         /\ samples'[q] = samples[q]
                                         /\ pending'[q] = pending[q]
    BY <1>0, <1>6 DEF TypeOK
  <2> QED BY <1>0, <1>6, <2>1 DEF EvidenceInv, None
<1>7. ASSUME NEW p \in Processes, AutoRollback(p) PROVE EvidenceInv'
  BY <1>6, <1>7 DEF AutoRollback
<1>8. ASSUME NEW p \in Processes, Stop(p) PROVE EvidenceInv'
  <2>1. \A q \in Processes : q # p => up'[q] = up[q]
    BY <1>0, <1>8 DEF Stop, TypeOK
  <2> QED BY <1>6, <1>8, <2>1 DEF Stop
<1>9. ASSUME NEW p \in Processes, Start(p) PROVE EvidenceInv'
  <2>1. \A q \in Processes : up[q] => up'[q]
    BY <1>0, <1>9 DEF Start, TypeOK
  <2> QED BY <1>1, <1>9, <2>1 DEF Start
<1>10. CASE Tick
  BY <1>1, <1>10 DEF Tick
<1>11. CASE UNCHANGED vars
  BY <1>1, <1>11 DEF vars
<1> QED
  BY <1>3, <1>4, <1>5, <1>7, <1>8, <1>9, <1>10, <1>11 DEF Next

LEMMA EvidenceInit == Init => EvidenceInv
BY TypeInit DEF Init, EvidenceInv, None

\* An automatic rollback takes MinSamples verdicts since the last one, in every
\* process and over all vendors.
THEOREM RollbacksHaveEvidence == Spec => FreshEvidence
<1> DEFINE A == \A p \in Processes, v \in Vendors :
          /\ pending[p].busy /\ mem[p][v].previous # {} /\ mem'[p][v].previous = {}
          => samples[p] + 1 >= MinSamples
<1>1. EvidenceInv /\ [Next]_vars => [A]_vars
  <2> SUFFICES ASSUME EvidenceInv, [Next]_vars, NEW p \in Processes, NEW v \in Vendors,
                      pending[p].busy, mem[p][v].previous # {}, mem'[p][v].previous = {}
               PROVE  samples[p] + 1 >= MinSamples
    OBVIOUS
  <2>1. mem'[p] # mem[p]
    OBVIOUS
  <2>2. up[p]
    BY DEF EvidenceInv
  <2>3. \A q \in Processes, u \in Vendors : \A r : Store(q, u, r) => q = p
    BY <2>1 DEF Store, EvidenceInv, TypeOK
  <2>4. ~\E q \in Processes, u \in Vendors, fp \in Prints : OnPin(q, u, fp)
    <3> SUFFICES ASSUME NEW q \in Processes, NEW u \in Vendors, NEW fp \in Prints,
                        OnPin(q, u, fp)
                 PROVE  FALSE
      OBVIOUS
    <3>1. CASE RotatePin(q, u, fp)
      BY <2>3, <3>1 DEF RotatePin, Idle
    <3>2. CASE RevokePin(q, u, fp)
      BY <2>3, <3>2 DEF RevokePin, Idle
    <3>3. CASE \E w \in Windows : SchedulePin(q, u, fp, w)
      BY <2>3, <3>3 DEF SchedulePin, Idle
    <3>4. CASE RefuseRevoked(q, u, fp)
      BY <2>1, <3>4 DEF RefuseRevoked
    <3>5. CASE CheckPin(q, u, fp)
      <4>1. CASE Cutover(mem[q][u], clock) = mem[q][u]
        BY <2>1, <3>5, <4>1 DEF CheckPin
      <4>2. CASE Cutover(mem[q][u], clock) # mem[q][u]
        BY <2>3, <3>5, <4>2 DEF CheckPin, Idle
      <4> QED BY <4>1, <4>2
    <3> QED BY <3>1, <3>2, <3>3, <3>4, <3>5 DEF OnPin
  <2>5. ~\E q \in Processes, u \in Vendors : RollbackPins(q, u) \/ AckFails(q, u)
    BY <2>1, <2>3 DEF RollbackPins, AckFails, Idle
  <2>6. ~\E q \in Processes : Start(q) \/ Stop(q) \/ RecordOutcome(q)
    BY <2>1, <2>2 DEF Start, Stop, RecordOutcome, EvidenceInv, TypeOK
  <2>7. PICK q \in Processes : AutoRollback(q)
    BY <2>1, <2>4, <2>5, <2>6 DEF Next, Tick, vars
  <2>8. pending[q].vendor \in Vendors
    <3>1. pending[q] \in Verdict
      BY <2>7 DEF AutoRollback, EvidenceInv, TypeOK, None
    <3> QED BY <3>1 DEF Verdict
  <2>9. q = p
    BY <2>3, <2>7, <2>8 DEF AutoRollback
  <2>10. Len(Pushed(p)) >= MinSamples /\ Len(Pushed(p)) <= Len(outcomes[p]) + 1
    BY <2>7, <2>9, PushedType DEF AutoRollback, Breached, EvidenceInv
  <2>11. Pushed(p) \in Seq(BOOLEAN) /\ outcomes[p] \in Seq(BOOLEAN) /\ samples[p] \in Nat
    BY PushedType DEF EvidenceInv, TypeOK
  <2>12. Len(Pushed(p)) \in Nat /\ Len(outcomes[p]) \in Nat /\ MinSamples \in Nat
    BY <2>11, RolloutAssumption
  <2>13. Len(outcomes[p]) <= samples[p] \/ samples[p] >= MinSamples
    BY DEF EvidenceInv
  <2> QED BY <2>10, <2>11, <2>12, <2>13
<1>2. Spec => [][A]_vars
  BY <1>1, EvidenceInit, EvidenceStep, PTL DEF Spec
<1> QED BY <1>2 DEF FreshEvidence

-----------------------------------------------------------------------------
(* The gate.                                                               *)

\* The key ring in front of the pins takes verdicts away from the guard and adds
\* none of its own: a step of the gate is one of the guard, or leaves it alone.
THEOREM GateIsGuard == GateSpec => Spec
<1>1. GateInit => Init
  BY DEF GateInit
<1>2. [GateNext]_gateVars => [Next]_vars
  <2> SUFFICES ASSUME [GateNext]_gateVars PROVE [Next]_vars
    OBVIOUS
  <2>1. ASSUME NEW p \in Processes, BuildTransport(p) \/ DropTransport(p) \/ Count(p)
        PROVE  Next
    BY <2>1 DEF BuildTransport, DropTransport, Count, Next
  <2>2. ASSUME NEW p \in Processes, NEW v \in Vendors, NEW kid \in KeyIds, NEW fp \in Prints,
               Acknowledge(p, v, kid, fp)
        PROVE  Next
    BY <2>2 DEF Acknowledge, Verify, OnPin, Next
  <2>3. ASSUME NEW v \in Vendors, NEW kid \in KeyIds, RotateInFile(v, kid) \/ RevokeInFile(v, kid)
        PROVE  UNCHANGED vars
    BY <2>3 DEF RotateInFile, RevokeInFile
  <2>4. CASE ElsewhereOnPins
    BY <2>4 DEF ElsewhereOnPins, OnPin, Next
  <2>5. CASE UNCHANGED gateVars
    BY <2>5 DEF gateVars
  <2> QED BY <2>1, <2>2, <2>3, <2>4, <2>5 DEF GateNext
<1> QED BY <1>1, <1>2, PTL DEF GateSpec, Spec

\* What was revoked is revoked in the file, and what was revoked when a transport
\* was built is revoked in its copy.
BarredInv ==
    /\ keyFile \in KeyFile /\ ring \in [Processes -> KeyFile]
    /\ gone \in [Vendors -> SUBSET KeyIds]
    /\ barred \in [Processes -> [Vendors -> SUBSET KeyIds]]
    /\ signer \in [Processes -> SUBSET KeyIds]
    /\ \A v \in Vendors : gone[v] \subseteq keyFile[v].revoked
    /\ \A p \in Processes, v \in Vendors : barred[p][v] \subseteq ring[p][v].revoked
    /\ \A p \in Processes : pending[p].busy => up[p]
    /\ RevokedKeyRefused

\* A step that leaves file, copies and verdicts alone.
LEMMA BarredFrame ==
    ASSUME BarredInv, UNCHANGED <<keyring, pending>>, \A p \in Processes : up[p] => up'[p]
    PROVE  BarredInv'
BY DEF BarredInv, RevokedKeyRefused, keyring

LEMMA AcknowledgeBarred ==
    ASSUME TypeOK, BarredInv, NEW p \in Processes, NEW v \in Vendors, NEW kid \in KeyIds, NEW fp \in Prints,
           Acknowledge(p, v, kid, fp)
    PROVE  BarredInv'
<1>1. UNCHANGED <<keyFile, ring, gone, barred, up>>
      /\ signer' = [signer EXCEPT ![p] = IF pending'[p].ok THEN {kid} ELSE {}]
  BY DEF Acknowledge, Verify, AckFails, RefuseRevoked, CheckPin
<1>2. up[p] /\ \E ok \in BOOLEAN :
         Judge(p, v, ok) /\ (ok => kid \notin ring[p][v].revoked)
  <2>1. CASE AckFails(p, v) \/ RefuseRevoked(p, v, fp)
    BY <2>1 DEF AckFails, RefuseRevoked, Idle
  <2>2. CASE KeyUsable(ring[p][v], kid) /\ CheckPin(p, v, fp)
    <3>1. up[p] /\ kid \notin ring[p][v].revoked
      BY <2>2 DEF CheckPin, Idle, KeyUsable
    <3>2. PICK now : Judge(p, v, fp \in Allowed(Cutover(mem[p][v], clock), now))
      BY <2>2 DEF CheckPin
    <3> DEFINE ok == fp \in Allowed(Cutover(mem[p][v], clock), now)
    <3>3. ok \in BOOLEAN
      OBVIOUS
    <3> HIDE DEF ok
    <3>4. Judge(p, v, ok)
      BY <3>2 DEF ok
    <3> QED BY <3>1, <3>3, <3>4
  <2> QED BY <2>1, <2>2 DEF Acknowledge, Verify
<1>3. PICK ok \in BOOLEAN :
         /\ pending' = [pending EXCEPT ![p] = [busy |-> TRUE, vendor |-> v, ok |-> ok]]
         /\ ok => kid \notin ring[p][v].revoked
  BY <1>2 DEF Judge
<1>4. pending'[p] = [busy |-> TRUE, vendor |-> v, ok |-> ok]
  BY <1>3 DEF TypeOK
<1>5. \A q \in Processes \ {p} : pending'[q] = pending[q] /\ signer'[q] = signer[q]
  BY <1>1, <1>3 DEF TypeOK, BarredInv
<1>6. signer'[p] = IF ok THEN {kid} ELSE {}
  BY <1>1, <1>4 DEF BarredInv
<1>7. ok => signer'[p] \cap barred[p][v] = {}
  BY <1>3, <1>6 DEF BarredInv
<1>8. RevokedKeyRefused'
  BY <1>1, <1>4, <1>5, <1>7 DEF BarredInv, RevokedKeyRefused
<1>9. signer' \in [Processes -> SUBSET KeyIds]
  BY <1>1 DEF BarredInv
<1>10. \A q \in Processes : pending'[q].busy => up'[q]
  BY <1>1, <1>2, <1>5 DEF BarredInv
<1> QED BY <1>1, <1>8, <1>9, <1>10 DEF BarredInv

LEMMA BarredStep ==
    ASSUME TypeOK, BarredInv, [GateNext]_gateVars
    PROVE  BarredInv'
<1>1. ASSUME NEW p \in Processes, BuildTransport(p)
      PROVE  BarredInv'
  <2>1. /\ ring' = [ring EXCEPT ![p] = keyFile] /\ barred' = [barred EXCEPT ![p] = gone]
        /\ UNCHANGED <<keyFile, signer, gone, pending>>
        /\ ~up[p] /\ up' = [up EXCEPT ![p] = TRUE]
    BY <1>1 DEF BuildTransport, Start, guard
  <2>2. ~pending[p].busy
    BY <2>1 DEF BarredInv
  <2>3. ring' \in [Processes -> KeyFile] /\ barred' \in [Processes -> [Vendors -> SUBSET KeyIds]]
    BY <2>1 DEF BarredInv
  <2>4. \A q \in Processes, v \in Vendors : barred'[q][v] \subseteq ring'[q][v].revoked
    BY <2>1 DEF BarredInv
  <2>5. RevokedKeyRefused'
    BY <2>1, <2>2 DEF BarredInv, RevokedKeyRefused
  <2>6. \A q \in Processes : pending'[q].busy => up'[q]
    BY <2>1 DEF BarredInv, TypeOK
  <2> QED BY <2>1, <2>3, <2>4, <2>5, <2>6 DEF BarredInv
<1>2. ASSUME NEW p \in Processes, DropTransport(p) \/ Count(p)
      PROVE  BarredInv'
  <2>1. /\ UNCHANGED <<keyFile, ring, gone, barred>>
        /\ signer' = [signer EXCEPT ![p] = {}] /\ pending' = [pending EXCEPT ![p] = None]
        /\ up' = up \/ up' = [up EXCEPT ![p] = FALSE]
    BY <1>2 DEF DropTransport, Count, Stop, RecordOutcome, AutoRollback
  <2>2. ~pending'[p].busy /\ signer' \in [Processes -> SUBSET KeyIds]
    BY <2>1 DEF TypeOK, None, BarredInv
  <2>3. \A q \in Processes \ {p} : pending'[q] = pending[q] /\ signer'[q] = signer[q] /\ up'[q] = up[q]
    BY <2>1 DEF TypeOK, BarredInv
  <2> QED BY <2>1, <2>2, <2>3 DEF BarredInv, RevokedKeyRefused
<1>3. ASSUME NEW v \in Vendors, NEW kid \in KeyIds, RotateInFile(v, kid)
      PROVE  BarredInv'
  <2>1. keyFile' = [keyFile EXCEPT ![v] = RotateKey(@, kid)]
        /\ UNCHANGED <<ring, signer, gone, barred, pending, up>>
    BY <1>3 DEF RotateInFile, vars, guard
  <2>2. RotateKey(keyFile[v], kid) \in KeyRecord
        /\ RotateKey(keyFile[v], kid).revoked = keyFile[v].revoked
    BY DEF BarredInv, KeyFile, KeyRecord, RotateKey
  <2>3. keyFile' \in KeyFile /\ \A w \in Vendors : keyFile'[w].revoked = keyFile[w].revoked
    BY <2>1, <2>2 DEF BarredInv, KeyFile
  <2> QED BY <2>1, <2>3 DEF BarredInv, RevokedKeyRefused
<1>4. ASSUME NEW v \in Vendors, NEW kid \in KeyIds, RevokeInFile(v, kid)
      PROVE  BarredInv'
  <2>1. /\ keyFile' = [keyFile EXCEPT ![v] = RevokeKey(@, kid)]
        /\ gone' = [gone EXCEPT ![v] = @ \cup {kid}]
        /\ UNCHANGED <<ring, signer, barred, pending, up>>
    BY <1>4 DEF RevokeInFile, vars, guard
  <2>2. RevokeKey(keyFile[v], kid) \in KeyRecord
        /\ RevokeKey(keyFile[v], kid).revoked = keyFile[v].revoked \cup {kid}
    BY DEF BarredInv, KeyFile, KeyRecord, RevokeKey
  <2>3. keyFile' \in KeyFile /\ gone' \in [Vendors -> SUBSET KeyIds]
        /\ \A w \in Vendors : gone'[w] \subseteq keyFile'[w].revoked
    BY <2>1, <2>2 DEF BarredInv, KeyFile
  <2> QED BY <2>1, <2>3 DEF BarredInv, RevokedKeyRefused
<1>5. CASE ElsewhereOnPins
  <2>1. UNCHANGED <<keyring, pending, up>>
    BY <1>5 DEF ElsewhereOnPins, Tick, RollbackPins, RotatePin, RevokePin, SchedulePin, guard
  <2> QED BY <2>1, BarredFrame
<1>6. CASE UNCHANGED gateVars
  BY <1>6, BarredFrame DEF gateVars, vars, guard
<1> QED BY <1>1, <1>2, <1>3, <1>4, <1>5, <1>6, AcknowledgeBarred DEF GateNext

LEMMA BarredInit ==
    ASSUME GateInit
    PROVE  BarredInv
<1>1. keyFile \in KeyFile
  BY GateAssumption DEF GateInit
<1>2. gone \in [Vendors -> SUBSET KeyIds]
  BY <1>1 DEF GateInit, KeyFile, KeyRecord
<1>3. RevokedKeyRefused
  BY DEF GateInit, Init, None, RevokedKeyRefused
<1> QED BY <1>1, <1>2, <1>3 DEF GateInit, Init, None, BarredInv

\* However keys are rotated and revoked in the file, by anyone and in any order, no
\* transport accepts a signature by a key revoked before it was built.
THEOREM RevokedKeysRefused == GateSpec => []RevokedKeyRefused
<1>1. BarredInv => RevokedKeyRefused
  BY DEF BarredInv
<1>2. GateSpec => []TypeOK
  BY GateIsGuard, TypeCorrect, PTL
<1> QED BY <1>1, <1>2, BarredInit, BarredStep, PTL DEF GateSpec

=============================================================================
