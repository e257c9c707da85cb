--------------------------- MODULE AuditLogProofs ---------------------------
(***************************************************************************)
(* Proofs about the signed audit log, for any number of loggers and calls. *)
(***************************************************************************)
EXTENDS AuditLog, TLAPS

\* What writing does to the file: with a piece of a line at its end, that line
\* becomes garbage; without one, a line is appended.
LEMMA WithLine ==
    ASSUME TypeOK, NEW line \in Line
    PROVE  /\ With(line) \in Seq(Line)
           /\ With(line) # <<>>
           /\ \A i \in 1 .. Len(file) - 1 : With(line)[i] = file[i]
           /\ torn => /\ Len(With(line)) = Len(file)
                      /\ With(line)[Len(file)] = Garbage
           /\ ~torn => /\ Len(With(line)) = Len(file) + 1
                       /\ With(line)[Len(file) + 1] = line
                       /\ \A i \in 1 .. Len(file) : With(line)[i] = file[i]
<1>1. file \in Seq(Line) /\ Garbage \in Line /\ (torn => file # <<>>) /\ torn \in BOOLEAN
  BY DEF TypeOK, Line
<1>2. CASE torn
  <2>1. Len(file) \in 1 .. Len(file)
    BY <1>1, <1>2
  <2>2. [file EXCEPT ![Len(file)] = Garbage] \in Seq(Line)
    BY <1>1, <2>1
  <2> QED
    BY <1>1, <1>2, <2>1, <2>2 DEF With
<1>3. CASE ~torn
  BY <1>1, <1>3 DEF With
<1> QED
  BY <1>1, <1>2, <1>3

\* A signature is the start of the chain, was written, or was swallowed.
Resolved(sig, lines) ==
    sig = 0 \/ \E j \in DOMAIN lines : lines[j] = Garbage \/ lines[j].sig = sig

\* The last hash a logger goes on with: what it wrote but did not yet remember,
\* else what it remembers.
GoesOnWith(l) == IF fresh[l] # 0 THEN fresh[l] ELSE last[l]

Ends(sig) == file # <<>> /\ file[Len(file)] # Garbage => file[Len(file)].sig = sig

\* A sole logger goes on with the signature at the end of the file, unless that
\* line is broken; every logger goes on with one that resolves.
LogInv ==
    /\ TypeOK
    /\ \A l \in Loggers \ up : fresh[l] = 0
    /\ ~shared => \A l, m \in up : l = m
    /\ ~shared /\ ~torn => \A l \in up : Ends(GoesOnWith(l))
    /\ \A l \in up : Resolved(last[l], file) /\ Resolved(fresh[l], file)
    /\ ChainUnbroken
    /\ LinksResolve

LEMMA InitHolds == Init => LogInv
<1> SUFFICES ASSUME Init PROVE LogInv
  OBVIOUS
<1>1. file = <<>> /\ Len(file) = 0 /\ DOMAIN file = {} /\ file \in Seq(Line)
  BY DEF Init
<1>2. TypeOK
  BY <1>1 DEF Init, TypeOK
<1>3. ChainUnbroken /\ LinksResolve
  BY <1>1 DEF ChainUnbroken, LinksResolve
<1> QED
  BY <1>2, <1>3 DEF Init, LogInv

\* What resolves still does when the file was written to.
LEMMA StaysResolved ==
    ASSUME TypeOK, NEW line \in Line, NEW sig, Resolved(sig, file)
    PROVE  Resolved(sig, With(line))
<1>1. CASE sig = 0
  BY <1>1 DEF Resolved
<1>2. CASE \E j \in DOMAIN file : file[j] = Garbage \/ file[j].sig = sig
  <2>1. PICK j \in DOMAIN file : file[j] = Garbage \/ file[j].sig = sig
    BY <1>2
  <2>2. file \in Seq(Line) /\ With(line) \in Seq(Line) /\ torn \in BOOLEAN
    BY WithLine DEF TypeOK
  <2>3. /\ \A i \in 1 .. Len(file) - 1 : With(line)[i] = file[i]
        /\ torn => Len(With(line)) = Len(file) /\ With(line)[Len(file)] = Garbage
        /\ ~torn => /\ Len(With(line)) = Len(file) + 1
                    /\ \A i \in 1 .. Len(file) : With(line)[i] = file[i]
    BY WithLine
  <2>4. j \in 1 .. Len(file)
    BY <2>1, <2>2
  <2>5. j \in DOMAIN With(line)
    BY <2>2, <2>3, <2>4
  <2>6. With(line)[j] = file[j] \/ With(line)[j] = Garbage
    BY <2>2, <2>3, <2>4
  <2> QED
    BY <2>1, <2>5, <2>6 DEF Resolved
<1> QED
  BY <1>1, <1>2 DEF Resolved

\* Writing the record of a logger that goes on with its last hash, or a piece of
\* it, keeps the chain and its links.
LEMMA WritingKeepsChain ==
    ASSUME LogInv, NEW l \in up, fresh[l] = 0, NEW n \in Nat,
           NEW line \in {Garbage, [prev |-> last[l], sig |-> n]},
           file' = With(line), shared' = shared
    PROVE  ChainUnbroken' /\ LinksResolve'
<1> DEFINE f == With(line)
<1>1. /\ file \in Seq(Line) /\ torn \in BOOLEAN /\ last[l] \in Nat
      /\ line \in Line /\ shared \in BOOLEAN
  BY DEF LogInv, TypeOK, Line, Record
<1>2. /\ f \in Seq(Line)
      /\ \A i \in 1 .. Len(file) - 1 : f[i] = file[i]
      /\ torn => Len(f) = Len(file) /\ f[Len(file)] = Garbage
      /\ ~torn => /\ Len(f) = Len(file) + 1 /\ f[Len(file) + 1] = line
                  /\ \A i \in 1 .. Len(file) : f[i] = file[i]
  BY <1>1, WithLine DEF LogInv
<1>3. ChainUnbroken'
  <2> SUFFICES ASSUME ~shared, NEW i \in 1 .. Len(f) - 1,
                      f[i] # Garbage, f[i + 1] # Garbage
               PROVE  f[i + 1].prev = f[i].sig
    BY <1>1 DEF ChainUnbroken
  <2>1. CASE torn
    <3>1. i + 1 # Len(file) /\ Len(f) = Len(file)
      BY <1>1, <1>2, <2>1
    <3>2. i + 1 \in 1 .. Len(file) - 1 /\ i \in 1 .. Len(file) - 1
      BY <1>1, <1>2, <3>1
    <3>3. f[i] = file[i] /\ f[i + 1] = file[i + 1]
      BY <1>1, <1>2, <3>2
    <3> QED
      BY <3>2, <3>3 DEF LogInv, ChainUnbroken
  <2>2. CASE ~torn /\ i < Len(file)
    <3>1. i \in 1 .. Len(file) - 1 /\ i + 1 \in 1 .. Len(file)
      BY <1>1, <1>2, <2>2
    <3>2. f[i] = file[i] /\ f[i + 1] = file[i + 1]
      BY <1>1, <1>2, <2>2, <3>1
    <3> QED
      BY <3>1, <3>2 DEF LogInv, ChainUnbroken
  <2>3. CASE ~torn /\ i >= Len(file)
    <3>1. i = Len(file) /\ f[i + 1] = line /\ f[i] = file[i] /\ file # <<>>
      BY <1>1, <1>2, <2>3
    <3>2. Ends(last[l])
      BY <2>3 DEF LogInv, GoesOnWith
    <3> QED
      BY <3>1, <3>2 DEF Ends
  <2> QED
    BY <1>1, <1>2, <2>1, <2>2, <2>3
<1>4. LinksResolve'
  <2> SUFFICES ASSUME NEW i \in DOMAIN f, f[i] # Garbage, f[i].prev # 0
               PROVE  \E j \in 1 .. i - 1 : f[j] = Garbage \/ f[j].sig = f[i].prev
    BY DEF LinksResolve
  <2>1. i \in 1 .. Len(f)
    BY <1>2
  <2>2. CASE ~torn /\ i = Len(file) + 1
    <3>1. f[i] = [prev |-> last[l], sig |-> n]
      BY <1>1, <1>2, <2>2
    <3>2. PICK j \in DOMAIN file : file[j] = Garbage \/ file[j].sig = last[l]
      BY <3>1 DEF LogInv, Resolved
    <3>3. j \in 1 .. i - 1 /\ f[j] = file[j]
      BY <1>1, <1>2, <2>2, <3>2
    <3> QED
      BY <3>1, <3>2, <3>3
  <2>3. CASE ~(~torn /\ i = Len(file) + 1)
    <3>1. i \in 1 .. Len(file) /\ f[i] = file[i] /\ (torn => i # Len(file))
      BY <1>1, <1>2, <2>1, <2>3
    <3>2. PICK j \in 1 .. i - 1 : file[j] = Garbage \/ file[j].sig = file[i].prev
      BY <1>1, <3>1 DEF LogInv, LinksResolve
    <3>3. f[j] = file[j]
      BY <1>1, <1>2, <3>1, <3>2
    <3> QED
      BY <3>1, <3>2, <3>3
  <2> QED
    BY <2>2, <2>3
<1> QED
  BY <1>3, <1>4

\* The invariant is kept by opening and closing a logger.
LEMMA OpenHolds ==
    ASSUME LogInv, NEW l \in Loggers, Open(l)
    PROVE  LogInv'
<1>1. /\ file' = file /\ torn' = torn /\ fresh' = fresh /\ made' = made
      /\ up' = up \cup {l} /\ l \notin up /\ fresh[l] = 0
      /\ last' = [last EXCEPT ![l] = LastHash] /\ shared' = (shared \/ up # {})
  BY DEF Open, LogInv
<1>2. LastHash \in Nat /\ Ends(LastHash) /\ Resolved(LastHash, file)
  <2>1. CASE file = <<>>
    BY <2>1 DEF LastHash, Ends, Resolved
  <2>2. CASE file # <<>>
    <3>1. /\ file \in Seq(Line) /\ Len(file) \in DOMAIN file
          /\ file[Len(file)] # Garbage /\ file[Len(file)] \in Line
      BY <2>2 DEF LogInv, TypeOK, Open, Readable
    <3>2. file[Len(file)].sig \in Nat
      BY <3>1 DEF Line, Record
    <3> QED
      BY <2>2, <3>1, <3>2 DEF LastHash, Ends, Resolved
  <2> QED
    BY <2>1, <2>2
<1>3. TypeOK'
  BY <1>1, <1>2 DEF LogInv, TypeOK
<1>4. last'[l] = LastHash /\ \A m \in up : last'[m] = last[m]
  BY <1>1 DEF LogInv, TypeOK
<1>5. ~shared' => up' = {l} /\ ~shared
  BY <1>1
<1>6. ~shared' /\ ~torn' => \A m \in up' : (Ends(GoesOnWith(m)))'
  BY <1>1, <1>2, <1>4, <1>5 DEF Ends, GoesOnWith
<1>7. \A m \in up' : Resolved(last'[m], file) /\ Resolved(fresh[m], file)
  BY <1>1, <1>2, <1>4 DEF LogInv, Resolved
<1>8. ChainUnbroken' /\ LinksResolve'
  BY <1>1 DEF LogInv, ChainUnbroken, LinksResolve
<1> QED
  BY <1>1, <1>3, <1>5, <1>6, <1>7, <1>8 DEF LogInv, Resolved

LEMMA CloseHolds ==
    ASSUME LogInv, NEW l \in Loggers, Close(l)
    PROVE  LogInv'
<1>1. /\ UNCHANGED <<file, torn, last, made, shared>>
      /\ up' = up \ {l} /\ fresh' = [fresh EXCEPT ![l] = 0]
  BY DEF Close
<1>2. \A m \in up' : fresh'[m] = fresh[m] /\ m \in up
  BY <1>1 DEF LogInv, TypeOK
<1>3. TypeOK' /\ \A m \in Loggers \ up' : fresh'[m] = 0
  BY <1>1 DEF LogInv, TypeOK
<1>4. ChainUnbroken' /\ LinksResolve'
  BY <1>1 DEF LogInv, ChainUnbroken, LinksResolve
<1>5. ~shared /\ ~torn => \A m \in up' : (Ends(GoesOnWith(m)))'
  BY <1>1, <1>2 DEF LogInv, Ends, GoesOnWith
<1> QED
  BY <1>1, <1>2, <1>3, <1>4, <1>5 DEF LogInv, Resolved

\* ... by a record that is written and by one that is remembered ...
LEMMA WriteHolds ==
    ASSUME LogInv, NEW l \in Loggers, Write(l)
    PROVE  LogInv'
<1> DEFINE line == [prev |-> last[l], sig |-> made']
<1>1. /\ l \in up /\ fresh[l] = 0 /\ made' = made + 1
      /\ file' = With(line) /\ torn' = FALSE /\ fresh' = [fresh EXCEPT ![l] = made']
      /\ up' = up /\ last' = last /\ shared' = shared
  BY DEF Write, Signs, Signed
<1>2. made' \in Nat /\ made' # 0 /\ line \in Line /\ last[l] \in Nat
  BY <1>1 DEF LogInv, TypeOK, Line, Record
<1>3. file' \in Seq(Line) /\ fresh' \in [Loggers -> Nat]
  BY <1>1, <1>2, WithLine DEF LogInv, TypeOK
<1>4. TypeOK'
  BY <1>1, <1>2, <1>3 DEF LogInv, TypeOK
<1>5. fresh'[l] = made' /\ \A m \in Loggers : m # l => fresh'[m] = fresh[m]
  BY <1>1 DEF LogInv, TypeOK
<1>6. file'[Len(file')] = Garbage \/ file'[Len(file')] = line
  <2>1. /\ torn => Len(file') = Len(file) /\ file'[Len(file)] = Garbage
        /\ ~torn => Len(file') = Len(file) + 1 /\ file'[Len(file) + 1] = line
    BY <1>1, <1>2, WithLine DEF LogInv
  <2> QED
    BY <2>1 DEF LogInv, TypeOK
<1>7. file' # <<>> /\ Len(file') \in DOMAIN file'
  BY <1>1, <1>2, <1>3, WithLine DEF LogInv
<1>8. Resolved(made', file')
  BY <1>6, <1>7 DEF Resolved
<1>9. \A m \in up : Resolved(last[m], file') /\ Resolved(fresh[m], file')
  BY <1>1, <1>2, StaysResolved DEF LogInv
<1>10. \A m \in up' : Resolved(last'[m], file') /\ Resolved(fresh'[m], file')
  BY <1>1, <1>5, <1>8, <1>9 DEF LogInv, TypeOK
<1>11. ~shared => \A m \in up' : (Ends(GoesOnWith(m)))'
  BY <1>1, <1>2, <1>5, <1>6 DEF LogInv, Ends, GoesOnWith
<1>12. ChainUnbroken' /\ LinksResolve'
  BY <1>1, <1>2, WritingKeepsChain
<1> QED
  BY <1>1, <1>4, <1>5, <1>10, <1>11, <1>12 DEF LogInv

LEMMA RememberHolds ==
    ASSUME LogInv, NEW l \in Loggers, Remember(l)
    PROVE  LogInv'
<1>1. /\ l \in up /\ fresh[l] # 0
      /\ last' = [last EXCEPT ![l] = fresh[l]] /\ fresh' = [fresh EXCEPT ![l] = 0]
      /\ UNCHANGED <<file, torn, up, made, shared>>
  BY DEF Remember
<1>2. TypeOK' /\ \A m \in Loggers \ up' : fresh'[m] = 0
  BY <1>1 DEF LogInv, TypeOK
<1>3. /\ last'[l] = fresh[l] /\ fresh'[l] = 0
      /\ \A m \in Loggers : m # l => last'[m] = last[m] /\ fresh'[m] = fresh[m]
  BY <1>1 DEF LogInv, TypeOK
<1>4. \A m \in up : Resolved(last'[m], file) /\ Resolved(fresh'[m], file)
  BY <1>1, <1>3 DEF LogInv, TypeOK, Resolved
<1>5. ~shared /\ ~torn => \A m \in up : (Ends(GoesOnWith(m)))'
  BY <1>1, <1>3 DEF LogInv, TypeOK, Ends, GoesOnWith
<1>6. ChainUnbroken' /\ LinksResolve'
  BY <1>1 DEF LogInv, ChainUnbroken, LinksResolve
<1> QED
  BY <1>1, <1>2, <1>4, <1>5, <1>6 DEF LogInv

\* ... and by the ways a write fails.
LEMMA FailureHolds ==
    ASSUME LogInv, NEW l \in Loggers,
           WriteFails(l) \/ WriteTears(l) \/ WriteTearsAndDies(l)
    PROVE  LogInv'
<1>1. CASE WriteFails(l)
  <2>1. /\ UNCHANGED <<file, torn, up, last, fresh, shared>> /\ made' = made + 1
    BY <1>1 DEF WriteFails, Signs
  <2>2. TypeOK'
    BY <2>1 DEF LogInv, TypeOK
  <2>3. ChainUnbroken' /\ LinksResolve'
    BY <2>1 DEF LogInv, ChainUnbroken, LinksResolve
  <2> QED
    BY <2>1, <2>2, <2>3 DEF LogInv, Ends, GoesOnWith, Resolved
<1>2. CASE WriteTears(l) \/ WriteTearsAndDies(l)
  <2>1. PICK line \in {Garbage, [prev |-> last[l], sig |-> made']} : file' = With(line)
    BY <1>2 DEF WriteTears, WriteTearsAndDies, Signed
  <2>2. /\ l \in up /\ fresh[l] = 0 /\ made' = made + 1 /\ torn' = TRUE
        /\ last' = last /\ shared' = shared /\ up' \subseteq up
        /\ \/ up' = up /\ fresh' = fresh
           \/ up' = {} /\ fresh' = [m \in Loggers |-> 0]
    BY <1>2 DEF WriteTears, WriteTearsAndDies, Signs
  <2>3. made' \in Nat /\ line \in Line
    BY <2>1, <2>2 DEF LogInv, TypeOK, Line, Record
  <2>4. file' \in Seq(Line) /\ file' # <<>>
    BY <2>1, <2>3, WithLine DEF LogInv
  <2>5. TypeOK' /\ \A m \in Loggers \ up' : fresh'[m] = 0
    BY <2>2, <2>3, <2>4 DEF LogInv, TypeOK
  <2>6. \A m \in up : Resolved(last[m], file') /\ Resolved(fresh[m], file')
    BY <2>1, <2>3, StaysResolved DEF LogInv
  <2>7. ChainUnbroken' /\ LinksResolve'
    BY <2>1, <2>2, <2>3, WritingKeepsChain
  <2> QED
    BY <2>2, <2>5, <2>6, <2>7 DEF LogInv
<1> QED
  BY <1>1, <1>2

LEMMA NextHolds == LogInv /\ [Next]_vars => LogInv'
<1> SUFFICES ASSUME LogInv, [Next]_vars PROVE LogInv'
  OBVIOUS
<1>1. CASE UNCHANGED vars
  BY <1>1 DEF vars, LogInv, TypeOK, ChainUnbroken, LinksResolve, Ends, GoesOnWith, Resolved
<1>2. ASSUME NEW l \in Loggers,
             \/ Open(l) \/ Close(l) \/ Write(l) \/ Remember(l)
             \/ WriteFails(l) \/ WriteTears(l) \/ WriteTearsAndDies(l)
      PROVE  LogInv'
  BY <1>2, OpenHolds, CloseHolds, WriteHolds, RememberHolds, FailureHolds
<1> QED
  BY <1>1, <1>2 DEF Next

-----------------------------------------------------------------------------

\* The audit file, the loggers and what they remember are always well typed.
THEOREM TypeCorrect == Spec => []TypeOK
<1>1. LogInv => TypeOK
  BY DEF LogInv
<1> QED
  BY <1>1, InitHolds, NextHolds, PTL DEF Spec

\* With one logger at a time no record follows another than the one it names, or
\* a visibly broken line stands between (SignedAuditLogger.log).
THEOREM SoleLoggerChains == Spec => []ChainUnbroken
<1>1. LogInv => ChainUnbroken
  BY DEF LogInv
<1> QED
  BY <1>1, InitHolds, NextHolds, PTL DEF Spec

\* With any number of loggers every record names one above it, the start, or one
\* that a broken line above it has swallowed.
THEOREM LinksAlwaysResolve == Spec => []LinksResolve
<1>1. LogInv => LinksResolve
  BY DEF LogInv
<1> QED
  BY <1>1, InitHolds, NextHolds, PTL DEF Spec

=============================================================================
