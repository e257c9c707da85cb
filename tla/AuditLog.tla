------------------------------ MODULE AuditLog ------------------------------
(***************************************************************************)
(* SignedAuditLogger: loggers that append signed records to one file, each *)
(* record carrying the signature of the one before it.  A logger reads the *)
(* last signature when it is built and keeps it in memory from then on.    *)
(*                                                                         *)
(* A signature is an HMAC over time, event, payload and previous signature; *)
(* here it is the number of the log() call that made it, and 0 is "".  The *)
(* file is a sequence of lines; Garbage is a line json.loads refuses.      *)
(***************************************************************************)
EXTENDS Integers, Sequences

CONSTANTS
    Loggers,
    Garbage,
    MaxCalls      \* bound: calls of log()

Record == [prev : Nat, sig : Nat]

Line == Record \cup {Garbage}

ASSUME AuditLogAssumption == MaxCalls \in Nat /\ Garbage \notin Record

VARIABLES
    file,       \* the lines of the audit file
    torn,       \* its last line has no line feed
    up,         \* the loggers that exist
    last,       \* _last_hash
    fresh,      \* the signature log() has written and not yet remembered, or 0
    made,       \* the number of signatures made
    shared      \* history: two loggers existed at once

vars == <<file, torn, up, last, fresh, made, shared>>

Init ==
    /\ file = <<>> /\ torn = FALSE
    /\ up = {}
    /\ last = [l \in Loggers |-> 0]
    /\ fresh = [l \in Loggers |-> 0]
    /\ made = 0
    /\ shared = FALSE

-----------------------------------------------------------------------------

Readable == file # <<>> => file[Len(file)] # Garbage

\* _load_last_hash
LastHash == IF file = <<>> THEN 0 ELSE file[Len(file)].sig

\* The constructor; it raises when the last line cannot be read, and then there
\* is no logger.
Open(l) ==
    /\ l \notin up
    /\ Readable
    /\ up' = up \cup {l}
    /\ last' = [last EXCEPT ![l] = LastHash]
    /\ shared' = (shared \/ up # {})
    /\ UNCHANGED <<file, torn, fresh, made>>

\* The logger's process ends, or dies between any two steps of log().
Close(l) ==
    /\ l \in up
    /\ up' = up \ {l}
    /\ fresh' = [fresh EXCEPT ![l] = 0]
    /\ UNCHANGED <<file, torn, last, made, shared>>

\* log() is called and signs the record.
Signs(l) ==
    /\ l \in up /\ fresh[l] = 0
    /\ made < MaxCalls
    /\ made' = made + 1

Signed(l) == [prev |-> last[l], sig |-> made']

\* The file with line at its end: on a line of its own, or behind the piece of a
\* line that is there already, which makes one line nobody can read.
With(line) ==
    IF torn THEN [file EXCEPT ![Len(file)] = Garbage] ELSE Append(file, line)

Write(l) ==
    /\ Signs(l)
    /\ file' = With(Signed(l))
    /\ torn' = FALSE
    /\ fresh' = [fresh EXCEPT ![l] = made']
    /\ UNCHANGED <<up, last, shared>>

\* Mutant: the signature is not remembered.
RememberNot(l) ==
    /\ l \in up /\ fresh[l] # 0
    /\ fresh' = [fresh EXCEPT ![l] = 0]
    /\ UNCHANGED <<file, torn, up, last, made, shared>>

\* The last assignment of log().
Remember(l) ==
    /\ l \in up /\ fresh[l] # 0
    /\ last' = [last EXCEPT ![l] = fresh[l]]
    /\ fresh' = [fresh EXCEPT ![l] = 0]
    /\ UNCHANGED <<file, torn, up, made, shared>>

\* Mutant: the signature is remembered before the record is written.
WriteFailsRemembered(l) ==
    /\ Signs(l)
    /\ last' = [last EXCEPT ![l] = made']
    /\ UNCHANGED <<file, torn, up, fresh, shared>>

\* open() or write() raises and nothing reached the file.
WriteFails(l) ==
    /\ Signs(l)
    /\ UNCHANGED <<file, torn, up, last, fresh, shared>>

\* A piece of the record reached the file when the disk was full; log() raises
\* and the logger lives on.  The piece may lack no more than the line feed.
WriteTears(l) ==
    /\ Signs(l)
    /\ \E piece \in {Garbage, Signed(l)} : file' = With(piece)
    /\ torn' = TRUE
    /\ UNCHANGED <<up, last, fresh, shared>>

\* The same, and the machine went down with it.
WriteTearsAndDies(l) ==
    /\ Signs(l)
    /\ \E piece \in {Garbage, Signed(l)} : file' = With(piece)
    /\ torn' = TRUE
    /\ up' = {} /\ fresh' = [m \in Loggers |-> 0]
    /\ UNCHANGED <<last, shared>>

Next ==
    \E l \in Loggers :
        \/ Open(l) \/ Close(l)
        \/ Write(l) \/ Remember(l) \/ WriteFails(l)
        \/ WriteTears(l) \/ WriteTearsAndDies(l)

Spec == Init /\ [][Next]_vars

-----------------------------------------------------------------------------
(* Properties.                                                             *)

TypeOK ==
    /\ file \in Seq(Line)
    /\ torn \in BOOLEAN /\ (torn => file # <<>>)
    /\ up \subseteq Loggers
    /\ last \in [Loggers -> Nat]
    /\ fresh \in [Loggers -> Nat]
    /\ made \in Nat
    /\ shared \in BOOLEAN

\* As long as no two loggers were ever on the file at once, every record carries
\* the signature of the line before it, or that line is visibly broken: through
\* deaths at any point, failed and torn writes and any number of restarts ("tamper-
\* evident signed audit log chain").
ChainUnbroken ==
    ~shared =>
        \A i \in 1 .. Len(file) - 1 :
            file[i] # Garbage /\ file[i + 1] # Garbage => file[i + 1].prev = file[i].sig

\* However many loggers share the file, a record refers to the start, to a record
\* above it, or to one that a broken line above it has swallowed: what the chain
\* names was really written.
LinksResolve ==
    \A i \in DOMAIN file :
        \/ file[i] = Garbage
        \/ file[i].prev = 0
        \/ \E j \in 1 .. i - 1 : file[j] = Garbage \/ file[j].sig = file[i].prev

=============================================================================
