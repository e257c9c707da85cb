---------------------------- MODULE BundleUpdater ----------------------------
(***************************************************************************)
(* SignedBundleUpdater: processes that install signed bundles of key ring, *)
(* pin set and rollout policy, and record approvals of canary bundles, in  *)
(* one state file, one set of target files and one approval audit.         *)
(*                                                                         *)
(* A bundle is a name, which is also its hash; Content says what it holds. *)
(* Every read or write of a file is a step.  A process can die between any *)
(* two of them, or inside write_text, which empties the file first.        *)
(***************************************************************************)
EXTENDS ApprovalAudit, FiniteSets

CONSTANTS
    Updaters,
    Names, NoBundle,    \* bundle hashes; the empty string
    Envs,
    Approvers, Nobody,  \* Nobody is an empty approver name
    Keys,               \* the keys of the trust store
    Content,            \* what the bundles hold
    Candidates,         \* the hashes handed to approve_canary; NoBundle for none
    MinSignatures, MinApprovers, RequireApproval, NeedsMetrics,  \* trust policy
    Garbled,            \* a file write_text did not finish
    MaxVotes,           \* bound: approvals recorded
    MaxCrashes          \* bound: processes that die

Bundle == [version : Nat, env : Envs, stage : {"canary", "global", "other"},
           signers  : SUBSET Keys,             \* whose signature verifies
           required : BOOLEAN,                 \* canary_gate.required
           source   : Names \cup {NoBundle},   \* canary_gate.source_bundle_hash
           metrics  : {"none", "bad", "good"}, \* canary_gate.observed_*
           parts    : SUBSET {"keyring", "pinset", "policy"}]

ASSUME BundleAssumption ==
    /\ Content \in [Names -> Bundle]
    /\ NoBundle \notin Names /\ Garbled \notin Names
    /\ Candidates \subseteq Names \cup {NoBundle}
    /\ MinSignatures \in [Envs -> Nat \ {0}]
    /\ MinApprovers \in [Envs -> Nat \ {0}]
    /\ RequireApproval \in [Envs -> BOOLEAN]
    /\ NeedsMetrics \in [Envs -> BOOLEAN]
    /\ MaxVotes \in Nat /\ MaxCrashes \in Nat

GlobalTargets == {"keyring", "pinset", "policy"}

CanaryTargets == {"canary keyring", "canary pinset"}

Targets == GlobalTargets \cup CanaryTargets

VARIABLES
    state,      \* the state file
    readable,   \* whether it holds JSON
    files,      \* the bundle each target file comes from
    audit,      \* the approval audit file
    pc,         \* where a process is; "down" if it does not run
    bundle,     \* the bundle it installs
    todo,       \* the parts it has still to write
    vote,       \* the approval it records
    copy,       \* the state it read, or will write
    prev,       \* previous_hash
    counted,    \* _append_count
    granted, spent, voters,    \* history: approvals reached and used, who voted
    votes, crashes             \* the bounded counters

disk    == <<state, readable, files, audit>>
locals  == <<bundle, todo, vote, copy, prev>>
history == <<granted, spent, voters>>
bounds  == <<votes, crashes>>
vars    == <<disk, pc, locals, counted, history, bounds>>

EnvState == [canary   : Names \cup {NoBundle},
             approved : Names \cup {NoBundle},
             pending  : SUBSET [bundle : Names, approver : Approvers]]

State == [version : Nat, last : Names \cup {NoBundle}, chain : Seq(Names),
          envs : [Envs -> EnvState]]

Vote == [env : Envs, bundle : Names, approver : Approvers,
         status : {"pending", "approved"}]

NoVote == [status |-> "none"]

AuditRecord == [env : Envs, bundle : Names, approver : Approvers,
                status : {"pending", "approved"}, prev : Nat]

\* _load_state when there is no file; _environment_state of a new environment.
EmptyState ==
    [version |-> 0, last |-> NoBundle, chain |-> << >>,
     envs |-> [e \in Envs |-> [canary |-> NoBundle, approved |-> NoBundle, pending |-> {}]]]

Init ==
    /\ state = EmptyState /\ readable = TRUE
    /\ files = [t \in Targets |-> NoBundle]
    /\ audit = << >>
    /\ pc = [p \in Updaters |-> "down"]
    /\ bundle = [p \in Updaters |-> NoBundle]
    /\ todo = [p \in Updaters |-> << >>]
    /\ vote = [p \in Updaters |-> NoVote]
    /\ copy = [p \in Updaters |-> EmptyState]
    /\ prev = [p \in Updaters |-> 0]
    /\ counted = [p \in Updaters |-> 0]
    /\ granted = [b \in Names |-> 0] /\ spent = [b \in Names |-> 0]
    /\ voters = {}
    /\ votes = 0 /\ crashes = 0

Goto(p, point) == pc' = [pc EXCEPT ![p] = point]

\* The call returns or raises; its locals are gone.
Leave(p, point) ==
    /\ Goto(p, point)
    /\ bundle' = [bundle EXCEPT ![p] = NoBundle]
    /\ todo' = [todo EXCEPT ![p] = << >>]
    /\ vote' = [vote EXCEPT ![p] = NoVote]
    /\ copy' = [copy EXCEPT ![p] = EmptyState]
    /\ prev' = [prev EXCEPT ![p] = 0]

\* The constructor: it verifies the audit and fails closed.
Start(p) ==
    /\ pc[p] = "down"
    /\ Verifies(audit)
    /\ Goto(p, "idle")
    /\ counted' = [counted EXCEPT ![p] = Len(audit)]
    /\ UNCHANGED <<disk, locals, history, bounds>>

-----------------------------------------------------------------------------
(* apply_bundle_file.                                                      *)

\* _verify_signatures: distinct keys.
Quorum(b) == Cardinality(Content[b].signers) >= MinSignatures[Content[b].env]

Gated(b) ==
    /\ Content[b].stage = "global"
    /\ Content[b].required \/ RequireApproval[Content[b].env]

\* Mutant: any source hash passes.
CanaryGateUnchecked(b) ==
    Gated(b) =>
        /\ Content[b].source # NoBundle
        /\ NeedsMetrics[Content[b].env] => Content[b].metrics = "good"

\* _enforce_canary_gate
CanaryGate(b) ==
    Gated(b) =>
        /\ Content[b].source # NoBundle
        /\ Content[b].source = state.envs[Content[b].env].approved
        /\ NeedsMetrics[Content[b].env] => Content[b].metrics = "good"

\* Mutant: the version is not compared.
AcceptableAnyVersion(b) ==
    Content[b].stage # "other" /\ Quorum(b) /\ CanaryGate(b)

\* What is checked before anything is written.
Acceptable(b) ==
    /\ Content[b].version > state.version
    /\ Quorum(b)
    /\ Content[b].stage # "other"
    /\ CanaryGate(b)

IfPresent(b, part) == IF part \in Content[b].parts THEN <<part>> ELSE << >>

\* The parts _apply_payload writes, in its order; a canary has no policy file.
PartsOf(b) ==
    IfPresent(b, "keyring") \o IfPresent(b, "pinset")
    \o IF Content[b].stage = "global" THEN IfPresent(b, "policy") ELSE << >>

Target(b, part) ==
    CASE Content[b].stage = "global" -> part
      [] part = "keyring" -> "canary keyring"
      [] OTHER -> "canary pinset"

Apply(p, b) ==
    /\ pc[p] = "idle"
    /\ readable
    /\ Acceptable(b)
    /\ bundle' = [bundle EXCEPT ![p] = b]
    /\ todo' = [todo EXCEPT ![p] = PartsOf(b)]
    /\ Goto(p, "install")
    /\ UNCHANGED <<disk, vote, copy, prev, counted, history, bounds>>

InstallPart(p) ==
    /\ pc[p] = "install" /\ todo[p] # << >>
    /\ files' = [files EXCEPT ![Target(bundle[p], Head(todo[p]))] = bundle[p]]
    /\ todo' = [todo EXCEPT ![p] = Tail(@)]
    /\ UNCHANGED <<state, readable, audit, pc, bundle, vote, copy, prev, counted, history, bounds>>

\* _update_state reads the state a second time.
Reload(p) ==
    /\ pc[p] = "install" /\ todo[p] = << >>
    /\ readable
    /\ copy' = [copy EXCEPT ![p] = state]
    /\ Goto(p, "store")
    /\ UNCHANGED <<disk, bundle, todo, vote, prev, counted, history, bounds>>

ReloadRaises(p) ==
    /\ pc[p] = "install" /\ todo[p] = << >>
    /\ ~readable
    /\ Leave(p, "idle")
    /\ UNCHANGED <<disk, counted, history, bounds>>

\* Mutant: a global rollout leaves the approval in place.
RecordedKeepsApproval(s, b) ==
    [version |-> Content[b].version, last |-> b, chain |-> Append(s.chain, b),
     envs |-> IF Content[b].stage = "canary"
              THEN [s.envs EXCEPT ![Content[b].env].canary = b]
              ELSE s.envs]

\* The new state: version and chain move on, a canary becomes the candidate, a
\* global rollout uses the approval up.
Recorded(s, b) ==
    [version |-> Content[b].version, last |-> b, chain |-> Append(s.chain, b),
     envs |-> IF Content[b].stage = "canary"
              THEN [s.envs EXCEPT ![Content[b].env].canary = b]
              ELSE [s.envs EXCEPT ![Content[b].env].approved = NoBundle]]

Store(p) ==
    /\ pc[p] = "store"
    /\ state' = Recorded(copy[p], bundle[p])
    /\ readable' = TRUE
    /\ spent' = IF Gated(bundle[p])
                THEN [spent EXCEPT ![Content[bundle[p]].source] = @ + 1]
                ELSE spent
    /\ Leave(p, "idle")
    /\ UNCHANGED <<files, audit, counted, granted, voters, bounds>>

-----------------------------------------------------------------------------
(* approve_canary_with_metadata and the audit's append.                    *)

\* Mutant: the approvals of all bundles count.
ApproversOfAny(pending, b) == {entry.approver : entry \in pending} \ {Nobody}

\* The named approvers among the entries for a bundle.
ApproversOf(pending, b) ==
    {entry.approver : entry \in {x \in pending : x.bundle = b}} \ {Nobody}

\* The environment's state with one more approval: the candidate is approved and
\* its entries go when there are enough.
Voted(s, e, b, a) ==
    LET pending == s.envs[e].pending \cup {[bundle |-> b, approver |-> a]}
    IN  IF Cardinality(ApproversOf(pending, b)) >= MinApprovers[e]
        THEN [s EXCEPT !.envs[e].approved = b,
                       !.envs[e].pending = {x \in pending : x.bundle # b}]
        ELSE [s EXCEPT !.envs[e].pending = pending]

StatusOf(s, b, e) == IF \E x \in s.envs[e].pending : x.bundle = b THEN "pending" ELSE "approved"

\* Without a hash the environment's last canary is meant.
CandidateOf(b, e) == IF b = NoBundle THEN state.envs[e].canary ELSE b

\* Mutant: neither a missing candidate nor a second approval by the same person
\* is refused.
ApproveAgain(p, e, b, a) ==
    /\ pc[p] = "idle"
    /\ readable
    /\ votes < MaxVotes
    /\ copy' = [copy EXCEPT ![p] = Voted(state, e, CandidateOf(b, e), a)]
    /\ vote' = [vote EXCEPT ![p] =
          [env |-> e, bundle |-> CandidateOf(b, e), approver |-> a,
           status |-> StatusOf(copy'[p], CandidateOf(b, e), e)]]
    /\ Goto(p, "vote")
    /\ UNCHANGED <<disk, bundle, todo, prev, counted, history, bounds>>

Approve(p, e, b, a) ==
    /\ pc[p] = "idle"
    /\ readable
    /\ votes < MaxVotes
    /\ CandidateOf(b, e) # NoBundle
    /\ [bundle |-> CandidateOf(b, e), approver |-> a] \notin state.envs[e].pending
    /\ copy' = [copy EXCEPT ![p] = Voted(state, e, CandidateOf(b, e), a)]
    /\ vote' = [vote EXCEPT ![p] =
          [env |-> e, bundle |-> CandidateOf(b, e), approver |-> a,
           status |-> StatusOf(copy'[p], CandidateOf(b, e), e)]]
    /\ Goto(p, "vote")
    /\ UNCHANGED <<disk, bundle, todo, prev, counted, history, bounds>>

\* The state goes to the file before the audit is asked.
WriteVote(p) ==
    /\ pc[p] = "vote"
    /\ votes < MaxVotes
    /\ state' = copy[p]
    /\ readable' = TRUE
    /\ votes' = votes + 1
    /\ voters' = voters \cup {<<vote[p].env, vote[p].bundle, vote[p].approver>>}
    /\ granted' = IF vote[p].status = "approved"
                  THEN [granted EXCEPT ![vote[p].bundle] = @ + 1]
                  ELSE granted
    /\ Goto(p, "verify")
    /\ UNCHANGED <<files, audit, locals, counted, spent, crashes>>

\* append verifies the chain if this process has seen a record.
AuditRefuses(p) ==
    /\ pc[p] = "verify"
    /\ counted[p] > 0 /\ ~Verifies(audit)
    /\ Leave(p, "idle")
    /\ UNCHANGED <<disk, counted, history, bounds>>

ReadLastHash(p) ==
    /\ pc[p] = "verify"
    /\ counted[p] > 0 => Verifies(audit)
    /\ prev' = [prev EXCEPT ![p] = LastHash(audit)]
    /\ Goto(p, "append")
    /\ UNCHANGED <<disk, bundle, todo, vote, copy, counted, history, bounds>>

Entry(v, hash) == [env |-> v.env, bundle |-> v.bundle, approver |-> v.approver,
                   status |-> v.status, prev |-> hash]

\* The line is written whole; whether the verification every few writes then
\* raises changes nothing any more.
AppendRecord(p) ==
    /\ pc[p] = "append"
    /\ audit' = Append(audit, Entry(vote[p], prev[p]))
    /\ counted' = [counted EXCEPT ![p] = @ + 1]
    /\ Leave(p, "idle")
    /\ UNCHANGED <<state, readable, files, history, bounds>>

-----------------------------------------------------------------------------
(* Dying.                                                                  *)

Dies(p) ==
    /\ pc[p] # "down"
    /\ crashes < MaxCrashes
    /\ crashes' = crashes + 1
    /\ Leave(p, "down")
    /\ UNCHANGED <<audit, counted, history, votes>>

Crash(p) == Dies(p) /\ UNCHANGED <<state, readable, files>>

\* The process dies after write_text emptied the file.
CrashInWrite(p) ==
    /\ Dies(p)
    /\ \/ /\ pc[p] = "install" /\ todo[p] # << >>
          /\ files' = [files EXCEPT ![Target(bundle[p], Head(todo[p]))] = Garbled]
          /\ UNCHANGED <<state, readable>>
       \/ /\ pc[p] \in {"store", "vote"}
          /\ readable' = FALSE
          /\ UNCHANGED <<state, files>>

Work(p) ==
    \/ \E b \in Names : Apply(p, b)
    \/ InstallPart(p) \/ Reload(p) \/ ReloadRaises(p) \/ Store(p)
    \/ \E e \in Envs, b \in Candidates, a \in Approvers : Approve(p, e, b, a)
    \/ WriteVote(p) \/ AuditRefuses(p) \/ ReadLastHash(p) \/ AppendRecord(p)

Next == \E p \in Updaters : Start(p) \/ Work(p) \/ Crash(p) \/ CrashInWrite(p)

Spec == Init /\ [][Next]_vars

-----------------------------------------------------------------------------
(* Properties.                                                             *)

Points == {"down", "idle", "install", "store", "vote", "verify", "append"}

TypeOK ==
    /\ state \in State /\ readable \in BOOLEAN
    /\ files \in [Targets -> Names \cup {NoBundle, Garbled}]
    /\ audit \in Seq(AuditRecord)
    /\ pc \in [Updaters -> Points]
    /\ bundle \in [Updaters -> Names \cup {NoBundle}]
    /\ todo \in [Updaters -> Seq(GlobalTargets)]
    /\ vote \in [Updaters -> Vote \cup {NoVote}]
    /\ copy \in [Updaters -> State]
    /\ prev \in [Updaters -> Nat] /\ counted \in [Updaters -> Nat]
    /\ granted \in [Names -> Nat] /\ spent \in [Names -> Nat]
    /\ voters \subseteq Envs \X Names \X Approvers
    /\ votes \in Nat /\ crashes \in Nat

\* The installed version never goes back and the chain only grows, one bundle at
\* a time, across installations, approvals, crashes and restarts.
StateGrows ==
    [][/\ state'.version >= state.version
       /\ state'.chain = state.chain \/ \E b \in Names : state'.chain = Append(state.chain, b)]_vars

\* An approval is used for one global rollout: as many rollouts were completed
\* with a canary's approval as times that canary was approved, or fewer.
ApprovalSpentOnce == \A b \in Names : spent[b] <= granted[b]

\* Whenever a file in force changes to a bundle that needs a canary's approval,
\* the state shows that approval at that very moment, for each of the bundle's
\* files and not only at the gate.
GlobalsAreApproved ==
    [][\A t \in GlobalTargets :
          files'[t] # files[t] /\ files'[t] \in Names /\ Gated(files'[t]) =>
              state.envs[Content[files'[t]].env].approved = Content[files'[t]].source]_vars

\* A canary counts as approved only if enough different named people approved
\* that very bundle in that environment.
ApprovalsHaveVoters ==
    \A e \in Envs :
        LET b == state.envs[e].approved
        IN  b # NoBundle =>
                Cardinality({a \in Approvers \ {Nobody} : <<e, b, a>> \in voters}) >= MinApprovers[e]

Recording == {p \in Updaters : pc[p] \in {"verify", "append"}}

\* No approval stays without a record but those whose process died: the audit
\* never refuses an append on account of its own records.
VotesAreAudited == votes <= Len(audit) + Cardinality(Recording) + crashes

\* A file in force is replaced only by that of a newer bundle.
NoDowngrade ==
    [][\A t \in Targets :
          files[t] \in Names /\ files'[t] \in Names /\ files'[t] # files[t] =>
              Content[files'[t]].version > Content[files[t]].version]_vars

=============================================================================
