------------------------- MODULE BundleUpdaterProofs -------------------------
(***************************************************************************)
(* Proofs about the signed bundle updater: types and dual control for any  *)
(* number of processes on the state file, the rest for one at a time.      *)
(***************************************************************************)
EXTENDS BundleUpdater, FiniteSetTheorems, TLAPS

-----------------------------------------------------------------------------
(* Types.                                                                  *)

\* What the locals of a call hold while it needs them.
LocalsOK ==
    \A p \in Updaters :
        /\ pc[p] \in {"install", "store"} => bundle[p] \in Names
        /\ pc[p] \in {"vote", "verify", "append"} => vote[p] \in Vote

TypeInv == TypeOK /\ LocalsOK

LEMMA PartsAreTargets ==
    ASSUME NEW b
    PROVE  PartsOf(b) \in Seq(GlobalTargets)
<1>1. \A part \in GlobalTargets : IfPresent(b, part) \in Seq(GlobalTargets)
  BY DEF IfPresent
<1>2. {"keyring", "pinset", "policy"} \subseteq GlobalTargets /\ << >> \in Seq(GlobalTargets)
  BY DEF GlobalTargets
<1> QED BY <1>1, <1>2 DEF PartsOf

LEMMA EmptyStateType == EmptyState \in State
BY DEF EmptyState, State, EnvState

LEMMA RecordedType ==
    ASSUME NEW s \in State, NEW b \in Names
    PROVE  Recorded(s, b) \in State
<1>1. Content[b].version \in Nat /\ Content[b].env \in Envs
  BY BundleAssumption DEF Bundle
<1>2. Append(s.chain, b) \in Seq(Names)
  BY DEF State
<1>3. s.envs \in [Envs -> EnvState]
  BY DEF State
<1>4. [s.envs EXCEPT ![Content[b].env].canary = b] \in [Envs -> EnvState]
  BY <1>1, <1>3 DEF EnvState
<1>5. [s.envs EXCEPT ![Content[b].env].approved = NoBundle] \in [Envs -> EnvState]
  BY <1>1, <1>3 DEF EnvState
<1> QED BY <1>1, <1>2, <1>4, <1>5 DEF Recorded, State

\* What a vote changes: one environment, and of it the approval if the candidate
\* has enough approvers, else its pending entries.
LEMMA VotedCases ==
    ASSUME NEW s \in State, NEW e \in Envs, NEW b \in Names, NEW a \in Approvers,
           NEW n, n = Voted(s, e, b, a),
           NEW pending, pending = s.envs[e].pending \cup {[bundle |-> b, approver |-> a]}
    PROVE  /\ n \in State
           /\ n.version = s.version /\ n.chain = s.chain
           /\ \A f \in Envs \ {e} : n.envs[f] = s.envs[f]
           /\ \/ /\ Cardinality(ApproversOf(pending, b)) >= MinApprovers[e]
                 /\ n.envs[e].approved = b
                 /\ n.envs[e].pending = {x \in pending : x.bundle # b}
              \/ /\ n.envs[e].approved = s.envs[e].approved
                 /\ n.envs[e].pending = pending
<1>1. s.envs \in [Envs -> EnvState] /\ s.envs[e] \in EnvState
  BY DEF State
<1>2. pending \in SUBSET [bundle : Names, approver : Approvers]
  BY <1>1 DEF EnvState
<1>3. CASE Cardinality(ApproversOf(pending, b)) >= MinApprovers[e]
  <2> DEFINE kept == {x \in pending : x.bundle # b}
  <2>1. n = [s EXCEPT !.envs[e].approved = b, !.envs[e].pending = kept]
    BY <1>3 DEF Voted
  <2>2. kept \in SUBSET [bundle : Names, approver : Approvers]
    BY <1>2
  <2> HIDE DEF kept
  <2> DEFINE half == [s EXCEPT !.envs[e].approved = b]
  <2>a. half.envs = [s.envs EXCEPT ![e] = [s.envs[e] EXCEPT !.approved = b]]
    BY <1>1 DEF State, EnvState
  <2>b. n = [half EXCEPT !.envs[e].pending = kept]
    BY <2>1
  <2>c. half \in State
    BY <2>a, <1>1 DEF State, EnvState
  <2> HIDE DEF half
  <2>d. n.envs = [half.envs EXCEPT ![e] = [half.envs[e] EXCEPT !.pending = kept]]
    BY <2>b, <2>c DEF State, EnvState
  <2>3. n.envs = [s.envs EXCEPT ![e] = [s.envs[e] EXCEPT !.approved = b, !.pending = kept]]
    BY <2>a, <2>d, <1>1 DEF State, EnvState
  <2>4. [s.envs[e] EXCEPT !.approved = b, !.pending = kept] \in EnvState
    BY <1>1, <2>2 DEF EnvState
  <2>5. n.envs \in [Envs -> EnvState]
    BY <1>1, <2>3, <2>4
  <2>6. n \in State /\ n.version = s.version /\ n.chain = s.chain
    BY <2>1, <2>5 DEF State
  <2>7. n.envs[e].approved = b /\ n.envs[e].pending = kept
    BY <1>1, <2>3 DEF EnvState
  <2>8. \A f \in Envs \ {e} : n.envs[f] = s.envs[f]
    BY <1>1, <2>3
  <2> QED BY <1>3, <2>6, <2>7, <2>8 DEF kept
<1>4. CASE ~(Cardinality(ApproversOf(pending, b)) >= MinApprovers[e])
  <2>1. n = [s EXCEPT !.envs[e].pending = pending]
    BY <1>4 DEF Voted
  <2>3. n.envs = [s.envs EXCEPT ![e] = [s.envs[e] EXCEPT !.pending = pending]]
    BY <2>1, <1>1 DEF State, EnvState
  <2>4. [s.envs[e] EXCEPT !.pending = pending] \in EnvState
    BY <1>1, <1>2 DEF EnvState
  <2>5. n.envs \in [Envs -> EnvState]
    BY <1>1, <2>3, <2>4
  <2>6. n \in State /\ n.version = s.version /\ n.chain = s.chain
    BY <2>1, <2>5 DEF State
  <2>7. n.envs[e].approved = s.envs[e].approved /\ n.envs[e].pending = pending
    BY <1>1, <2>3 DEF EnvState
  <2>8. \A f \in Envs \ {e} : n.envs[f] = s.envs[f]
    BY <1>1, <2>3
  <2> QED BY <2>6, <2>7, <2>8
<1> QED BY <1>3, <1>4

\* A vote is one of the types' votes, whatever its status.
LEMMA StatusType ==
    ASSUME NEW s, NEW b, NEW e
    PROVE  StatusOf(s, b, e) \in {"pending", "approved"}
BY DEF StatusOf

\* A call that ends leaves locals nobody needs.
LEMMA LeaveLocals ==
    ASSUME TypeInv, NEW p \in Updaters, NEW point \in {"idle", "down"}, Leave(p, point)
    PROVE  /\ pc' \in [Updaters -> Points]
           /\ bundle' \in [Updaters -> Names \cup {NoBundle}]
           /\ todo' \in [Updaters -> Seq(GlobalTargets)]
           /\ vote' \in [Updaters -> Vote \cup {NoVote}]
           /\ copy' \in [Updaters -> State]
           /\ prev' \in [Updaters -> Nat]
           /\ LocalsOK'
<1> USE DEF Leave, Goto, TypeInv, TypeOK
<1>1. pc' \in [Updaters -> Points] /\ bundle' \in [Updaters -> Names \cup {NoBundle}]
  BY DEF Points
<1>2. todo' \in [Updaters -> Seq(GlobalTargets)] /\ vote' \in [Updaters -> Vote \cup {NoVote}]
  OBVIOUS
<1>3. copy' \in [Updaters -> State] /\ prev' \in [Updaters -> Nat]
  BY EmptyStateType
<1>4. LocalsOK'
  BY DEF LocalsOK
<1> QED BY <1>1, <1>2, <1>3, <1>4

LEMMA TargetType ==
    ASSUME NEW b, NEW part \in GlobalTargets
    PROVE  Target(b, part) \in Targets
BY DEF Target, Targets, GlobalTargets, CanaryTargets

LEMMA ApplyType ==
    ASSUME TypeInv, NEW p \in Updaters, NEW b \in Names, Apply(p, b)
    PROVE  TypeInv'
<1>1. PartsOf(b) \in Seq(GlobalTargets)
  BY PartsAreTargets
<1>2. pc' \in [Updaters -> Points] /\ bundle' \in [Updaters -> Names \cup {NoBundle}]
  BY DEF TypeInv, TypeOK, Apply, Goto, Points
<1>3. todo' \in [Updaters -> Seq(GlobalTargets)]
  BY <1>1 DEF TypeInv, TypeOK, Apply
<1>4. LocalsOK'
  BY DEF TypeInv, TypeOK, LocalsOK, Apply, Goto
<1> QED BY <1>2, <1>3, <1>4 DEF TypeInv, TypeOK, Apply, disk, history, bounds

LEMMA InstallPartType ==
    ASSUME TypeInv, NEW p \in Updaters, InstallPart(p)
    PROVE  TypeInv'
<1>1. todo[p] \in Seq(GlobalTargets) /\ todo[p] # << >> /\ bundle[p] \in Names
  BY DEF TypeInv, TypeOK, LocalsOK, InstallPart
<1>2. Head(todo[p]) \in GlobalTargets /\ Tail(todo[p]) \in Seq(GlobalTargets)
  BY <1>1
<1>3. Target(bundle[p], Head(todo[p])) \in Targets
  BY <1>2, TargetType
<1>4. files' \in [Targets -> Names \cup {NoBundle, Garbled}]
  BY <1>1, <1>3 DEF TypeInv, TypeOK, InstallPart
<1>5. todo' \in [Updaters -> Seq(GlobalTargets)]
  BY <1>2 DEF TypeInv, TypeOK, InstallPart
<1>6. LocalsOK'
  BY DEF TypeInv, LocalsOK, InstallPart
<1> QED BY <1>4, <1>5, <1>6 DEF TypeInv, TypeOK, InstallPart, history, bounds

LEMMA ReloadType ==
    ASSUME TypeInv, NEW p \in Updaters, Reload(p)
    PROVE  TypeInv'
<1>1. pc' \in [Updaters -> Points] /\ copy' \in [Updaters -> State]
  BY DEF TypeInv, TypeOK, Reload, Goto, Points
<1>2. LocalsOK'
  BY DEF TypeInv, TypeOK, LocalsOK, Reload, Goto
<1> QED BY <1>1, <1>2 DEF TypeInv, TypeOK, Reload, disk, history, bounds

LEMMA StoreType ==
    ASSUME TypeInv, NEW p \in Updaters, Store(p)
    PROVE  TypeInv'
<1>1. Leave(p, "idle")
  BY DEF Store
<1>2. state' \in State
  <2>1. copy[p] \in State /\ bundle[p] \in Names
    BY DEF TypeInv, TypeOK, LocalsOK, Store
  <2> QED BY <2>1, RecordedType DEF Store
<1>3. spent' \in [Names -> Nat]
  <2> DEFINE used == Content[bundle[p]].source
  <2>1. spent \in [Names -> Nat] /\ spent' \in {spent, [spent EXCEPT ![used] = @ + 1]}
    BY DEF TypeInv, TypeOK, Store
  <2> HIDE DEF used
  <2>2. CASE used \in Names
    <3>1. spent[used] + 1 \in Nat
      BY <2>1, <2>2
    <3> QED BY <2>1, <3>1
  <2>3. CASE used \notin Names
    BY <2>1, <2>3
  <2> QED BY <2>2, <2>3
<1> QED BY <1>1, <1>2, <1>3, LeaveLocals DEF TypeInv, TypeOK, Store, bounds

LEMMA ApproveType ==
    ASSUME TypeInv, NEW p \in Updaters, NEW e \in Envs, NEW b \in Candidates, NEW a \in Approvers,
           Approve(p, e, b, a)
    PROVE  TypeInv'
<1> DEFINE c == CandidateOf(b, e)
<1>1. c \in Names
  <2>1. state.envs[e].canary \in Names \cup {NoBundle}
    BY DEF TypeInv, TypeOK, State, EnvState
  <2> QED BY <2>1, BundleAssumption DEF CandidateOf, Approve
<1>2. Voted(state, e, c, a) \in State
  BY <1>1, VotedCases DEF TypeInv, TypeOK
<1>3. [env |-> e, bundle |-> c, approver |-> a, status |-> StatusOf(copy'[p], c, e)] \in Vote
  BY <1>1, StatusType DEF Vote
<1> HIDE DEF c
<1>4. copy' = [copy EXCEPT ![p] = Voted(state, e, c, a)]
  BY DEF Approve, c
<1>5. vote' = [vote EXCEPT ![p] =
          [env |-> e, bundle |-> c, approver |-> a, status |-> StatusOf(copy'[p], c, e)]]
  BY DEF Approve, c
<1>6. copy' \in [Updaters -> State] /\ vote' \in [Updaters -> Vote \cup {NoVote}]
  BY <1>2, <1>3, <1>4, <1>5 DEF TypeInv, TypeOK
<1>7. pc' \in [Updaters -> Points]
  BY DEF TypeInv, TypeOK, Approve, Goto, Points
<1>8. LocalsOK'
  BY <1>3, <1>5 DEF TypeInv, TypeOK, LocalsOK, Approve, Goto
<1> QED BY <1>6, <1>7, <1>8 DEF TypeInv, TypeOK, Approve, disk, history, bounds

LEMMA WriteVoteType ==
    ASSUME TypeInv, NEW p \in Updaters, WriteVote(p)
    PROVE  TypeInv'
<1>1. vote[p] \in Vote
  BY DEF TypeInv, LocalsOK, WriteVote
<1>2. vote[p].env \in Envs /\ vote[p].bundle \in Names /\ vote[p].approver \in Approvers
  BY <1>1 DEF Vote
<1>3. state' \in State /\ votes' \in Nat
  BY DEF TypeInv, TypeOK, WriteVote
<1>4. voters' \subseteq Envs \X Names \X Approvers
  BY <1>2 DEF TypeInv, TypeOK, WriteVote
<1>5. granted' \in [Names -> Nat]
  BY <1>2 DEF TypeInv, TypeOK, WriteVote
<1>6. pc' \in [Updaters -> Points]
  BY DEF TypeInv, TypeOK, WriteVote, Goto, Points
<1>7. LocalsOK'
  BY DEF TypeInv, TypeOK, LocalsOK, WriteVote, Goto, locals
<1> QED BY <1>3, <1>4, <1>5, <1>6, <1>7 DEF TypeInv, TypeOK, WriteVote, locals

LEMMA ReadLastHashType ==
    ASSUME TypeInv, NEW p \in Updaters, ReadLastHash(p)
    PROVE  TypeInv'
<1>1. LastHash(audit) \in Nat
  BY DEF TypeInv, TypeOK, LastHash
<1>2. prev' \in [Updaters -> Nat] /\ pc' \in [Updaters -> Points]
  BY <1>1 DEF TypeInv, TypeOK, ReadLastHash, Goto, Points
<1>3. LocalsOK'
  BY DEF TypeInv, TypeOK, LocalsOK, ReadLastHash, Goto
<1> QED BY <1>2, <1>3 DEF TypeInv, TypeOK, ReadLastHash, disk, history, bounds

LEMMA AppendRecordType ==
    ASSUME TypeInv, NEW p \in Updaters, AppendRecord(p)
    PROVE  TypeInv'
<1>1. vote[p] \in Vote /\ prev[p] \in Nat
  BY DEF TypeInv, TypeOK, LocalsOK, AppendRecord
<1>2. Entry(vote[p], prev[p]) \in AuditRecord
  BY <1>1 DEF Entry, AuditRecord, Vote
<1>3. audit' \in Seq(AuditRecord) /\ counted' \in [Updaters -> Nat]
  BY <1>2 DEF TypeInv, TypeOK, AppendRecord
<1>4. Leave(p, "idle")
  BY DEF AppendRecord
<1> QED BY <1>3, <1>4, LeaveLocals DEF TypeInv, TypeOK, AppendRecord, history, bounds

LEMMA DiesType ==
    ASSUME TypeInv, NEW p \in Updaters, Crash(p) \/ CrashInWrite(p)
    PROVE  TypeInv'
<1>1. Dies(p) /\ Leave(p, "down")
  BY DEF Crash, CrashInWrite, Dies
<1>2. crashes' \in Nat
  BY <1>1 DEF TypeInv, TypeOK, Dies
<1>3. readable' \in BOOLEAN /\ state' = state
  BY DEF TypeInv, TypeOK, Crash, CrashInWrite
<1>4. files' \in [Targets -> Names \cup {NoBundle, Garbled}]
  BY DEF TypeInv, TypeOK, Crash, CrashInWrite
<1> QED BY <1>1, <1>2, <1>3, <1>4, LeaveLocals DEF TypeInv, TypeOK, Dies, history

LEMMA TypeStep ==
    ASSUME TypeInv, [Next]_vars
    PROVE  TypeInv'
<1>1. ASSUME NEW p \in Updaters, Start(p)
      PROVE  TypeInv'
  <2>1. pc' \in [Updaters -> Points] /\ counted' \in [Updaters -> Nat]
    BY <1>1 DEF TypeInv, TypeOK, Start, Goto, Points
  <2>2. LocalsOK'
    BY <1>1 DEF TypeInv, TypeOK, LocalsOK, Start, Goto, locals
  <2> QED BY <1>1, <2>1, <2>2 DEF TypeInv, TypeOK, Start, disk, locals, history, bounds
<1>2. ASSUME NEW p \in Updaters, ReloadRaises(p) \/ AuditRefuses(p)
      PROVE  TypeInv'
  <2>1. Leave(p, "idle")
    BY <1>2 DEF ReloadRaises, AuditRefuses
  <2> QED BY <1>2, <2>1, LeaveLocals
          DEF TypeInv, TypeOK, ReloadRaises, AuditRefuses, disk, history, bounds
<1>3. CASE UNCHANGED vars
  BY <1>3 DEF TypeInv, TypeOK, LocalsOK, vars, disk, locals, history, bounds
<1> QED
  BY <1>1, <1>2, <1>3, ApplyType, InstallPartType, ReloadType, StoreType, ApproveType,
     WriteVoteType, ReadLastHashType, AppendRecordType, DiesType
  DEF Next, Work

LEMMA TypeInit ==
    ASSUME Init
    PROVE  TypeInv
<1>1. \A S : << >> \in Seq(S)
  OBVIOUS
<1>2. LocalsOK
  BY DEF Init, LocalsOK
<1>3. TypeOK
  BY <1>1, EmptyStateType DEF Init, TypeOK, Points
<1> QED BY <1>2, <1>3 DEF TypeInv

LEMMA TypesHold == Spec => []TypeInv
<1> QED BY TypeInit, TypeStep, PTL DEF Spec

\* For any number of processes, bundles, environments and approvers, the files and
\* every process's locals have their types: what goes to the state file is always
\* a state.
THEOREM TypeCorrect == Spec => []TypeOK
<1>1. TypeInv => TypeOK
  BY DEF TypeInv
<1> QED BY <1>1, TypesHold, PTL

-----------------------------------------------------------------------------
(* Dual control, whatever the processes do to each other's state.          *)

\* The named people among the voters for a bundle in an environment.
Backers(e, b, V) == {a \in Approvers \ {Nobody} : <<e, b, a>> \in V}

\* Whoever is pending has voted, and who is approved had the votes.
Backed(s, V) ==
    \A e \in Envs :
        /\ \A x \in s.envs[e].pending : <<e, x.bundle, x.approver>> \in V
        /\ s.envs[e].approved # NoBundle =>
               Cardinality(Backers(e, s.envs[e].approved, V)) >= MinApprovers[e]

Cast(p) == <<vote[p].env, vote[p].bundle, vote[p].approver>>

\* The file, and every state that may still be written over it, is backed; a vote
\* not yet written counts for its own copy alone.
VotersInv ==
    /\ IsFiniteSet(voters)
    /\ Backed(state, voters)
    /\ \A p \in Updaters :
          /\ pc[p] = "store" => Backed(copy[p], voters)
          /\ pc[p] = "vote" => Backed(copy[p], voters \cup {Cast(p)})

LEMMA FiniteBackers ==
    ASSUME NEW e, NEW b, NEW V, IsFiniteSet(V)
    PROVE  IsFiniteSet(Backers(e, b, V))
<1> DEFINE W == {v \in V : \E a \in Backers(e, b, V) : v = <<e, b, a>>}
           name == [v \in W |-> v[3]]
<1>1. IsFiniteSet(W)
  BY FS_Subset
<1>2. name \in Surjection(W, Backers(e, b, V))
  <2>1. \A v \in W : v[3] \in Backers(e, b, V)
    OBVIOUS
  <2>2. \A a \in Backers(e, b, V) : <<e, b, a>> \in W
    BY DEF Backers
  <2> HIDE DEF W
  <2>3. name \in [W -> Backers(e, b, V)]
    BY <2>1
  <2>4. \A a \in Backers(e, b, V) : name[<<e, b, a>>] = a
    BY <2>2
  <2> QED BY <2>2, <2>3, <2>4 DEF Surjection
<1> QED BY <1>1, <1>2, FS_Surjection DEF ExistsSurjection

LEMMA MoreVoters ==
    ASSUME NEW s, NEW V, NEW W, IsFiniteSet(W), V \subseteq W, Backed(s, V)
    PROVE  Backed(s, W)
<1> SUFFICES ASSUME NEW e \in Envs
             PROVE  /\ \A x \in s.envs[e].pending : <<e, x.bundle, x.approver>> \in W
                    /\ s.envs[e].approved # NoBundle =>
                          Cardinality(Backers(e, s.envs[e].approved, W)) >= MinApprovers[e]
  BY DEF Backed
<1> DEFINE b == s.envs[e].approved
<1>1. Backers(e, b, V) \subseteq Backers(e, b, W)
  BY DEF Backers
<1>2. IsFiniteSet(Backers(e, b, V)) /\ IsFiniteSet(Backers(e, b, W))
  <2>1. IsFiniteSet(V)
    BY FS_Subset
  <2> QED BY <2>1, FiniteBackers
<1>3. /\ Cardinality(Backers(e, b, V)) <= Cardinality(Backers(e, b, W))
      /\ Cardinality(Backers(e, b, V)) \in Nat /\ Cardinality(Backers(e, b, W)) \in Nat
  BY <1>1, <1>2, FS_Subset, FS_CardinalityType
<1>4. MinApprovers[e] \in Nat
  BY BundleAssumption
<1>5. b # NoBundle => Cardinality(Backers(e, b, V)) >= MinApprovers[e]
  BY DEF Backed
<1>6. b # NoBundle => Cardinality(Backers(e, b, W)) >= MinApprovers[e]
  BY <1>3, <1>4, <1>5
<1> QED BY <1>6 DEF Backed

LEMMA VotedBacked ==
    ASSUME NEW s \in State, NEW e \in Envs, NEW b \in Names, NEW a \in Approvers,
           NEW V, IsFiniteSet(V), Backed(s, V)
    PROVE  Backed(Voted(s, e, b, a), V \cup {<<e, b, a>>})
<1> DEFINE n == Voted(s, e, b, a)
           W == V \cup {<<e, b, a>>}
           pending == s.envs[e].pending \cup {[bundle |-> b, approver |-> a]}
<1>1. IsFiniteSet(W)
  BY FS_AddElement
<1>2. Backed(s, W)
  BY <1>1, MoreVoters
<1>n. n = Voted(s, e, b, a) /\ pending = s.envs[e].pending \cup {[bundle |-> b, approver |-> a]}
  OBVIOUS
<1> HIDE DEF n, W, pending
<1>3. /\ \A f \in Envs \ {e} : n.envs[f] = s.envs[f]
      /\ \/ /\ Cardinality(ApproversOf(pending, b)) >= MinApprovers[e]
            /\ n.envs[e].approved = b
            /\ n.envs[e].pending = {x \in pending : x.bundle # b}
         \/ /\ n.envs[e].approved = s.envs[e].approved
            /\ n.envs[e].pending = pending
  BY <1>n, VotedCases
<1>4. \A x \in pending : <<e, x.bundle, x.approver>> \in W
  BY <1>2, <1>n DEF Backed, W
<1>5. s.envs[e].pending \in SUBSET [bundle : Names, approver : Approvers]
  BY DEF State, EnvState
<1>6. ApproversOf(pending, b) \subseteq Backers(e, b, W)
  BY <1>4, <1>5, <1>n DEF ApproversOf, Backers
<1>7. Cardinality(ApproversOf(pending, b)) >= MinApprovers[e]
      => Cardinality(Backers(e, b, W)) >= MinApprovers[e]
  <2>1. IsFiniteSet(Backers(e, b, W)) /\ IsFiniteSet(ApproversOf(pending, b))
    BY <1>1, <1>6, FiniteBackers, FS_Subset
  <2>2. /\ Cardinality(ApproversOf(pending, b)) <= Cardinality(Backers(e, b, W))
        /\ Cardinality(ApproversOf(pending, b)) \in Nat /\ Cardinality(Backers(e, b, W)) \in Nat
    BY <1>6, <2>1, FS_Subset, FS_CardinalityType
  <2>3. MinApprovers[e] \in Nat
    BY BundleAssumption
  <2> QED BY <2>2, <2>3
<1>8. Backed(n, W)
  <2> SUFFICES ASSUME NEW f \in Envs
               PROVE  /\ \A x \in n.envs[f].pending : <<f, x.bundle, x.approver>> \in W
                      /\ n.envs[f].approved # NoBundle =>
                            Cardinality(Backers(f, n.envs[f].approved, W)) >= MinApprovers[f]
    BY DEF Backed
  <2>1. CASE f = e
    BY <1>2, <1>3, <1>4, <1>7, <2>1 DEF Backed
  <2>2. CASE f # e
    BY <1>2, <1>3, <2>2 DEF Backed
  <2> QED BY <2>1, <2>2
<1> QED BY <1>8 DEF n, W

LEMMA RecordedBacked ==
    ASSUME NEW s \in State, NEW b \in Names, NEW V, Backed(s, V)
    PROVE  Backed(Recorded(s, b), V)
<1> DEFINE envs == Recorded(s, b).envs
<1>1. s.envs \in [Envs -> EnvState] /\ Content[b].env \in Envs
  BY BundleAssumption DEF State, Bundle
<1>2. \A e \in Envs : envs[e].pending = s.envs[e].pending
                      /\ envs[e].approved \in {NoBundle, s.envs[e].approved}
  BY <1>1 DEF Recorded, EnvState
<1> HIDE DEF envs
<1>3. Backed([envs |-> envs], V)
  BY <1>2 DEF Backed
<1> QED BY <1>3 DEF Backed, envs

\* A step that leaves the file and the voters alone, and lets no process newly
\* near a write.
LEMMA VotersFrame ==
    ASSUME VotersInv, state' = state, voters' = voters,
           \A q \in Updaters :
              \/ pc'[q] \notin {"store", "vote"}
              \/ pc'[q] = pc[q] /\ copy'[q] = copy[q] /\ vote'[q] = vote[q]
    PROVE  VotersInv'
<1>1. IsFiniteSet(voters)' /\ Backed(state, voters)'
  BY DEF VotersInv, Backed, Backers
<1>2. ASSUME NEW q \in Updaters, pc'[q] = pc[q], copy'[q] = copy[q], vote'[q] = vote[q]
      PROVE  /\ pc[q] = "store" => Backed(copy'[q], voters')
             /\ pc[q] = "vote" => Backed(copy'[q], voters' \cup {Cast(q)'})
  <2>1. Cast(q)' = Cast(q)
    BY <1>2 DEF Cast
  <2> QED BY <1>2, <2>1 DEF VotersInv
<1> QED BY <1>1, <1>2 DEF VotersInv, Backed, Backers

LEMMA LeaveFrame ==
    ASSUME TypeInv, NEW p \in Updaters, NEW point \in {"idle", "down"}, Leave(p, point)
    PROVE  \A q \in Updaters :
              \/ q = p /\ pc'[q] = point
              \/ /\ q # p /\ pc'[q] = pc[q] /\ copy'[q] = copy[q] /\ vote'[q] = vote[q]
                 /\ bundle'[q] = bundle[q] /\ prev'[q] = prev[q] /\ todo'[q] = todo[q]
BY DEF TypeInv, TypeOK, Leave, Goto

LEMMA StoreVoters ==
    ASSUME TypeInv, VotersInv, NEW p \in Updaters, Store(p)
    PROVE  VotersInv'
<1>1. copy[p] \in State /\ bundle[p] \in Names /\ Backed(copy[p], voters)
  BY DEF TypeInv, TypeOK, LocalsOK, VotersInv, Store
<1>2. Backed(state', voters')
  BY <1>1, RecordedBacked DEF Store
<1>3. Leave(p, "idle") /\ voters' = voters
  BY DEF Store
<1>4. ASSUME NEW q \in Updaters
      PROVE  /\ pc'[q] = "store" => Backed(copy'[q], voters')
             /\ pc'[q] = "vote" => Backed(copy'[q], voters' \cup {Cast(q)'})
  <2>1. \/ q = p /\ pc'[q] = "idle"
        \/ pc'[q] = pc[q] /\ copy'[q] = copy[q] /\ vote'[q] = vote[q]
    BY <1>3, LeaveFrame
  <2> QED BY <1>3, <2>1 DEF VotersInv, Cast
<1>5. IsFiniteSet(voters')
  BY <1>3 DEF VotersInv
<1>6. Backed(state, voters)'
  BY <1>2 DEF Backed, Backers
<1> QED BY <1>4, <1>5, <1>6 DEF VotersInv, Backed, Backers

LEMMA ApproveVoters ==
    ASSUME TypeInv, VotersInv, NEW p \in Updaters,
           NEW e \in Envs, NEW b \in Candidates, NEW a \in Approvers, Approve(p, e, b, a)
    PROVE  VotersInv'
<1> DEFINE c == CandidateOf(b, e)
<1>1. c \in Names
  <2>1. state.envs[e].canary \in Names \cup {NoBundle}
    BY DEF TypeInv, TypeOK, State, EnvState
  <2> QED BY <2>1, BundleAssumption DEF CandidateOf, Approve
<1>2. state \in State /\ Backed(state, voters) /\ IsFiniteSet(voters)
  BY DEF TypeInv, TypeOK, VotersInv
<1> HIDE DEF c
<1>3. Backed(Voted(state, e, c, a), voters \cup {<<e, c, a>>})
  BY <1>1, <1>2, VotedBacked
<1>4. /\ copy' = [copy EXCEPT ![p] = Voted(state, e, c, a)]
      /\ vote' = [vote EXCEPT ![p] =
            [env |-> e, bundle |-> c, approver |-> a, status |-> StatusOf(copy'[p], c, e)]]
      /\ pc' = [pc EXCEPT ![p] = "vote"] /\ voters' = voters /\ state' = state
  BY DEF Approve, c, Goto, disk, history
<1>5. copy'[p] = Voted(state, e, c, a) /\ Cast(p)' = <<e, c, a>>
  BY <1>4 DEF TypeInv, TypeOK, Cast
<1>6. Backed(copy'[p], voters' \cup {Cast(p)'}) /\ pc'[p] = "vote"
  BY <1>3, <1>4, <1>5 DEF TypeInv, TypeOK
<1>7. ASSUME NEW q \in Updaters, q # p
      PROVE  /\ pc'[q] = "store" => Backed(copy'[q], voters')
             /\ pc'[q] = "vote" => Backed(copy'[q], voters' \cup {Cast(q)'})
  <2>1. pc'[q] = pc[q] /\ copy'[q] = copy[q] /\ vote'[q] = vote[q]
    BY <1>4, <1>7 DEF TypeInv, TypeOK
  <2> QED BY <1>4, <2>1 DEF VotersInv, Cast
<1>8. Backed(state, voters)' /\ IsFiniteSet(voters)'
  BY <1>2, <1>4 DEF Backed, Backers
<1> QED BY <1>6, <1>7, <1>8 DEF VotersInv, Backed, Backers

LEMMA WriteVoteVoters ==
    ASSUME TypeInv, VotersInv, NEW p \in Updaters, WriteVote(p)
    PROVE  VotersInv'
<1>1. /\ voters' = voters \cup {Cast(p)} /\ state' = copy[p]
      /\ copy' = copy /\ vote' = vote /\ pc' = [pc EXCEPT ![p] = "verify"]
  BY DEF WriteVote, Cast, Goto, locals
<1>2. IsFiniteSet(voters')
  BY <1>1, FS_AddElement DEF VotersInv
<1>3. Backed(state', voters')
  BY <1>1 DEF VotersInv, WriteVote
<1>4. ASSUME NEW q \in Updaters
      PROVE  /\ pc'[q] = "store" => Backed(copy'[q], voters')
             /\ pc'[q] = "vote" => Backed(copy'[q], voters' \cup {Cast(q)'})
  <2>1. Cast(q)' = Cast(q) /\ copy'[q] = copy[q]
    BY <1>1 DEF Cast
  <2>2. pc'[q] \in {"store", "vote"} => pc'[q] = pc[q]
    BY <1>1 DEF TypeInv, TypeOK
  <2>3. CASE pc'[q] = "store"
    <3>1. Backed(copy[q], voters)
      BY <2>2, <2>3 DEF VotersInv
    <3> QED BY <1>1, <1>2, <2>1, <2>3, <3>1, MoreVoters
  <2>4. CASE pc'[q] = "vote"
    <3>1. Backed(copy[q], voters \cup {Cast(q)})
      BY <2>2, <2>4 DEF VotersInv
    <3>2. voters \cup {Cast(q)} \subseteq voters' \cup {Cast(q)}
      BY <1>1
    <3>3. IsFiniteSet(voters' \cup {Cast(q)})
      BY <1>2, FS_AddElement
    <3> QED BY <2>1, <2>4, <3>1, <3>2, <3>3, MoreVoters
  <2> QED BY <2>3, <2>4
<1>5. Backed(state, voters)'
  BY <1>3 DEF Backed, Backers
<1> QED BY <1>2, <1>4, <1>5 DEF VotersInv, Backed, Backers

LEMMA VotersStep ==
    ASSUME TypeInv, VotersInv, [Next]_vars
    PROVE  VotersInv'
<1>1. ASSUME NEW p \in Updaters, \/ Start(p) \/ InstallPart(p) \/ ReadLastHash(p)
                                 \/ \E b \in Names : Apply(p, b)
      PROVE  VotersInv'
  <2>1. /\ state' = state /\ voters' = voters /\ copy' = copy /\ vote' = vote
        /\ \/ pc' = pc
           \/ \E point \in {"idle", "install", "append"} : pc' = [pc EXCEPT ![p] = point]
    BY <1>1 DEF Start, InstallPart, ReadLastHash, Apply, Goto, disk, locals, history
  <2>2. \A q \in Updaters : pc'[q] \notin {"store", "vote"} \/ pc'[q] = pc[q]
    BY <2>1 DEF TypeInv, TypeOK
  <2> QED BY <2>1, <2>2, VotersFrame
<1>2. ASSUME NEW p \in Updaters, Reload(p)
      PROVE  VotersInv'
  <2>1. /\ state' = state /\ voters' = voters /\ vote' = vote
        /\ copy' = [copy EXCEPT ![p] = state] /\ pc' = [pc EXCEPT ![p] = "store"]
    BY <1>2 DEF Reload, Goto, disk, history
  <2>2. Backed(state, voters)
    BY DEF VotersInv
  <2>3. ASSUME NEW q \in Updaters
        PROVE  /\ pc'[q] = "store" => Backed(copy'[q], voters')
               /\ pc'[q] = "vote" => Backed(copy'[q], voters' \cup {Cast(q)'})
    <3>1. CASE q = p
      BY <2>1, <2>2, <3>1 DEF TypeInv, TypeOK
    <3>2. CASE q # p
      <4>1. pc'[q] = pc[q] /\ copy'[q] = copy[q] /\ Cast(q)' = Cast(q)
        BY <2>1, <3>2 DEF TypeInv, TypeOK, Cast
      <4> QED BY <2>1, <4>1 DEF VotersInv
    <3> QED BY <3>1, <3>2
  <2>4. Backed(state, voters)' /\ IsFiniteSet(voters)'
    BY <2>1, <2>2 DEF VotersInv, Backed, Backers
  <2> QED BY <2>3, <2>4 DEF VotersInv, Backed, Backers
<1>3. ASSUME NEW p \in Updaters, \/ ReloadRaises(p) \/ AuditRefuses(p) \/ AppendRecord(p)
                                 \/ Crash(p) \/ CrashInWrite(p)
      PROVE  VotersInv'
  <2>1. state' = state /\ voters' = voters /\ \E point \in {"idle", "down"} : Leave(p, point)
    BY <1>3 DEF ReloadRaises, AuditRefuses, AppendRecord, Crash, CrashInWrite, Dies, disk, history
  <2>2. \A q \in Updaters :
           \/ pc'[q] \notin {"store", "vote"}
           \/ pc'[q] = pc[q] /\ copy'[q] = copy[q] /\ vote'[q] = vote[q]
    BY <2>1, LeaveFrame
  <2> QED BY <2>1, <2>2, VotersFrame
<1>4. CASE UNCHANGED vars
  <2>1. /\ state' = state /\ voters' = voters /\ pc' = pc /\ copy' = copy /\ vote' = vote
    BY <1>4 DEF vars, disk, locals, history
  <2> QED BY <2>1, VotersFrame
<1> QED BY <1>1, <1>2, <1>3, <1>4, StoreVoters, ApproveVoters, WriteVoteVoters DEF Next, Work

LEMMA VotersInit ==
    ASSUME Init
    PROVE  VotersInv
<1>1. IsFiniteSet(voters)
  BY FS_EmptySet DEF Init
<1>2. Backed(state, voters)
  BY DEF Init, Backed, EmptyState
<1> QED BY <1>1, <1>2 DEF Init, VotersInv

\* For any number of processes that overwrite each other's state, any trust policy
\* and any crashes: a canary counts as approved only when as many different named
\* people as the policy asks for voted for it.
THEOREM DualControl == Spec => []ApprovalsHaveVoters
<1>1. VotersInv => ApprovalsHaveVoters
  BY DEF VotersInv, Backed, Backers, ApprovalsHaveVoters
<1> QED BY <1>1, VotersInit, VotersStep, TypesHold, PTL DEF Spec

-----------------------------------------------------------------------------
(* One process at a time.                                                  *)

Alone == \A p, q \in Updaters : p = q

\* What a process alone knows of the file between reading and writing it.
AloneInv ==
    \A p \in Updaters :
        /\ pc[p] \in {"install", "store"} =>
               Content[bundle[p]].version > state.version /\ CanaryGate(bundle[p])
        /\ pc[p] = "store" => copy[p] = state
        /\ pc[p] = "vote" =>
               /\ copy[p] = Voted(state, vote[p].env, vote[p].bundle, vote[p].approver)
               /\ vote[p].status = StatusOf(copy[p], vote[p].bundle, vote[p].env)

LEMMA AloneApprove ==
    ASSUME Alone, TypeInv, AloneInv, NEW p \in Updaters,
           NEW e \in Envs, NEW b \in Candidates, NEW a \in Approvers, Approve(p, e, b, a)
    PROVE  AloneInv'
<1> DEFINE c == CandidateOf(b, e)
           n == Voted(state, e, c, a)
<1> HIDE DEF c, n
<1>1. /\ copy' = [copy EXCEPT ![p] = n]
      /\ vote' = [vote EXCEPT ![p] =
            [env |-> e, bundle |-> c, approver |-> a, status |-> StatusOf(copy'[p], c, e)]]
      /\ pc' = [pc EXCEPT ![p] = "vote"] /\ state' = state
  BY DEF Approve, c, n, Goto, disk
<1>2. /\ copy'[p] = n /\ pc'[p] = "vote"
      /\ vote'[p] = [env |-> e, bundle |-> c, approver |-> a, status |-> StatusOf(copy'[p], c, e)]
  BY <1>1 DEF TypeInv, TypeOK
<1>3. /\ copy'[p] = Voted(state', vote'[p].env, vote'[p].bundle, vote'[p].approver)
      /\ vote'[p].status = StatusOf(copy'[p], vote'[p].bundle, vote'[p].env)
  BY <1>1, <1>2 DEF n
<1>4. \A q \in Updaters : q = p
  BY DEF Alone
<1> QED BY <1>2, <1>3, <1>4 DEF AloneInv

LEMMA AloneStep ==
    ASSUME Alone, TypeInv, AloneInv, [Next]_vars
    PROVE  AloneInv'
<1>1. \A p, q \in Updaters : p = q
  BY DEF Alone
<1>2. ASSUME NEW p \in Updaters, NEW b \in Names, Apply(p, b)
      PROVE  AloneInv'
  <2>1. bundle'[p] = b /\ state' = state /\ pc'[p] = "install"
    BY <1>2 DEF TypeInv, TypeOK, Apply, Goto, disk
  <2>2. Content[b].version > state.version /\ CanaryGate(b)
    BY <1>2 DEF Apply, Acceptable
  <2>3. CanaryGate(b)'
    BY <2>1, <2>2 DEF CanaryGate, Gated
  <2> QED BY <1>1, <2>1, <2>2, <2>3 DEF AloneInv, CanaryGate, Gated
<1>3. ASSUME NEW p \in Updaters, InstallPart(p)
      PROVE  AloneInv'
  BY <1>3 DEF AloneInv, InstallPart, CanaryGate, Gated
<1>4. ASSUME NEW p \in Updaters, Reload(p)
      PROVE  AloneInv'
  <2>1. /\ bundle' = bundle /\ state' = state /\ copy'[p] = state
        /\ pc[p] = "install" /\ pc'[p] = "store"
    BY <1>4 DEF TypeInv, TypeOK, Reload, Goto, disk
  <2> QED BY <1>1, <2>1 DEF AloneInv, CanaryGate, Gated
<1>5. ASSUME NEW p \in Updaters, pc'[p] \in {"idle", "down", "verify", "append"}
      PROVE  AloneInv'
  BY <1>1, <1>5 DEF AloneInv
<1>6. ASSUME NEW p \in Updaters, NEW point \in {"idle", "down"}, Leave(p, point)
      PROVE  AloneInv'
  BY <1>5, <1>6, LeaveFrame
<1>7. ASSUME NEW p \in Updaters, Start(p) \/ WriteVote(p) \/ ReadLastHash(p)
      PROVE  AloneInv'
  <2>1. pc'[p] \in {"idle", "verify", "append"}
    BY <1>7 DEF TypeInv, TypeOK, Start, WriteVote, ReadLastHash, Goto
  <2> QED BY <1>5, <2>1
<1>8. ASSUME NEW p \in Updaters, \/ ReloadRaises(p) \/ AuditRefuses(p) \/ AppendRecord(p)
                                 \/ Store(p) \/ Crash(p) \/ CrashInWrite(p)
      PROVE  AloneInv'
  <2>1. \E point \in {"idle", "down"} : Leave(p, point)
    BY <1>8 DEF ReloadRaises, AuditRefuses, AppendRecord, Store, Crash, CrashInWrite, Dies
  <2> QED BY <1>6, <2>1
<1>9. CASE UNCHANGED vars
  BY <1>9 DEF vars, disk, locals, AloneInv, CanaryGate, Gated
<1> QED BY <1>2, <1>3, <1>4, <1>7, <1>8, <1>9, AloneApprove DEF Next, Work

\* The state file with one process: a store moves version and chain on, a vote
\* leaves both.
LEMMA StateSteps ==
    ASSUME TypeInv, AloneInv, [Next]_vars
    PROVE  /\ state'.version >= state.version
           /\ state'.chain = state.chain \/ \E b \in Names : state'.chain = Append(state.chain, b)
<1>1. state.version \in Nat
  BY DEF TypeInv, TypeOK, State
<1>2. ASSUME NEW p \in Updaters, Store(p)
      PROVE  /\ state'.version > state.version
             /\ state'.chain = Append(state.chain, bundle[p]) /\ bundle[p] \in Names
  BY <1>2 DEF TypeInv, LocalsOK, AloneInv, Store, Recorded
<1>3. ASSUME NEW p \in Updaters, WriteVote(p)
      PROVE  state'.version = state.version /\ state'.chain = state.chain
  <2>1. vote[p].env \in Envs /\ vote[p].bundle \in Names /\ vote[p].approver \in Approvers
    BY <1>3 DEF TypeInv, LocalsOK, Vote, WriteVote
  <2>2. state' = Voted(state, vote[p].env, vote[p].bundle, vote[p].approver) /\ state \in State
    BY <1>3 DEF AloneInv, WriteVote, TypeInv, TypeOK
  <2>3. ASSUME NEW e \in Envs, NEW b \in Names, NEW a \in Approvers, NEW n, n = Voted(state, e, b, a)
        PROVE  n.version = state.version /\ n.chain = state.chain
    <3>1. PICK pending : pending = state.envs[e].pending \cup {[bundle |-> b, approver |-> a]}
      OBVIOUS
    <3> QED BY <2>2, <2>3, <3>1, VotedCases
  <2> QED BY <2>1, <2>2, <2>3
<1>4. ASSUME ~\E p \in Updaters : Store(p) \/ WriteVote(p)
      PROVE  state' = state
  <2>1. ASSUME NEW p \in Updaters, Work(p), ~Store(p), ~WriteVote(p)
        PROVE  state' = state
    BY <2>1 DEF Work, Apply, InstallPart, Reload, ReloadRaises, Approve, AuditRefuses,
                ReadLastHash, AppendRecord, disk
  <2>2. ASSUME NEW p \in Updaters, Start(p) \/ Crash(p) \/ CrashInWrite(p)
        PROVE  state' = state
    BY <2>2 DEF Start, Crash, CrashInWrite, disk
  <2>3. CASE UNCHANGED vars
    BY <2>3 DEF vars, disk
  <2> QED BY <1>4, <2>1, <2>2, <2>3 DEF Next
<1>5. state'.version \in Nat
  BY TypeStep DEF TypeInv, TypeOK, State
<1> QED BY <1>1, <1>2, <1>3, <1>4, <1>5

LEMMA AloneInit ==
    ASSUME Init
    PROVE  AloneInv
BY DEF Init, AloneInv

LEMMA AloneHolds ==
    ASSUME Alone
    PROVE  Spec => []AloneInv
<1>1. TypeInv /\ AloneInv /\ [Next]_vars => AloneInv'
  BY AloneStep
<1> QED BY <1>1, AloneInit, TypesHold, PTL DEF Spec

\* With one process at a time, whatever it installs and wherever it dies: the
\* version in the state file never goes back and the chain only grows.
THEOREM ChainGrows ==
    ASSUME Alone
    PROVE  Spec => StateGrows
<1>1. TypeInv /\ AloneInv /\ [Next]_vars =>
          [/\ state'.version >= state.version
           /\ state'.chain = state.chain \/ \E b \in Names : state'.chain = Append(state.chain, b)]_vars
  BY StateSteps
<1> QED BY <1>1, AloneHolds, TypesHold, PTL DEF Spec, StateGrows

\* A file changes to a bundle only where that bundle is installed.
LEMMA FileSteps ==
    ASSUME TypeInv, AloneInv, [Next]_vars,
           NEW t \in GlobalTargets, files'[t] # files[t], files'[t] \in Names, Gated(files'[t])
    PROVE  state.envs[Content[files'[t]].env].approved = Content[files'[t]].source
<1>1. t \in Targets
  BY DEF Targets
<1>2. PICK p \in Updaters : InstallPart(p)
  <2>1. ASSUME NEW p \in Updaters, Work(p), ~InstallPart(p)
        PROVE  files' = files
    BY <2>1 DEF Work, Apply, Reload, ReloadRaises, Store, Approve, WriteVote, AuditRefuses,
                ReadLastHash, AppendRecord, disk
  <2>2. ASSUME NEW p \in Updaters, Start(p) \/ Crash(p)
        PROVE  files' = files
    BY <2>2 DEF Start, Crash, disk
  <2>3. ASSUME NEW p \in Updaters, CrashInWrite(p)
        PROVE  files'[t] \in {files[t], Garbled}
    BY <1>1, <2>3 DEF CrashInWrite, TypeInv, TypeOK
  <2>4. CASE UNCHANGED vars
    BY <2>4 DEF vars, disk
  <2>5. Garbled \notin Names
    BY BundleAssumption
  <2> QED BY <2>1, <2>2, <2>3, <2>4, <2>5 DEF Next
<1>3. files'[t] = bundle[p]
  BY <1>1, <1>2 DEF InstallPart, TypeInv, TypeOK
<1>4. CanaryGate(bundle[p])
  BY <1>2 DEF AloneInv, InstallPart
<1> QED BY <1>3, <1>4 DEF CanaryGate, Gated

\* With one process at a time: whenever a file in force changes to a bundle that
\* needs a canary's approval, the state shows that approval at that moment, for
\* the last of the bundle's files as for the first.
THEOREM RolloutsAreApproved ==
    ASSUME Alone
    PROVE  Spec => GlobalsAreApproved
<1>1. TypeInv /\ AloneInv /\ [Next]_vars =>
          [\A t \in GlobalTargets :
              files'[t] # files[t] /\ files'[t] \in Names /\ Gated(files'[t]) =>
                  state.envs[Content[files'[t]].env].approved = Content[files'[t]].source]_vars
  BY FileSteps
<1> QED BY <1>1, AloneHolds, TypesHold, PTL DEF Spec, GlobalsAreApproved

-----------------------------------------------------------------------------
(* One process at a time: every approval is recorded.                      *)

\* The chain of the audit is sound, and who is about to append knows its end.
AuditInv ==
    /\ Verifies(audit)
    /\ \A p \in Updaters : pc[p] = "append" => prev[p] = Len(audit)
    /\ VotesAreAudited

LEMMA Linked ==
    ASSUME NEW log \in Seq(AuditRecord), Verifies(log),
           NEW record \in AuditRecord, record.prev = Len(log)
    PROVE  Verifies(Append(log, record))
BY DEF Verifies

\* With one process, Recording is that process or nobody.
LEMMA RecordingCount ==
    ASSUME Alone, NEW p \in Updaters
    PROVE  Cardinality(Recording) = IF pc[p] \in {"verify", "append"} THEN 1 ELSE 0
<1>1. Recording = IF pc[p] \in {"verify", "append"} THEN {p} ELSE {}
  BY DEF Alone, Recording
<1> QED BY <1>1, FS_Singleton, FS_EmptySet

LEMMA RecordingCountAfter ==
    ASSUME Alone, NEW p \in Updaters
    PROVE  Cardinality(Recording)' = IF pc'[p] \in {"verify", "append"} THEN 1 ELSE 0
<1>1. Recording' = IF pc'[p] \in {"verify", "append"} THEN {p} ELSE {}
  BY DEF Alone, Recording
<1> QED BY <1>1, FS_Singleton, FS_EmptySet

LEMMA AppendAudited ==
    ASSUME Alone, TypeInv, AuditInv, NEW p \in Updaters, AppendRecord(p)
    PROVE  AuditInv'
<1>1. vote[p] \in Vote /\ prev[p] \in Nat /\ pc[p] = "append" /\ pc \in [Updaters -> Points]
  BY DEF TypeInv, TypeOK, LocalsOK, AppendRecord
<1>2. Entry(vote[p], prev[p]) \in AuditRecord /\ Entry(vote[p], prev[p]).prev = Len(audit)
  BY <1>1 DEF Entry, AuditRecord, Vote, AuditInv
<1>3. audit \in Seq(AuditRecord) /\ audit' = Append(audit, Entry(vote[p], prev[p]))
  BY DEF TypeInv, TypeOK, AppendRecord
<1>4. Verifies(audit')
  BY <1>2, <1>3, Linked DEF AuditInv
<1>5. pc'[p] = "idle"
  BY <1>1 DEF AppendRecord, Leave, Goto
<1>6. Len(audit') = Len(audit) + 1 /\ Len(audit) \in Nat
  BY <1>2, <1>3
<1>7. Cardinality(Recording) = 1 /\ Cardinality(Recording)' = 0
  BY <1>1, <1>5, RecordingCount, RecordingCountAfter
<1>8. votes' = votes /\ crashes' = crashes /\ votes \in Nat /\ crashes \in Nat
  BY DEF AppendRecord, bounds, TypeInv, TypeOK
<1>9. VotesAreAudited'
  BY <1>6, <1>7, <1>8 DEF AuditInv, VotesAreAudited
<1> QED BY <1>4, <1>5, <1>9 DEF AuditInv, Alone, Verifies

LEMMA AuditStep ==
    ASSUME Alone, TypeInv, AuditInv, [Next]_vars
    PROVE  AuditInv'
<1>1. CASE UNCHANGED vars
  <2>1. Recording' = Recording
    BY <1>1 DEF vars, Recording
  <2> QED BY <1>1, <2>1 DEF vars, disk, locals, bounds, AuditInv, VotesAreAudited, Verifies
<1>2. ASSUME NEW p \in Updaters, ~AppendRecord(p), Start(p) \/ Work(p) \/ Crash(p) \/ CrashInWrite(p)
      PROVE  AuditInv'
  <2>1. audit' = audit /\ pc \in [Updaters -> Points] /\ Len(audit) \in Nat
        /\ votes \in Nat /\ crashes \in Nat
    <3>1. audit' = audit
      BY <1>2 DEF Work, Start, Apply, InstallPart, Reload, ReloadRaises, Store, Approve, WriteVote,
                  AuditRefuses, ReadLastHash, Crash, CrashInWrite, Dies, disk
    <3> QED BY <3>1 DEF TypeInv, TypeOK
  <2>2. ~AuditRefuses(p)
    BY DEF AuditRefuses, AuditInv
  <2>3. ASSUME NEW q \in Updaters
        PROVE  pc'[q] = "append" => prev'[q] = Len(audit)
    <3>1. q = p
      BY DEF Alone
    <3>2. CASE ReadLastHash(p)
      BY <3>1, <3>2 DEF ReadLastHash, LastHash, TypeInv, TypeOK
    <3>3. CASE ~ReadLastHash(p)
      <4>1. pc'[p] # "append"
        <5>1. ASSUME NEW point \in {"idle", "down"}, Leave(p, point)
              PROVE  pc'[p] # "append"
          BY <5>1 DEF Leave, Goto, TypeInv, TypeOK
        <5>2. CASE ReloadRaises(p) \/ Store(p) \/ Crash(p) \/ CrashInWrite(p)
          BY <5>1, <5>2 DEF ReloadRaises, Store, Crash, CrashInWrite, Dies
        <5>3. CASE Start(p) \/ Reload(p) \/ WriteVote(p)
          BY <5>3 DEF Start, Reload, WriteVote, Goto, TypeInv, TypeOK
        <5>4. ASSUME NEW b \in Names, Apply(p, b)
              PROVE  pc'[p] # "append"
          BY <5>4 DEF Apply, Goto, TypeInv, TypeOK
        <5>5. ASSUME NEW e \in Envs, NEW b \in Candidates, NEW a \in Approvers, Approve(p, e, b, a)
              PROVE  pc'[p] # "append"
          BY <5>5 DEF Approve, Goto, TypeInv, TypeOK
        <5>6. CASE InstallPart(p)
          BY <5>6 DEF InstallPart
        <5> QED BY <1>2, <2>2, <3>3, <5>2, <5>3, <5>4, <5>5, <5>6 DEF Work
      <4> QED BY <3>1, <4>1
    <3> QED BY <3>2, <3>3
  <2>4. \/ votes' = votes /\ crashes' = crashes
           /\ (pc[p] \in {"verify", "append"} => pc'[p] \in {"verify", "append"})
        \/ votes' = votes /\ crashes' = crashes + 1
        \/ votes' = votes + 1 /\ crashes' = crashes /\ pc[p] = "vote" /\ pc'[p] = "verify"
    <3>1. CASE Crash(p) \/ CrashInWrite(p)
      BY <3>1 DEF Crash, CrashInWrite, Dies
    <3>2. CASE WriteVote(p)
      BY <2>1, <3>2 DEF WriteVote, Goto
    <3>3. CASE Start(p) \/ InstallPart(p) \/ Reload(p) \/ ReloadRaises(p) \/ Store(p)
      BY <3>3 DEF Start, InstallPart, Reload, ReloadRaises, Store, bounds
    <3>4. ASSUME NEW b \in Names, Apply(p, b)
          PROVE  votes' = votes /\ crashes' = crashes /\ pc[p] \notin {"verify", "append"}
      BY <3>4 DEF Apply, bounds
    <3>5. ASSUME NEW e \in Envs, NEW b \in Candidates, NEW a \in Approvers, Approve(p, e, b, a)
          PROVE  votes' = votes /\ crashes' = crashes /\ pc[p] \notin {"verify", "append"}
      BY <3>5 DEF Approve, bounds
    <3>6. CASE ReadLastHash(p)
      BY <2>1, <3>6 DEF ReadLastHash, Goto, bounds
    <3> QED BY <1>2, <2>2, <3>1, <3>2, <3>3, <3>4, <3>5, <3>6 DEF Work
  <2>5. VotesAreAudited'
    <3>1. /\ Cardinality(Recording) = IF pc[p] \in {"verify", "append"} THEN 1 ELSE 0
          /\ Cardinality(Recording)' = IF pc'[p] \in {"verify", "append"} THEN 1 ELSE 0
      BY RecordingCount, RecordingCountAfter
    <3>2. votes <= Len(audit) + Cardinality(Recording) + crashes
      BY DEF AuditInv, VotesAreAudited
    <3>3. votes' <= Len(audit) + Cardinality(Recording)' + crashes'
      BY <2>1, <2>4, <3>1, <3>2
    <3> QED BY <2>1, <3>3 DEF VotesAreAudited
  <2> QED BY <2>1, <2>3, <2>5 DEF AuditInv, Verifies
<1> QED BY <1>1, <1>2, AppendAudited DEF Next

LEMMA AuditInit ==
    ASSUME Init
    PROVE  AuditInv
<1>1. Recording = {}
  BY DEF Init, Recording
<1>2. Cardinality(Recording) = 0
  BY <1>1, FS_EmptySet
<1>3. VotesAreAudited
  BY <1>2 DEF Init, VotesAreAudited
<1> QED BY <1>3 DEF Init, AuditInv, Verifies

\* With one process at a time, wherever it dies: its audit never refuses an append
\* on account of its own records, and no approval but those whose process died
\* stays without one.
THEOREM ApprovalsAreRecorded ==
    ASSUME Alone
    PROVE  Spec => []VotesAreAudited
<1>1. TypeInv /\ AuditInv /\ [Next]_vars => AuditInv'
  BY AuditStep
<1>2. AuditInv => VotesAreAudited
  BY DEF AuditInv
<1> QED BY <1>1, <1>2, AuditInit, TypesHold, PTL DEF Spec

-----------------------------------------------------------------------------
(* One process at a time: an approval is spent once.                       *)

\* The environments whose state approves a bundle.
Holders(s, b) == {e \in Envs : s.envs[e].approved = b}

\* Approvals reached are spent or still held.
SpentInv == \A b \in Names : spent[b] + Cardinality(Holders(state, b)) <= granted[b]

LEMMA FiniteHolders ==
    ASSUME IsFiniteSet(Envs), NEW s, NEW b
    PROVE  IsFiniteSet(Holders(s, b)) /\ Cardinality(Holders(s, b)) \in Nat
<1>1. Holders(s, b) \in SUBSET Envs
  BY DEF Holders
<1> QED BY <1>1, FS_Subset, FS_CardinalityType

LEMMA FewerHolders ==
    ASSUME IsFiniteSet(Envs), NEW s, NEW n, NEW b, Holders(n, b) \subseteq Holders(s, b)
    PROVE  Cardinality(Holders(n, b)) <= Cardinality(Holders(s, b))
BY FiniteHolders, FS_Subset

LEMMA StoreSpends ==
    ASSUME IsFiniteSet(Envs), TypeInv, AloneInv, SpentInv, NEW p \in Updaters, Store(p)
    PROVE  SpentInv'
<1> DEFINE b == bundle[p]
           e == Content[b].env
           source == Content[b].source
<1>1. b \in Names /\ state \in State /\ copy[p] = state /\ CanaryGate(b)
  BY DEF TypeInv, TypeOK, LocalsOK, AloneInv, Store
<1>2. e \in Envs /\ state.envs \in [Envs -> EnvState]
  BY <1>1, BundleAssumption DEF Bundle, State
<1>3. state' = Recorded(state, b) /\ granted' = granted
  BY <1>1 DEF Store
<1>4. spent \in [Names -> Nat] /\ granted \in [Names -> Nat] /\ spent' \in [Names -> Nat]
  BY TypeStep DEF TypeInv, TypeOK, Next, Work
<1>5. spent' = IF Gated(b) THEN [spent EXCEPT ![source] = @ + 1] ELSE spent
  BY DEF Store
<1>6. Gated(b) => source = state.envs[e].approved /\ Content[b].stage = "global"
  BY <1>1 DEF CanaryGate, Gated
<1> HIDE DEF b, e, source
<1>7. ASSUME NEW x \in Names
      PROVE  Holders(state', x) \subseteq Holders(state, x)
  <2>1. \A f \in Envs : state'.envs[f].approved \in {NoBundle, state.envs[f].approved}
    BY <1>2, <1>3 DEF Recorded, EnvState, e
  <2> QED BY <2>1, BundleAssumption DEF Holders
<1>8. Gated(b) => e \notin Holders(state', source) \/ source \notin Names
  <2>1. Gated(b) => state'.envs[e].approved = NoBundle
    BY <1>2, <1>3, <1>6 DEF Recorded, EnvState, e
  <2> QED BY <2>1, BundleAssumption DEF Holders
<1>9. ASSUME NEW x \in Names
      PROVE  spent'[x] + Cardinality(Holders(state', x)) <= granted[x]
  <2>1. /\ Cardinality(Holders(state', x)) <= Cardinality(Holders(state, x))
        /\ Cardinality(Holders(state', x)) \in Nat /\ Cardinality(Holders(state, x)) \in Nat
    BY <1>7, FewerHolders, FiniteHolders
  <2>2. spent[x] + Cardinality(Holders(state, x)) <= granted[x]
    BY DEF SpentInv
  <2>3. CASE Gated(b) /\ x = source
    <3>1. e \in Holders(state, x) \ Holders(state', x)
      BY <1>2, <1>6, <1>8, <2>3 DEF Holders
    <3>2. Cardinality(Holders(state', x)) # Cardinality(Holders(state, x))
      BY <1>7, <3>1, FiniteHolders, FS_Subset
    <3>3. spent'[x] = spent[x] + 1
      BY <1>4, <1>5, <2>3
    <3> QED BY <1>4, <2>1, <2>2, <3>2, <3>3
  <2>4. CASE ~(Gated(b) /\ x = source)
    <3>1. spent'[x] = spent[x]
      BY <1>4, <1>5, <2>4
    <3> QED BY <1>4, <2>1, <2>2, <3>1
  <2> QED BY <2>3, <2>4
<1> QED BY <1>3, <1>9 DEF SpentInv, Holders

LEMMA VoteGrants ==
    ASSUME IsFiniteSet(Envs), TypeInv, AloneInv, SpentInv, NEW p \in Updaters, WriteVote(p)
    PROVE  SpentInv'
<1> DEFINE e == vote[p].env
           b == vote[p].bundle
           a == vote[p].approver
           pending == state.envs[e].pending \cup {[bundle |-> b, approver |-> a]}
<1>1. e \in Envs /\ b \in Names /\ a \in Approvers /\ state \in State
  BY DEF TypeInv, TypeOK, LocalsOK, Vote, WriteVote
<1>2. /\ state' = copy[p] /\ copy[p] = Voted(state, e, b, a)
      /\ vote[p].status = StatusOf(copy[p], b, e) /\ spent' = spent
  BY DEF WriteVote, AloneInv
<1>3. granted' = IF StatusOf(state', b, e) = "approved" THEN [granted EXCEPT ![b] = @ + 1] ELSE granted
  BY <1>2 DEF WriteVote
<1>4. spent \in [Names -> Nat] /\ granted \in [Names -> Nat]
  BY DEF TypeInv, TypeOK
<1>5. pending = state.envs[e].pending \cup {[bundle |-> b, approver |-> a]}
  OBVIOUS
<1> HIDE DEF e, b, a, pending
<1>6. /\ \A f \in Envs \ {e} : state'.envs[f] = state.envs[f]
      /\ \/ /\ state'.envs[e].approved = b
            /\ state'.envs[e].pending = {x \in pending : x.bundle # b}
         \/ state'.envs[e].approved = state.envs[e].approved
  BY <1>1, <1>2, <1>5, VotedCases
<1>7. ASSUME NEW x \in Names
      PROVE  spent'[x] + Cardinality(Holders(state', x)) <= granted'[x]
  <2>1. spent[x] + Cardinality(Holders(state, x)) <= granted[x]
    BY DEF SpentInv
  <2>2. Cardinality(Holders(state', x)) \in Nat /\ Cardinality(Holders(state, x)) \in Nat
    BY FiniteHolders
  <2>3. granted'[x] >= granted[x] /\ granted'[x] \in Nat
    BY <1>3, <1>4
  <2>4. CASE Holders(state', x) \subseteq Holders(state, x)
    <3>1. Cardinality(Holders(state', x)) <= Cardinality(Holders(state, x))
      BY <2>4, FewerHolders
    <3> QED BY <1>2, <1>4, <2>1, <2>2, <2>3, <3>1
  <2>5. CASE ~(Holders(state', x) \subseteq Holders(state, x))
    <3>1. x = b /\ state'.envs[e].approved = b /\ state'.envs[e].pending = {y \in pending : y.bundle # b}
      BY <1>1, <1>6, <2>5 DEF Holders
    <3>2. StatusOf(state', b, e) = "approved"
      BY <3>1 DEF StatusOf
    <3>3. granted'[x] = granted[x] + 1
      BY <1>3, <1>4, <3>1, <3>2
    <3>4. Holders(state', x) \subseteq Holders(state, x) \cup {e}
      BY <1>6 DEF Holders
    <3>5. Cardinality(Holders(state', x)) <= Cardinality(Holders(state, x)) + 1
      <4>1. IsFiniteSet(Holders(state, x) \cup {e})
            /\ Cardinality(Holders(state, x) \cup {e}) <= Cardinality(Holders(state, x)) + 1
            /\ Cardinality(Holders(state, x) \cup {e}) \in Nat
        <5> DEFINE H == Holders(state, x)
        <5>1. IsFiniteSet(H) /\ Cardinality(H) \in Nat
          BY FiniteHolders
        <5> HIDE DEF H
        <5>2. /\ IsFiniteSet(H \cup {e})
              /\ Cardinality(H \cup {e}) = IF e \in H THEN Cardinality(H) ELSE Cardinality(H) + 1
          BY <5>1, FS_AddElement
        <5>3. Cardinality(H \cup {e}) <= Cardinality(H) + 1 /\ Cardinality(H \cup {e}) \in Nat
          BY <5>1, <5>2
        <5> QED BY <5>2, <5>3 DEF H
      <4>2. Cardinality(Holders(state', x)) <= Cardinality(Holders(state, x) \cup {e})
        BY <3>4, <4>1, FS_Subset
      <4> QED BY <2>2, <4>1, <4>2
    <3> QED BY <1>2, <1>4, <2>1, <2>2, <3>3, <3>5
  <2> QED BY <2>4, <2>5
<1> QED BY <1>7 DEF SpentInv, Holders

LEMMA SpentStep ==
    ASSUME IsFiniteSet(Envs), TypeInv, AloneInv, SpentInv, [Next]_vars
    PROVE  SpentInv'
<1>1. ASSUME state' = state, granted' = granted, spent' = spent
      PROVE  SpentInv'
  BY <1>1 DEF SpentInv, Holders
<1>2. ASSUME NEW p \in Updaters, Work(p), ~Store(p), ~WriteVote(p)
      PROVE  state' = state /\ granted' = granted /\ spent' = spent
  BY <1>2 DEF Work, Apply, InstallPart, Reload, ReloadRaises, Approve, AuditRefuses,
              ReadLastHash, AppendRecord, disk, history
<1>3. ASSUME NEW p \in Updaters, Start(p) \/ Crash(p) \/ CrashInWrite(p)
      PROVE  state' = state /\ granted' = granted /\ spent' = spent
  BY <1>3 DEF Start, Crash, CrashInWrite, Dies, disk, history
<1>4. CASE UNCHANGED vars
  BY <1>1, <1>4 DEF vars, disk, history
<1> QED BY <1>1, <1>2, <1>3, <1>4, StoreSpends, VoteGrants DEF Next

LEMMA SpentInit ==
    ASSUME IsFiniteSet(Envs), Init
    PROVE  SpentInv
<1>1. \A b \in Names : Holders(state, b) = {}
  BY BundleAssumption DEF Init, Holders, EmptyState
<1>2. \A b \in Names : Cardinality(Holders(state, b)) = 0
  BY <1>1, FS_EmptySet
<1> QED BY <1>2 DEF Init, SpentInv

\* With one process at a time and finitely many environments, wherever it dies: no
\* canary's approval carries more global rollouts than times it was reached.
THEOREM ApprovalsAreSpentOnce ==
    ASSUME Alone, IsFiniteSet(Envs)
    PROVE  Spec => []ApprovalSpentOnce
<1>1. TypeInv /\ AloneInv /\ SpentInv /\ [Next]_vars => SpentInv'
  BY SpentStep
<1>2. TypeInv /\ SpentInv => ApprovalSpentOnce
  <2>1. ASSUME TypeInv, SpentInv, NEW b \in Names
        PROVE  spent[b] <= granted[b]
    <3>1. spent[b] \in Nat /\ granted[b] \in Nat
      BY <2>1 DEF TypeInv, TypeOK
    <3>2. Cardinality(Holders(state, b)) \in Nat
      BY FiniteHolders
    <3>3. spent[b] + Cardinality(Holders(state, b)) <= granted[b]
      BY <2>1 DEF SpentInv
    <3> QED BY <3>1, <3>2, <3>3
  <2> QED BY <2>1 DEF ApprovalSpentOnce
<1>3. Init => SpentInv
  BY SpentInit
<1> QED BY <1>1, <1>2, <1>3, AloneHolds, TypesHold, PTL DEF Spec

=============================================================================
