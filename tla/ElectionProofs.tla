---------------------------- MODULE ElectionProofs ----------------------------
(***************************************************************************)
(* Proofs about Election for every set of candidates and API goroutines,   *)
(* every ttl, heartbeat interval and lag.                                  *)
(***************************************************************************)
EXTENDS Election, TLAPS

-----------------------------------------------------------------------------
(* The inductive invariant *)

\* The locals a goroutine uses next are set, and the heartbeat's time is past.
LocalInv ==
  /\ \A p \in Callers :
       /\ calls[p].pc \in {"create", "install", "revoke"} => calls[p].name \in Names
       /\ calls[p].pc = "revoke" => calls[p].lease \in Names
  /\ loop.pc = "renew" => loop.lease \in Names
  /\ loop.pc \in {"renew", "stamp"} => loop.at <= now

BaseInv == TypeOK /\ LocalInv

\* As long as calls do not overlap there is at most one, nobody leads while it
\* runs, and only a leader has a lease recorded.
SerialInv ==
  ~overlapped =>
    /\ \A p \in Callers, q \in Callers :
         calls[p].pc # "idle" /\ calls[q].pc # "idle" => p = q
    /\ role # "Leader" => leaderLease = NoName
    /\ \A p \in Callers : calls[p].pc # "idle" => role # "Leader"

\* As long as Handoffs name new terms no elected term is ahead of the current
\* one, and a call that is about to install a leader does so in a new term.
TermInv ==
  ~lowered =>
    /\ \A t \in elected : t <= term
    /\ ~overlapped =>
         \A p \in Callers :
           calls[p].pc \in {"create", "install", "revoke"} => term \notin elected

\* A check no Install has overtaken concerns the lease recorded now: that
\* lease is overdue or gone, unless a call has created it again.
StaleInv ==
  loop.fresh =>
    /\ loop.pc = "renew" => leaderLease \in {loop.lease, NoName}
    /\ loop.pc = "stepDown" /\ leaderLease # NoName /\ leases!Registered(leaderLease)
         => \/ TimedOut
            \/ \E p \in Callers : calls[p].pc = "install" /\ calls[p].name = leaderLease

-----------------------------------------------------------------------------
(* What the lease manager does to the table *)

TableType == table \in [Names -> 0..(MaxClock + TTL)]

LEMMA RevokeEffect ==
  ASSUME TypeOK, NEW n \in Names, leases!Revoke(n)
  PROVE  /\ now' = now
         /\ TableType'
         /\ table'[n] = 0
         /\ \A m \in Names : m # n => table'[m] = table[m]
BY ElectionAssumption DEF TypeOK, TableType, leases!Revoke

LEMMA ExpireEffect ==
  ASSUME TypeOK, NEW n \in Names, NEW at, leases!Expire({n}, at)
  PROVE  /\ now' = now
         /\ TableType'
         /\ table'[n] = 0
         /\ \A m \in Names : m # n => table'[m] = table[m]
BY ElectionAssumption DEF TypeOK, TableType, leases!Expire

LEMMA CreateEffect ==
  ASSUME TypeOK, NEW n \in Names, leases!Create(n)
  PROVE  /\ now' = now
         /\ TableType'
         /\ table'[n] = now + TTL
         /\ \A m \in Names : m # n => table'[m] = table[m]
BY ElectionAssumption DEF TypeOK, TableType, leases!Create

LEMMA RenewEffect ==
  ASSUME TypeOK, NEW n \in Names, NEW at \in 0..now, leases!Renew(n, at)
  PROVE  /\ now' = now
         /\ TableType'
         /\ table[n] > at
         /\ table'[n] = at + TTL
         /\ \A m \in Names : m # n => table'[m] = table[m]
BY ElectionAssumption DEF TypeOK, TableType, leases!Renew

LEMMA RevokeOrFailEffect ==
  ASSUME TypeOK, NEW n \in Names \cup {NoName}, RevokeOrFail(n)
  PROVE  /\ now' = now
         /\ TableType'
         /\ n # NoName => ~(table'[n] > 0)
         /\ \A m \in Names : m # n => table'[m] = table[m]
<1>1. CASE n # NoName /\ leases!Registered(n)
  BY <1>1, RevokeEffect DEF RevokeOrFail
<1>2. CASE ~(n # NoName /\ leases!Registered(n))
  BY <1>2 DEF RevokeOrFail, LeaseVars, TypeOK, TableType, leases!Registered
<1> QED
  BY <1>1, <1>2

\* Elsewhere the clock advances, or one lease ends or is renewed.
LEMMA ElsewhereEffect ==
  ASSUME TypeOK, Elsewhere
  PROVE  /\ now' \in 0..MaxClock
         /\ now <= now'
         /\ TableType'
         /\ \A m \in Names : table'[m] > 0 => table[m] > 0
         /\ UNCHANGED <<node, calls, loop, history>>
<1>1. CASE leases!Tick
  BY <1>1, ElectionAssumption DEF Elsewhere, leases!Tick, TypeOK, TableType
<1>2. CASE \E n \in Names : leases!Revoke(n)
  <2>1. PICK n \in Names : leases!Revoke(n)
    BY <1>2
  <2>2. now' = now /\ TableType' /\ table'[n] = 0 /\ \A m \in Names : m # n => table'[m] = table[m]
    BY <2>1, RevokeEffect
  <2> QED
    BY <2>2 DEF Elsewhere, TypeOK
<1>3. CASE \E n \in Names, at \in leases!Times : leases!Renew(n, at)
  <2>1. PICK n \in Names, at \in leases!Times : leases!Renew(n, at)
    BY <1>3
  <2>2. at \in 0..now /\ table[n] \in Nat
    BY DEF leases!Times, TypeOK
  <2>3. /\ now' = now
        /\ TableType'
        /\ table[n] > at
        /\ \A m \in Names : m # n => table'[m] = table[m]
    BY <2>1, <2>2, RenewEffect
  <2> QED
    BY <2>2, <2>3 DEF Elsewhere, TypeOK
<1>4. CASE \E n \in Names, at \in leases!Times : leases!Expire({n}, at)
  <2>1. PICK n \in Names, at \in leases!Times : leases!Expire({n}, at)
    BY <1>4
  <2>2. /\ now' = now
        /\ TableType'
        /\ table'[n] = 0
        /\ \A m \in Names : m # n => table'[m] = table[m]
    BY <2>1, ExpireEffect
  <2> QED
    BY <2>2 DEF Elsewhere, TypeOK
<1> QED
  BY <1>1, <1>2, <1>3, <1>4 DEF Elsewhere, ClientStep

-----------------------------------------------------------------------------
(* Types *)

LEMMA BaseInit == Init => BaseInv
<1> SUFFICES ASSUME Init PROVE BaseInv
  OBVIOUS
<1>1. Idle \in Call /\ Idle.pc = "idle" /\ LoopIdle \in Loop /\ LoopIdle.pc = "idle"
  BY ElectionAssumption DEF Call, Loop, Idle, LoopIdle
<1>2. TypeOK
  <2>1. now = 0 /\ 0 \in 0..MaxClock /\ 0 \in 0..(MaxClock + TTL)
    BY ElectionAssumption DEF Init, leases!Init
  <2>2. table \in [Names -> 0..(MaxClock + TTL)]
    BY <2>1 DEF Init, leases!Init
  <2>3. overlapped \in BOOLEAN /\ lowered \in BOOLEAN /\ aborted \in BOOLEAN
    BY DEF Init
  <2>4. calls \in [Callers -> Call] /\ loop \in Loop
    BY <1>1 DEF Init
  <2> QED
    BY <2>1, <2>2, <2>3, <2>4, ElectionAssumption DEF Init, TypeOK, Roles
<1>3. LocalInv
  BY <1>1 DEF Init, LocalInv
<1> QED
  BY <1>2, <1>3 DEF BaseInv

\* Goroutine p enters its call, and the others stay where they are.
LEMMA EnterEffect ==
  ASSUME TypeOK, NEW p \in Callers, NEW c \in Call, Enter(p, c)
  PROVE  /\ calls' \in [Callers -> Call]
         /\ calls[p].pc = "idle"
         /\ calls'[p] = c
         /\ \A q \in Callers : q # p => calls'[q] = calls[q]
         /\ entered' \in 0..MaxCalls
         /\ overlapped' \in BOOLEAN
         /\ aborted' = FALSE
         /\ ~overlapped' => ~overlapped /\ \A q \in Callers : calls[q].pc = "idle"
<1>1. entered' \in 0..MaxCalls
  BY ElectionAssumption DEF TypeOK, Enter
<1>2. overlapped' \in BOOLEAN
  BY DEF TypeOK, Enter
<1> QED
  BY <1>1, <1>2 DEF TypeOK, Enter

LEMMA CampaignBase ==
  ASSUME BaseInv, NEW p \in Callers, Campaign(p)
  PROVE  BaseInv'
<1> DEFINE c == [pc |-> "create", lease |-> NoName, name |-> Self]
<1>1. c \in Call
  BY ElectionAssumption DEF Call
<1>2. Enter(p, c)
  BY DEF Campaign
<1>3. /\ calls' \in [Callers -> Call]
      /\ calls'[p] = c
      /\ \A q \in Callers : q # p => calls'[q] = calls[q]
      /\ entered' \in 0..MaxCalls
      /\ overlapped' \in BOOLEAN
      /\ aborted' = FALSE
  BY <1>1, <1>2, EnterEffect DEF BaseInv
<1>4. TypeOK'
  <2>1. role' \in Roles /\ role' # "Leader" /\ term' \in 0..MaxTerm
    BY ElectionAssumption DEF Campaign, Transition, Roles, BaseInv, TypeOK
  <2> QED
    BY <1>3, <2>1 DEF BaseInv, TypeOK, Campaign, LeaseVars
<1>5. LocalInv'
  BY <1>3, ElectionAssumption DEF BaseInv, LocalInv, Campaign, LeaseVars
<1> QED
  BY <1>4, <1>5 DEF BaseInv

LEMMA HandoffBase ==
  ASSUME BaseInv, NEW p \in Callers, NEW t \in 1..MaxTerm, NEW n \in Names, Handoff(p, t, n)
  PROVE  BaseInv'
<1> DEFINE c == [pc |-> IF leaderLease = NoName THEN "create" ELSE "revoke",
                 lease |-> leaderLease, name |-> n]
<1>1. c \in Call /\ (c.pc = "revoke" => c.lease \in Names) /\ c.name \in Names
  BY DEF Call, BaseInv, TypeOK
<1>2. Enter(p, c)
  BY DEF Handoff
<1> HIDE DEF c
<1>3. /\ calls' \in [Callers -> Call]
      /\ calls'[p] = c
      /\ \A q \in Callers : q # p => calls'[q] = calls[q]
      /\ entered' \in 0..MaxCalls
      /\ overlapped' \in BOOLEAN
      /\ aborted' = FALSE
  BY <1>1, <1>2, EnterEffect DEF BaseInv
<1>4. TypeOK'
  <2>1. lowered' \in BOOLEAN
    BY DEF Handoff
  <2> QED
    <3>1. /\ term' \in 0..MaxTerm
          /\ role' = "Candidate" /\ leaderName' = NoName /\ leaderLease' = NoName
          /\ UNCHANGED <<lastHeartbeat, elected, now, table, loop>>
      BY ElectionAssumption DEF Handoff, LeaseVars
    <3> QED
      BY <1>3, <2>1, <3>1 DEF BaseInv, TypeOK, Roles
<1>5. LocalInv'
  BY <1>1, <1>3 DEF BaseInv, LocalInv, Handoff, LeaseVars
<1> QED
  BY <1>4, <1>5 DEF BaseInv

LEMMA ResignBase ==
  ASSUME BaseInv, NEW p \in Callers, Resign(p)
  PROVE  BaseInv'
<1> DEFINE c == [pc |-> "resign", lease |-> leaderLease, name |-> NoName]
<1>1. c \in Call /\ c.pc = "resign"
  BY DEF Call, BaseInv, TypeOK
<1>2. Enter(p, c)
  BY DEF Resign
<1> HIDE DEF c
<1>3. /\ calls' \in [Callers -> Call]
      /\ calls'[p] = c
      /\ \A q \in Callers : q # p => calls'[q] = calls[q]
      /\ entered' \in 0..MaxCalls
      /\ overlapped' \in BOOLEAN
      /\ aborted' = FALSE
  BY <1>1, <1>2, EnterEffect DEF BaseInv
<1>4. TypeOK'
  BY <1>3, ElectionAssumption DEF BaseInv, TypeOK, Resign, Roles, LeaseVars
<1>5. LocalInv'
  BY <1>1, <1>3 DEF BaseInv, LocalInv, Resign, LeaseVars
<1> QED
  BY <1>4, <1>5 DEF BaseInv

LEMMA CallStepBase ==
  ASSUME BaseInv, NEW p \in Callers, CallStep(p)
  PROVE  BaseInv'
<1>0. calls[p] \in Call /\ calls \in [Callers -> Call]
  BY DEF BaseInv, TypeOK
<1>i. Idle \in Call /\ Idle.pc = "idle"
  BY DEF Idle, Call
<1>1. CASE Create(p)
  <2>1. CASE leases!Create(calls[p].name) /\ calls' = [calls EXCEPT ![p].pc = "install"]
    <3>1. calls[p].name \in Names
      BY <1>1 DEF Create, BaseInv, LocalInv
    <3> QED
      BY <1>0, <1>1, <2>1, <3>1, CreateEffect
      DEF Create, BaseInv, TypeOK, TableType, LocalInv, Call, node, history
  <2>2. CASE /\ calls' = [calls EXCEPT ![p].pc = "lost", ![p].name = NoName]
             /\ UNCHANGED LeaseVars
    BY <1>0, <1>1, <2>2 DEF Create, BaseInv, TypeOK, LocalInv, Call, node, history, LeaseVars
  <2> QED
    BY <1>1, <2>1, <2>2 DEF Create
<1>2. CASE Lost(p)
  BY <1>0, <1>i, <1>2 DEF Lost, Return, BaseInv, TypeOK, LocalInv, Roles, history, LeaseVars
<1>3. CASE Install(p)
  <2>1. calls[p].name \in Names
    BY <1>3 DEF Install, BaseInv, LocalInv
  <2>2. loop' \in Loop /\ loop'.pc = loop.pc /\ loop'.lease = loop.lease /\ loop'.at = loop.at
    <3> DEFINE b == loop.pc \in {"idle", "beat"}
    <3>1. loop' = [loop EXCEPT !.fresh = b] /\ b \in BOOLEAN
      BY <1>3 DEF Install
    <3> HIDE DEF b
    <3> QED
      BY <3>1 DEF BaseInv, TypeOK, Loop
  <2> QED
    BY <1>0, <1>i, <1>3, <2>1, <2>2, ElectionAssumption
    DEF Install, Return, BaseInv, TypeOK, LocalInv, Roles, LeaseVars
<1>4. CASE HandoffRevoke(p)
  <2>1. calls[p].lease \in Names
    BY <1>4 DEF HandoffRevoke, BaseInv, LocalInv
  <2> QED
    BY <1>0, <1>4, <2>1, RevokeEffect
    DEF HandoffRevoke, BaseInv, TypeOK, TableType, LocalInv, Call, node, history
<1>5. CASE HandoffAbort(p)
  BY <1>0, <1>i, <1>5 DEF HandoffAbort, Return, BaseInv, TypeOK, LocalInv, node, LeaseVars
<1>6. CASE ResignRevoke(p)
  <2>1. calls[p].lease \in Names \cup {NoName}
    BY <1>0 DEF Call
  <2> QED
    BY <1>0, <1>6, <2>1, RevokeOrFailEffect
    DEF ResignRevoke, BaseInv, TypeOK, TableType, LocalInv, Call, node, history
<1>7. CASE Follow(p)
  BY <1>0, <1>i, <1>7
  DEF Follow, Return, Transition, BaseInv, TypeOK, LocalInv, Roles, history, LeaseVars
<1> QED
  BY <1>1, <1>2, <1>3, <1>4, <1>5, <1>6, <1>7 DEF CallStep

LEMMA LoopStepBase ==
  ASSUME BaseInv, LoopStep
  PROVE  BaseInv'
<1>0. loop \in Loop /\ LoopIdle \in Loop /\ LoopIdle.pc = "idle"
  BY ElectionAssumption DEF BaseInv, TypeOK, Loop, LoopIdle
<1>1. CASE CheckTimeout
  BY <1>0, <1>1 DEF CheckTimeout, BaseInv, TypeOK, LocalInv, Loop, node, history, LeaseVars
<1>2. CASE Heartbeat
  <2>1. CASE role = "Leader"
    BY <1>0, <1>2, <2>1
    DEF Heartbeat, BaseInv, TypeOK, LocalInv, Loop, node, history, LeaseVars
  <2>2. CASE role # "Leader"
    BY <1>0, <1>2, <2>2
    DEF Heartbeat, BaseInv, TypeOK, LocalInv, node, history, LeaseVars
  <2> QED
    BY <2>1, <2>2
<1>3. CASE RenewFailed
  <2>1. loop.lease \in Names
    BY <1>3 DEF RenewFailed, BaseInv, LocalInv
  <2>2. now' = now /\ TableType'
    BY <1>3, <2>1, ExpireEffect DEF RenewFailed, LeaseVars, BaseInv, TypeOK, TableType
  <2> QED
    <3>1. loop' \in Loop /\ loop'.pc = "stepDown"
      <4>1. loop' = [loop EXCEPT !.pc = "stepDown", !.lease = NoName, !.at = 0]
        BY <1>3 DEF RenewFailed
      <4>2. 0 \in 0..MaxClock
        BY ElectionAssumption
      <4> QED
        BY <1>0, <4>1, <4>2 DEF Loop
    <3> QED
      BY <1>3, <2>2, <3>1 DEF RenewFailed, BaseInv, TypeOK, TableType, LocalInv, node, history
<1>4. CASE RenewOk
  <2>1. loop.lease \in Names /\ loop.at \in 0..now
    BY <1>0, <1>4 DEF RenewOk, BaseInv, LocalInv, Loop, TypeOK
  <2>2. now' = now /\ TableType'
    BY <1>4, <2>1, RenewEffect DEF RenewOk, BaseInv
  <2> QED
    BY <1>0, <1>4, <2>1, <2>2
    DEF RenewOk, BaseInv, TypeOK, TableType, LocalInv, Loop, node, history
<1>5. CASE Stamp
  <2>1. loop.at \in 0..now
    BY <1>0, <1>5 DEF Stamp, BaseInv, LocalInv, Loop, TypeOK
  <2> QED
    BY <1>0, <1>5, <2>1 DEF Stamp, BaseInv, TypeOK, LocalInv, history, LeaseVars
<1>6. CASE StepDown
  BY <1>0, <1>6 DEF StepDown, BaseInv, TypeOK, LocalInv, Loop, Roles, history, LeaseVars
<1>7. CASE StepDownRevoke
  <2>1. loop.lease \in Names \cup {NoName}
    BY <1>0 DEF Loop
  <2> QED
    BY <1>0, <1>7, <2>1, RevokeOrFailEffect
    DEF StepDownRevoke, BaseInv, TypeOK, TableType, LocalInv, node, history
<1> QED
  BY <1>1, <1>2, <1>3, <1>4, <1>5, <1>6, <1>7 DEF LoopStep

LEMMA BaseStep == BaseInv /\ [Next]_vars => BaseInv'
<1> SUFFICES ASSUME BaseInv, [Next]_vars PROVE BaseInv'
  OBVIOUS
<1>1. CASE UNCHANGED vars
  BY <1>1 DEF vars, node, history, BaseInv, TypeOK, LocalInv
<1>2. CASE Elsewhere
  <2>1. TypeOK'
    <3>1. /\ now' \in 0..MaxClock
          /\ lastHeartbeat' \in 0..now'
          /\ TableType'
          /\ UNCHANGED <<node, calls, loop, history>>
      BY <1>2, ElsewhereEffect DEF BaseInv, TypeOK, node
    <3> QED
      BY <3>1 DEF BaseInv, TypeOK, TableType, node, history
  <2>2. loop \in Loop /\ now \in Nat /\ now' \in Nat
    BY <1>2, ElsewhereEffect DEF BaseInv, TypeOK
  <2>3. LocalInv'
    BY <1>2, <2>2, ElsewhereEffect DEF BaseInv, LocalInv, Loop
  <2> QED
    BY <2>1, <2>3 DEF BaseInv
<1>3. CASE \E p \in Callers : Campaign(p) \/ Resign(p) \/ CallStep(p)
  BY <1>3, CampaignBase, ResignBase, CallStepBase
<1>4. CASE \E p \in Callers, t \in 1..MaxTerm, n \in Names : Handoff(p, t, n)
  BY <1>4, HandoffBase
<1>5. CASE LoopStep
  BY <1>5, LoopStepBase
<1> QED
  BY <1>1, <1>2, <1>3, <1>4, <1>5 DEF Next

LEMMA BaseInvariant == Spec => []BaseInv
BY BaseInit, BaseStep, PTL DEF Spec

\* Every variable has its type; the leader's name and its lease are set and
\* cleared together and a leader always has both, however the regions of
\* Campaign, Handoff, Resign and the heartbeat interleave
\* (election.go:57-101, term.go:8-36, heartbeat.go:11-78).
THEOREM TypeCorrect == Spec => []TypeOK
<1>1. BaseInv => TypeOK
  BY DEF BaseInv
<1> QED
  BY <1>1, BaseInvariant, PTL

-----------------------------------------------------------------------------
(* Candidates *)

\* A region moves one goroutine on; the others stay where they are.
LEMMA OthersStay ==
  ASSUME BaseInv, NEW p \in Callers, CallStep(p)
  PROVE  /\ \A q \in Callers : q # p => calls'[q] = calls[q]
         /\ calls[p].pc # "idle"
         /\ Create(p) => calls'[p].pc \in {"install", "lost"}
         /\ HandoffRevoke(p) => calls'[p].pc = "create" /\ calls'[p].name = calls[p].name
         /\ ResignRevoke(p) => calls'[p].pc = "follow"
         /\ Lost(p) \/ Install(p) \/ HandoffAbort(p) \/ Follow(p) => calls'[p].pc = "idle"
<1>1. calls \in [Callers -> Call] /\ Idle.pc = "idle"
  BY DEF BaseInv, TypeOK, Idle
<1> QED
  BY <1>1 DEF CallStep, Create, Lost, Install, HandoffRevoke, HandoffAbort, ResignRevoke,
              Follow, Return, Call

\* The calls as the first region of an operation leaves them.
LEMMA EntryEffect ==
  ASSUME BaseInv, NEW p \in Callers,
         \/ Campaign(p)
         \/ Resign(p)
         \/ \E t \in 1..MaxTerm, n \in Names : Handoff(p, t, n)
  PROVE  /\ calls[p].pc = "idle"
         /\ \A q \in Callers : q # p => calls'[q] = calls[q]
         /\ calls'[p].pc \in {"create", "revoke", "resign"}
         /\ calls'[p].pc = "resign" => Resign(p)
         /\ ~overlapped' => ~overlapped /\ \A q \in Callers : calls[q].pc = "idle"
         /\ leaderLease' # leaderLease => leaderLease' = NoName
         /\ leaderLease' # leaderLease => /\ calls'[p].pc \in {"revoke", "resign"}
                                          /\ calls'[p].lease = leaderLease
         /\ UNCHANGED <<now, table, loop, lastHeartbeat, elected>>
<1>1. calls \in [Callers -> Call]
  BY DEF BaseInv, TypeOK
<1>2. CASE Campaign(p)
  BY <1>1, <1>2 DEF Campaign, Enter, LeaseVars
<1>3. CASE Resign(p)
  BY <1>1, <1>3 DEF Resign, Enter, LeaseVars
<1>4. CASE \E t \in 1..MaxTerm, n \in Names : Handoff(p, t, n)
  <2>1. PICK t \in 1..MaxTerm, n \in Names : Handoff(p, t, n)
    BY <1>4
  <2> DEFINE c == [pc |-> IF leaderLease = NoName THEN "create" ELSE "revoke",
                   lease |-> leaderLease, name |-> n]
  <2>2. Enter(p, c) /\ leaderLease' = NoName
    BY <2>1 DEF Handoff
  <2>3. c \in Call
    BY DEF BaseInv, TypeOK, Call
  <2>4. /\ c.pc \in {"create", "revoke"}
        /\ c.lease = leaderLease
        /\ leaderLease # NoName => c.pc = "revoke"
    OBVIOUS
  <2> HIDE DEF c
  <2> QED
    BY <2>1, <2>2, <2>3, <2>4, EnterEffect DEF Handoff, LeaseVars, BaseInv
<1> QED
  BY <1>2, <1>3, <1>4

LEMMA CandidateStep ==
  BaseInv /\ CandidateIsTransient /\ [Next]_vars => CandidateIsTransient'
<1> SUFFICES ASSUME BaseInv, CandidateIsTransient, [Next]_vars
             PROVE  CandidateIsTransient'
  OBVIOUS
<1> DEFINE busy == {"create", "install", "lost", "revoke"}
<1>1. CASE UNCHANGED <<calls, aborted>> /\ (role' = "Candidate" => role = "Candidate")
  BY <1>1 DEF CandidateIsTransient
<1>2. ASSUME NEW p \in Callers, Campaign(p) \/ Resign(p) PROVE CandidateIsTransient'
  BY <1>2, EntryEffect DEF Resign, CandidateIsTransient
<1>3. ASSUME NEW p \in Callers, NEW t \in 1..MaxTerm, NEW n \in Names, Handoff(p, t, n)
      PROVE  CandidateIsTransient'
  BY <1>3, EntryEffect DEF Handoff, Resign, CandidateIsTransient
<1>4. ASSUME NEW p \in Callers, CallStep(p) PROVE CandidateIsTransient'
  <2>1. CASE Lost(p) \/ Install(p)
    BY <2>1 DEF Lost, Install, CandidateIsTransient
  <2>2. CASE Follow(p)
    BY <2>2 DEF Follow, Transition, CandidateIsTransient
  <2>3. CASE HandoffAbort(p)
    BY <2>3 DEF HandoffAbort, CandidateIsTransient
  <2>4. CASE Create(p) \/ HandoffRevoke(p)
    <3>1. calls'[p].pc \in busy
      BY <1>4, <2>4, OthersStay
    <3> QED
      BY <3>1 DEF CandidateIsTransient
  <2>5. CASE ResignRevoke(p)
    <3>1. \A q \in Callers : calls[q].pc \in busy => calls'[q].pc \in busy
      BY <1>4, <2>5, OthersStay DEF ResignRevoke
    <3>2. role' = role /\ aborted' = aborted
      BY <2>5 DEF ResignRevoke, node, history
    <3> QED
      BY <3>1, <3>2 DEF CandidateIsTransient
  <2> QED
    BY <1>4, <2>1, <2>2, <2>3, <2>4, <2>5 DEF CallStep
<1>5. CASE LoopStep
  BY <1>1, <1>5 DEF LoopStep, CheckTimeout, Heartbeat, RenewFailed, RenewOk, Stamp, StepDown,
                    StepDownRevoke, node, history
<1>6. CASE Elsewhere \/ UNCHANGED vars
  BY <1>1, <1>6 DEF Elsewhere, vars, node, history
<1> QED
  BY <1>2, <1>3, <1>4, <1>5, <1>6 DEF Next

\* The role is Candidate only while a call is between its first and its last
\* region, or after a Handoff that could not revoke the old lease, with any
\* number of overlapping calls and whatever the heartbeat does
\* (election.go:67-86, term.go:12-35).
THEOREM CandidateCorrect == Spec => []CandidateIsTransient
<1>1. Init => CandidateIsTransient
  BY DEF Init, CandidateIsTransient
<1> QED
  BY <1>1, CandidateStep, BaseInvariant, PTL DEF Spec

-----------------------------------------------------------------------------
(* Leases and terms without overlapping calls *)

LEMMA SerialStep == BaseInv /\ SerialInv /\ [Next]_vars => SerialInv'
<1> SUFFICES ASSUME BaseInv, SerialInv, [Next]_vars PROVE SerialInv'
  OBVIOUS
<1>1. ASSUME NEW p \in Callers,
             \/ Campaign(p)
             \/ Resign(p)
             \/ \E t \in 1..MaxTerm, n \in Names : Handoff(p, t, n)
      PROVE  SerialInv'
  <2>1. role' # "Leader" /\ (~overlapped' => leaderLease' = NoName)
    <3>1. CASE Campaign(p)
      BY <1>1, <3>1, EntryEffect DEF Campaign, Transition, SerialInv
    <3>2. CASE Resign(p) \/ \E t \in 1..MaxTerm, n \in Names : Handoff(p, t, n)
      BY <3>2 DEF Resign, Handoff
    <3> QED
      BY <1>1, <3>1, <3>2
  <2> QED
    BY <1>1, <2>1, EntryEffect DEF SerialInv
<1>2. ASSUME NEW p \in Callers, CallStep(p) PROVE SerialInv'
  <2> SUFFICES ASSUME ~overlapped' PROVE SerialInv'
    BY DEF SerialInv
  <2>0. ~overlapped
    BY <1>2 DEF CallStep, Create, Lost, Install, HandoffRevoke, HandoffAbort, ResignRevoke,
                Follow, history
  <2>1. \A q \in Callers : q # p => calls'[q].pc = "idle" /\ calls[q].pc = "idle"
    BY <1>2, <2>0, OthersStay DEF SerialInv
  <2>2. role # "Leader" /\ leaderLease = NoName
    BY <1>2, <2>0, OthersStay DEF SerialInv
  <2>3. CASE Install(p)
    BY <1>2, <2>1, <2>3, OthersStay DEF Install, SerialInv
  <2>4. CASE ~Install(p)
    <3>1. role' # "Leader" /\ leaderLease' = NoName
      BY <1>2, <2>2, <2>4 DEF CallStep, Create, Lost, HandoffRevoke, HandoffAbort,
                              ResignRevoke, Follow, Transition, node
    <3> QED
      BY <2>1, <3>1 DEF SerialInv
  <2> QED
    BY <2>3, <2>4
<1>3. CASE LoopStep
  <2>1. CASE StepDown
    BY <2>1 DEF StepDown, SerialInv, history
  <2>2. CASE ~StepDown
    BY <1>3, <2>2 DEF LoopStep, CheckTimeout, Heartbeat, RenewFailed, RenewOk, Stamp,
                      StepDownRevoke, SerialInv, node, history
  <2> QED
    BY <2>1, <2>2
<1>4. CASE Elsewhere \/ UNCHANGED vars
  BY <1>4 DEF Elsewhere, vars, node, history, SerialInv
<1> QED
  BY <1>1, <1>2, <1>3, <1>4 DEF Next

LEMMA SerialInvariant == Spec => []SerialInv
<1>1. Init => SerialInv
  BY DEF Init, Idle, SerialInv
<1> QED
  BY <1>1, SerialStep, BaseInvariant, PTL DEF Spec

\* What one region does to the leadership leases: a lease that is registered
\* afterwards was so before, or was just created and is in hand.
LEMMA OwnedStep ==
  BaseInv /\ SerialInv /\ LeaseOwned /\ [Next]_vars => LeaseOwned'
<1> SUFFICES ASSUME BaseInv, SerialInv, LeaseOwned, [Next]_vars,
                    ~overlapped', NEW n \in Names, leases!Registered(n)'
             PROVE  n = leaderLease' \/ InHand(n)'
  BY DEF LeaseOwned
<1>r. table'[n] > 0
  BY DEF leases!Registered
<1>h. ASSUME leases!Registered(n), ~overlapped PROVE n = leaderLease \/ InHand(n)
  BY <1>h DEF LeaseOwned
<1>n. n # NoName
  BY ElectionAssumption
<1>1. ASSUME NEW p \in Callers,
             \/ Campaign(p)
             \/ Resign(p)
             \/ \E t \in 1..MaxTerm, m \in Names : Handoff(p, t, m)
      PROVE  n = leaderLease' \/ InHand(n)'
  <2>1. n = leaderLease \/ InHand(n)
    BY <1>1, <1>r, <1>h, EntryEffect DEF leases!Registered
  <2>2. InHand(n) => InHand(n)'
    BY <1>1, EntryEffect DEF InHand
  <2>3. n = leaderLease => n = leaderLease' \/ InHand(n)'
    BY <1>1, EntryEffect DEF InHand
  <2> QED
    BY <2>1, <2>2, <2>3
<1>2. ASSUME NEW p \in Callers, CallStep(p) PROVE n = leaderLease' \/ InHand(n)'
  <2>0. ~overlapped /\ loop'.pc = loop.pc /\ loop'.lease = loop.lease
    BY <1>2 DEF CallStep, Create, Lost, Install, HandoffRevoke, HandoffAbort, ResignRevoke,
                Follow, history, BaseInv, TypeOK, Loop
  <2>1. leaderLease = NoName /\ \A q \in Callers : q # p => calls[q].pc = "idle"
    BY <1>2, <2>0, OthersStay DEF SerialInv
  <2>i. InHand(n) <=> \/ calls[p].pc = "install" /\ calls[p].name = n
                      \/ calls[p].pc \in {"revoke", "resign"} /\ calls[p].lease = n
                      \/ loop.pc = "revoke" /\ loop.lease = n
    BY <2>1 DEF InHand
  <2>2. CASE Create(p)
    <3>1. CASE leases!Create(calls[p].name) /\ calls' = [calls EXCEPT ![p].pc = "install"]
      <4>1. calls[p].name \in Names
        BY <2>2 DEF Create, BaseInv, LocalInv
      <4>2. calls'[p].pc = "install" /\ calls'[p].name = calls[p].name
        BY <3>1 DEF BaseInv, TypeOK, Call
      <4>3. n # calls[p].name => table'[n] = table[n]
        BY <3>1, <4>1, CreateEffect DEF BaseInv
      <4> QED
        BY <1>h, <1>n, <1>r, <2>0, <2>1, <2>2, <2>i, <4>2, <4>3
        DEF InHand, leases!Registered, Create
    <3>2. CASE UNCHANGED LeaseVars
      BY <1>h, <1>n, <1>r, <2>0, <2>1, <2>2, <2>i, <3>2
      DEF InHand, leases!Registered, Create, LeaseVars
    <3> QED
      BY <2>2, <3>1, <3>2 DEF Create
  <2>3. CASE Lost(p) \/ Follow(p)
    BY <1>h, <1>n, <1>r, <2>0, <2>1, <2>3, <2>i
    DEF InHand, leases!Registered, Lost, Follow, LeaseVars
  <2>4. CASE Install(p)
    BY <1>h, <1>n, <1>r, <2>0, <2>1, <2>4, <2>i
    DEF InHand, leases!Registered, Install, LeaseVars
  <2>5. CASE HandoffRevoke(p)
    <3>1. calls[p].lease \in Names
      BY <2>5 DEF HandoffRevoke, BaseInv, LocalInv
    <3>2. n # calls[p].lease /\ table'[n] = table[n]
      BY <1>r, <2>5, <3>1, RevokeEffect DEF HandoffRevoke, BaseInv
    <3> QED
      BY <1>h, <1>n, <1>r, <2>0, <2>1, <2>5, <2>i, <3>2
      DEF InHand, leases!Registered, HandoffRevoke
  <2>6. CASE HandoffAbort(p)
    BY <1>h, <1>n, <1>r, <2>0, <2>1, <2>6, <2>i
    DEF InHand, leases!Registered, HandoffAbort, LeaseVars
  <2>7. CASE ResignRevoke(p)
    <3>1. calls[p].lease \in Names \cup {NoName}
      BY DEF BaseInv, TypeOK, Call
    <3>2. n # calls[p].lease /\ table'[n] = table[n]
      BY <1>r, <1>n, <2>7, <3>1, RevokeOrFailEffect DEF ResignRevoke, BaseInv
    <3> QED
      BY <1>h, <1>n, <1>r, <2>0, <2>1, <2>7, <2>i, <3>2
      DEF InHand, leases!Registered, ResignRevoke
  <2> QED
    BY <1>2, <2>2, <2>3, <2>4, <2>5, <2>6, <2>7 DEF CallStep
<1>3. CASE LoopStep
  <2>0. ~overlapped /\ calls' = calls
    BY <1>3 DEF LoopStep, CheckTimeout, Heartbeat, RenewFailed, RenewOk, Stamp, StepDown,
                StepDownRevoke, history
  <2>1. CASE CheckTimeout \/ Heartbeat \/ Stamp
    <3>1. table' = table /\ leaderLease' = leaderLease /\ loop.pc # "revoke"
      BY <2>1 DEF CheckTimeout, Heartbeat, Stamp, LeaseVars, node
    <3> QED
      BY <1>h, <1>r, <2>0, <3>1 DEF InHand, leases!Registered
  <2>2. CASE RenewFailed \/ RenewOk
    <3>1. loop.lease \in Names /\ loop.at \in 0..now
      BY <2>2 DEF RenewFailed, RenewOk, BaseInv, LocalInv, TypeOK, Loop
    <3>2. leaderLease' = leaderLease /\ loop.pc = "renew"
      BY <2>2 DEF RenewFailed, RenewOk, node
    <3>3. leases!Registered(n)
      <4>1. CASE RenewFailed
        BY <1>r, <3>1, <4>1, ExpireEffect
        DEF RenewFailed, LeaseVars, leases!Registered, BaseInv
      <4>2. CASE RenewOk
        <5>1. table[loop.lease] \in Nat /\ now \in Nat
          BY <3>1, ElectionAssumption DEF BaseInv, TypeOK
        <5>2. table[loop.lease] > loop.at /\ (n # loop.lease => table'[n] = table[n])
          BY <3>1, <4>2, RenewEffect DEF RenewOk, BaseInv
        <5> QED
          BY <1>r, <3>1, <5>1, <5>2 DEF leases!Registered
      <4> QED
        BY <2>2, <4>1, <4>2
    <3> QED
      BY <1>h, <2>0, <3>2, <3>3 DEF InHand
  <2>3. CASE StepDown
    <3>1. loop'.pc = "revoke" /\ loop'.lease = leaderLease /\ table' = table
      BY <2>3 DEF StepDown, LeaseVars, BaseInv, TypeOK, Loop
    <3> QED
      BY <1>h, <1>r, <2>0, <2>3, <3>1 DEF InHand, leases!Registered, StepDown
  <2>4. CASE StepDownRevoke
    <3>1. loop.lease \in Names \cup {NoName}
      BY DEF BaseInv, TypeOK, Loop
    <3>2. n # loop.lease /\ table'[n] = table[n]
      BY <1>r, <1>n, <2>4, <3>1, RevokeOrFailEffect DEF StepDownRevoke, BaseInv
    <3> QED
      BY <1>h, <1>r, <2>0, <2>4, <3>2 DEF InHand, leases!Registered, StepDownRevoke, node
  <2> QED
    BY <1>3, <2>1, <2>2, <2>3, <2>4 DEF LoopStep
<1>4. CASE Elsewhere
  <2>1. leases!Registered(n) /\ UNCHANGED <<leaderLease, calls, loop, overlapped>>
    BY <1>4, <1>r, ElsewhereEffect DEF leases!Registered, BaseInv, node, history
  <2> QED
    BY <1>h, <2>1 DEF InHand
<1>5. CASE UNCHANGED vars
  BY <1>5, <1>h, <1>r DEF vars, node, history, InHand, leases!Registered
<1> QED
  BY <1>1, <1>2, <1>3, <1>4, <1>5 DEF Next

\* As long as API calls do not overlap no leadership lease is left behind: a
\* registered one is the leader's or is in the hands of a goroutine that will
\* install or revoke it, whatever the heartbeat, the scanner and revoking
\* clients do (election.go:57-101, term.go:8-36, heartbeat.go:66-78).
THEOREM LeaseOwnedCorrect == Spec => []LeaseOwned
<1>1. Init => LeaseOwned
  BY DEF Init, leases!Init, leases!Registered, LeaseOwned
<1> QED
  BY <1>1, OwnedStep, BaseInvariant, SerialInvariant, PTL DEF Spec

\* Campaign and Handoff move to a term above every elected one, and a call
\* that runs alone finds that term untouched when it installs its leader.
LEMMA TermStep == BaseInv /\ SerialInv /\ TermInv /\ [Next]_vars => TermInv'
<1> SUFFICES ASSUME BaseInv, SerialInv, TermInv, [Next]_vars, ~lowered' PROVE TermInv'
  BY DEF TermInv
<1> DEFINE installing == {"create", "install", "revoke"}
<1>0. term \in Nat /\ elected \subseteq Nat
  BY ElectionAssumption DEF BaseInv, TypeOK
<1>1. ASSUME NEW p \in Callers,
             Campaign(p) \/ \E t \in 1..MaxTerm, n \in Names : Handoff(p, t, n)
      PROVE  TermInv'
  <2>1. ~lowered /\ term' \in Nat /\ term' > term /\ elected' = elected
    <3>1. CASE Campaign(p)
      BY <1>0, <3>1 DEF Campaign
    <3>2. CASE \E t \in 1..MaxTerm, n \in Names : Handoff(p, t, n)
      <4>1. PICK t \in 1..MaxTerm, n \in Names : Handoff(p, t, n)
        BY <3>2
      <4>2. ~lowered /\ ~(t <= term) /\ term' = t /\ elected' = elected
        BY <4>1 DEF Handoff
      <4> QED
        BY <1>0, <4>2, ElectionAssumption
    <3> QED
      BY <1>1, <3>1, <3>2
  <2>2. \A t \in elected' : t < term'
    BY <1>0, <2>1 DEF TermInv
  <2> QED
    BY <1>0, <2>1, <2>2 DEF TermInv
<1>2. ASSUME NEW p \in Callers, Resign(p) PROVE TermInv'
  <2>1. UNCHANGED <<term, elected, lowered>> /\ calls'[p].pc = "resign"
    BY <1>2 DEF Resign, Enter, BaseInv, TypeOK
  <2> QED
    BY <1>2, <2>1, EntryEffect DEF TermInv
<1>3. ASSUME NEW p \in Callers, CallStep(p) PROVE TermInv'
  <2>0. ~lowered /\ overlapped' = overlapped /\ term' = term
    BY <1>3 DEF CallStep, Create, Lost, Install, HandoffRevoke, HandoffAbort, ResignRevoke,
                Follow, history, node
  <2>1. CASE Install(p)
    <3>1. elected' = elected \cup {term}
      BY <2>1 DEF Install
    <3>2. ~overlapped => \A q \in Callers : calls'[q].pc = "idle"
      BY <1>3, <2>1, OthersStay DEF SerialInv
    <3> QED
      BY <1>0, <2>0, <3>1, <3>2 DEF TermInv
  <2>2. CASE ~Install(p)
    <3>1. elected' = elected
      BY <1>3, <2>2 DEF CallStep, Create, Lost, HandoffRevoke, HandoffAbort, ResignRevoke,
                        Follow, history
    <3>2. calls'[p].pc \in installing => calls[p].pc \in installing
      BY <1>3, <2>2, OthersStay
      DEF CallStep, Create, HandoffRevoke, Lost, HandoffAbort, ResignRevoke, Follow
    <3> QED
      BY <1>3, <2>0, <3>1, <3>2, OthersStay DEF TermInv
  <2> QED
    BY <2>1, <2>2
<1>4. CASE LoopStep \/ Elsewhere \/ UNCHANGED vars
  <2>1. UNCHANGED <<term, elected, lowered, overlapped, calls>>
    BY <1>4 DEF LoopStep, CheckTimeout, Heartbeat, RenewFailed, RenewOk, Stamp, StepDown,
                StepDownRevoke, Elsewhere, vars, node, history
  <2> QED
    BY <2>1 DEF TermInv
<1> QED
  BY <1>1, <1>2, <1>3, <1>4 DEF Next

\* A term has one leader, provided that every Handoff names a new term and API
\* calls do not overlap, for every number of candidates and callers
\* (election.go:67, term.go:11).
THEOREM OneLeaderCorrect == Spec => OneLeaderPerTerm
<1>1. Init => TermInv
  BY DEF Init, Idle, TermInv
<1>2. TermInv =>
        \A p \in Callers : Install(p) /\ ~overlapped /\ ~lowered => term \notin elected
  BY DEF TermInv, Install
<1> QED
  BY <1>1, <1>2, TermStep, BaseInvariant, SerialInvariant, PTL DEF Spec, OneLeaderPerTerm

-----------------------------------------------------------------------------
(* Step-downs *)

\* Outside Install a recorded lease is kept or forgotten.
LEMMA StaleStep == BaseInv /\ StaleInv /\ [Next]_vars => StaleInv'
<1> SUFFICES ASSUME BaseInv, StaleInv, [Next]_vars PROVE StaleInv'
  OBVIOUS
<1>0. /\ loop \in Loop
      /\ leaderLease \in Names \cup {NoName}
      /\ now \in Nat
      /\ lastHeartbeat \in Nat
      /\ HB \in Nat
  BY ElectionAssumption DEF BaseInv, TypeOK
<1> DEFINE InstallOf(p, n) == calls[p].pc = "install" /\ calls[p].name = n
\* The step leaves the check and the heartbeat alone: a lease that is
\* registered was so before or is being installed, and installs go on.
<1>1. ASSUME UNCHANGED <<loop, lastHeartbeat>>, now' \in Nat, now <= now',
             leaderLease' \in {leaderLease, NoName},
             \A n \in Names : leases!Registered(n)' =>
               leases!Registered(n) \/ \E p \in Callers : InstallOf(p, n)',
             \A p \in Callers, n \in Names : InstallOf(p, n) => InstallOf(p, n)'
      PROVE  StaleInv'
  <2>1. TimedOut => TimedOut'
    BY <1>0, <1>1 DEF TimedOut
  <2>2. CASE leaderLease' = NoName
    BY <1>1, <2>2 DEF StaleInv
  <2>3. CASE leaderLease' = leaderLease /\ leaderLease \in Names
    <3>1. leases!Registered(leaderLease)' <=> table'[leaderLease] > 0
      BY <2>3 DEF leases!Registered
    <3>2. leases!Registered(leaderLease)' =>
            leases!Registered(leaderLease) \/ \E p \in Callers : InstallOf(p, leaderLease)'
      BY <1>1, <2>3, <3>1 DEF leases!Registered
    <3> QED
      BY <1>1, <2>1, <2>3, <3>2 DEF StaleInv
  <2> QED
    BY <1>0, <1>1, <2>2, <2>3
<1>2. ASSUME NEW p \in Callers,
             \/ Campaign(p)
             \/ Resign(p)
             \/ \E t \in 1..MaxTerm, n \in Names : Handoff(p, t, n)
      PROVE  StaleInv'
  BY <1>0, <1>1, <1>2, EntryEffect DEF leases!Registered
<1>3. ASSUME NEW p \in Callers, CallStep(p) PROVE StaleInv'
  <2>1. CASE Install(p)
    <3>1. loop'.pc = loop.pc /\ loop'.fresh = (loop.pc \in {"idle", "beat"})
      BY <1>0, <2>1 DEF Install, Loop
    <3> QED
      BY <3>1 DEF StaleInv
  <2>2. CASE ~Install(p)
    <3>1. UNCHANGED <<loop, lastHeartbeat, leaderLease>>
      BY <1>3, <2>2 DEF CallStep, Create, Lost, HandoffRevoke, HandoffAbort, ResignRevoke,
                        Follow, node
    <3>2. calls[p].pc # "install"
      BY <1>3, <2>2 DEF CallStep, Create, Lost, HandoffRevoke, HandoffAbort, ResignRevoke,
                        Follow
    <3>3. \A q \in Callers, n \in Names : InstallOf(q, n) => InstallOf(q, n)'
      BY <1>3, <3>2, OthersStay
    <3>4. now' = now /\ \A n \in Names : leases!Registered(n)' =>
             leases!Registered(n) \/ \E q \in Callers : InstallOf(q, n)'
      <4>1. CASE Create(p)
        <5>1. CASE leases!Create(calls[p].name) /\ calls' = [calls EXCEPT ![p].pc = "install"]
          <6>1. calls[p].name \in Names
            BY <4>1 DEF Create, BaseInv, LocalInv
          <6>2. InstallOf(p, calls[p].name)'
            BY <5>1 DEF BaseInv, TypeOK, Call
          <6>3. calls'[p].name = calls[p].name
            BY <5>1 DEF BaseInv, TypeOK, Call
          <6>4. now' = now /\ \A n \in Names : n # calls[p].name => table'[n] = table[n]
            BY <5>1, <6>1, CreateEffect DEF BaseInv
          <6> QED
            BY <6>2, <6>3, <6>4 DEF leases!Registered
        <5> QED
          BY <4>1, <5>1 DEF Create, LeaseVars, leases!Registered
      <4>2. CASE HandoffRevoke(p)
        <5>1. calls[p].lease \in Names
          BY <4>2 DEF HandoffRevoke, BaseInv, LocalInv
        <5> QED
          BY <4>2, <5>1, RevokeEffect DEF HandoffRevoke, BaseInv, leases!Registered
      <4>3. CASE ResignRevoke(p)
        <5>1. calls[p].lease \in Names \cup {NoName}
          BY DEF BaseInv, TypeOK, Call
        <5> QED
          BY <4>3, <5>1, ElectionAssumption, RevokeOrFailEffect
          DEF ResignRevoke, BaseInv, leases!Registered
      <4>4. CASE Lost(p) \/ HandoffAbort(p) \/ Follow(p)
        BY <4>4 DEF Lost, HandoffAbort, Follow, LeaseVars, leases!Registered
      <4> QED
        BY <1>3, <2>2, <4>1, <4>2, <4>3, <4>4 DEF CallStep
    <3> QED
      BY <1>0, <1>1, <3>1, <3>3, <3>4
  <2> QED
    BY <2>1, <2>2
<1>4. CASE LoopStep
  <2>1. CASE CheckTimeout
    <3>1. UNCHANGED <<now, lastHeartbeat, table, leaderLease, calls>>
      BY <2>1 DEF CheckTimeout, node, LeaseVars
    <3>2. loop'.pc \in {"beat", "stepDown"} /\ (loop'.pc = "stepDown" => TimedOut)
      BY <1>0, <2>1 DEF CheckTimeout, Loop
    <3> QED
      BY <3>1, <3>2 DEF StaleInv, TimedOut
  <2>2. CASE Heartbeat
    <3>1. loop'.pc \in {"renew", "idle"} /\ (loop'.pc = "renew" => loop'.lease = leaderLease)
      BY <2>2 DEF Heartbeat, LoopIdle
    <3>2. leaderLease' = leaderLease
      BY <2>2 DEF Heartbeat, node
    <3> QED
      BY <3>1, <3>2 DEF StaleInv
  <2>3. CASE RenewFailed
    <3>1. loop.lease \in Names /\ loop.pc = "renew"
      BY <2>3 DEF RenewFailed, BaseInv, LocalInv
    <3>2. ~(table'[loop.lease] > 0)
      <4>1. CASE ~leases!Registered(loop.lease) /\ UNCHANGED LeaseVars
        BY <4>1 DEF leases!Registered, LeaseVars
      <4>2. CASE leases!Expire({loop.lease}, loop.at)
        BY <3>1, <4>2, ExpireEffect DEF BaseInv
      <4> QED
        BY <2>3, <4>1, <4>2 DEF RenewFailed
    <3>3. loop'.pc = "stepDown" /\ loop'.fresh = loop.fresh
      BY <1>0, <2>3 DEF RenewFailed, Loop
    <3>4. leaderLease' = leaderLease
      BY <2>3 DEF RenewFailed, node
    <3> QED
      BY <3>1, <3>2, <3>3, <3>4 DEF StaleInv, leases!Registered
  <2>4. CASE RenewOk \/ Stamp \/ StepDown \/ StepDownRevoke
    <3>1. loop'.pc \in {"stamp", "idle", "revoke"}
      <4>1. CASE RenewOk
        BY <1>0, <4>1 DEF RenewOk, Loop
      <4>2. CASE StepDown
        BY <1>0, <4>2 DEF StepDown, Loop
      <4>3. CASE Stamp \/ StepDownRevoke
        BY <4>3 DEF Stamp, StepDownRevoke, LoopIdle
      <4> QED
        BY <2>4, <4>1, <4>2, <4>3
    <3> QED
      BY <3>1 DEF StaleInv
  <2> QED
    BY <1>4, <2>1, <2>2, <2>3, <2>4 DEF LoopStep
<1>5. CASE Elsewhere
  <2>1. /\ UNCHANGED <<loop, lastHeartbeat, leaderLease, calls>>
        /\ now' \in Nat
        /\ now <= now'
        /\ \A n \in Names : leases!Registered(n)' => leases!Registered(n)
    BY <1>5, ElsewhereEffect DEF leases!Registered, BaseInv, node
  <2> QED
    BY <1>0, <1>1, <2>1
<1>6. CASE UNCHANGED vars
  BY <1>6 DEF vars, node, StaleInv, TimedOut, leases!Registered
<1> QED
  BY <1>2, <1>3, <1>4, <1>5, <1>6 DEF Next

\* The heartbeat goroutine deposes a leader that holds its lease and is in
\* time only by mistake for an earlier one: a leader was installed after the
\* failed check, or a call has just created the lease again
\* (heartbeat.go:11-30, 55-61, 66-78).
THEOREM StepsDownCorrect == Spec => StepsDownOnStaleCheck
<1> DEFINE Mistaken == StepDown /\ role = "Leader" /\ leases!Registered(leaderLease) /\ ~TimedOut
                         => ~loop.fresh \/ InHand(leaderLease)
<1>1. Init => StaleInv
  BY DEF Init, LoopIdle, StaleInv
<1>2. BaseInv /\ StaleInv => Mistaken
  BY DEF BaseInv, TypeOK, StaleInv, StepDown, InHand
<1> QED
  BY <1>1, <1>2, StaleStep, BaseInvariant, PTL DEF Spec, StepsDownOnStaleCheck
=============================================================================
