------------------------------ MODULE Election ------------------------------
(***************************************************************************)
(* The election of internal/election over the lease table of LeaseSpec:    *)
(* Campaign, Handoff and Resign, called by API goroutines, and the         *)
(* heartbeat goroutine.  Every operation is a chain of regions, under e.mu *)
(* or inside the lease manager, with no lock held in between, so the       *)
(* regions of several goroutines interleave.  leadershipLeaseID maps names *)
(* to lease ids one to one, so a leadership lease is named by its          *)
(* candidate.  Leases also end without the election's doing: the scanner   *)
(* expires them and clients revoke them; OnLeaseExpired is wired nowhere,  *)
(* so the election learns of it only from its next heartbeat.  Clients may *)
(* renew them too.  That no client creates a lease under a leadership id,  *)
(* which the API would accept, is assumed.                                 *)
(***************************************************************************)
EXTENDS Naturals, FiniteSets

CONSTANTS
  Names,      \* candidates
  Self,       \* the name of this node (cfg.NodeName)
  NoName,     \* the empty name or lease id
  Callers,    \* goroutines serving election requests
  TTL,        \* ttl of a leadership lease
  HB,         \* heartbeatInterval
  Lag,        \* how old the time the scanner passes may be
  MaxClock,   \* bound: ticks of the clock
  MaxTerm,    \* bound: terms
  MaxCalls    \* bound: API calls

ASSUME ElectionAssumption ==
  /\ Self \in Names
  /\ NoName \notin Names
  /\ TTL \in Nat \ {0}
  /\ HB \in Nat \ {0}
  /\ Lag \in Nat
  /\ MaxClock \in Nat
  /\ MaxTerm \in Nat
  /\ MaxCalls \in Nat

VARIABLES
  now,          \* the clock, read by the lease manager and the heartbeat
  table,        \* table[n]: the deadline of n's leadership lease, 0 if none
  role,
  term,
  leaderName,
  leaderLease,
  lastHeartbeat,
  calls,        \* calls[p]: where API goroutine p is, and its locals
  loop,         \* where the heartbeat goroutine is, and its locals
  entered,      \* API calls so far
  elected,      \* terms in which a leader was installed
  overlapped,   \* two API calls ran at the same time
  lowered,      \* a Handoff was given a term that was not new
  aborted       \* a Handoff returned at a failed Revoke, and no call since

leases == INSTANCE LeaseSpec WITH Leases <- Names

node == <<role, term, leaderName, leaderLease, lastHeartbeat>>
history == <<entered, elected, overlapped, lowered, aborted>>
vars == <<now, table, node, calls, loop, history>>

-----------------------------------------------------------------------------
(* Types and helpers *)

Roles == {"Follower", "Candidate", "Leader", "Resigned"}

CanVote(r) == r \in {"Follower", "Candidate", "Resigned"}

\* The next role; a change that is not listed leaves the role as it is.
Transition(from, to) ==
  IF \/ from = "Follower" /\ to \in {"Candidate", "Leader", "Resigned"}
     \/ from = "Candidate" /\ to \in {"Leader", "Follower", "Resigned"}
     \/ from = "Leader" /\ to \in {"Follower", "Resigned"}
     \/ from = "Resigned" /\ to \in {"Follower", "Candidate"}
    THEN to ELSE from

Call == [pc : {"idle", "create", "install", "lost", "revoke", "resign", "follow"},
         lease : Names \cup {NoName},   \* the lease to revoke
         name : Names \cup {NoName}]    \* the candidate to install

Loop == [pc : {"idle", "beat", "renew", "stamp", "stepDown", "revoke"},
         lease : Names \cup {NoName},
         at : 0..MaxClock,
         fresh : BOOLEAN]   \* no leader was installed since the last check

Idle == [pc |-> "idle", lease |-> NoName, name |-> NoName]

LoopIdle == [pc |-> "idle", lease |-> NoName, at |-> 0, fresh |-> TRUE]

Return(p) == calls' = [calls EXCEPT ![p] = Idle]

\* Goroutine p enters a call.
Enter(p, call) ==
  /\ calls[p].pc = "idle"
  /\ entered < MaxCalls
  /\ entered' = entered + 1
  /\ calls' = [calls EXCEPT ![p] = call]
  /\ overlapped' = (overlapped \/ \E q \in Callers : calls[q].pc # "idle")
  /\ aborted' = FALSE

LeaseVars == <<now, table>>

\* Revoke in the lease manager, whose error the caller ignores.
RevokeOrFail(n) ==
  IF n # NoName /\ leases!Registered(n)
    THEN leases!Revoke(n)
    ELSE UNCHANGED LeaseVars

-----------------------------------------------------------------------------
(* Campaign *)

\* Mutant of Campaign: the term is not incremented.
CampaignSameTerm(p) ==
  /\ role # "Leader"
  /\ role' = "Candidate"
  /\ Enter(p, [pc |-> "create", lease |-> NoName, name |-> Self])
  /\ UNCHANGED <<term, leaderName, leaderLease, lastHeartbeat, elected, lowered, LeaseVars, loop>>

\* The first region; a leader returns at once.
Campaign(p) ==
  /\ role # "Leader"
  /\ CanVote(role)
  /\ term < MaxTerm
  /\ term' = term + 1
  /\ role' = Transition(role, "Candidate")
  /\ Enter(p, [pc |-> "create", lease |-> NoName, name |-> Self])
  /\ UNCHANGED <<leaderName, leaderLease, lastHeartbeat, elected, lowered, LeaseVars, loop>>

\* Create of the candidate's leadership lease, in Campaign and in Handoff.
Create(p) ==
  /\ calls[p].pc = "create"
  /\ \/ leases!Create(calls[p].name) /\ calls' = [calls EXCEPT ![p].pc = "install"]
     \/ /\ leases!Registered(calls[p].name)
        /\ calls' = [calls EXCEPT ![p].pc = "lost", ![p].name = NoName]
        /\ UNCHANGED LeaseVars
  /\ UNCHANGED <<node, loop, history>>

\* Mutant of Lost: the role is left alone.
LostKeepsRole(p) ==
  /\ calls[p].pc = "lost"
  /\ Return(p)
  /\ UNCHANGED <<node, LeaseVars, loop, history>>

\* The lease is taken: the role becomes Follower, whatever it is by now.
Lost(p) ==
  /\ calls[p].pc = "lost"
  /\ role' = "Follower"
  /\ Return(p)
  /\ UNCHANGED <<term, leaderName, leaderLease, lastHeartbeat, LeaseVars, loop, history>>

\* Mutant of Install: the leader's name is set, its lease id is not.
InstallWithoutLease(p) ==
  /\ calls[p].pc = "install"
  /\ role' = "Leader"
  /\ leaderName' = calls[p].name
  /\ lastHeartbeat' = now
  /\ elected' = elected \cup {term}
  /\ loop' = [loop EXCEPT !.fresh = loop.pc \in {"idle", "beat"}]
  /\ Return(p)
  /\ UNCHANGED <<term, leaderLease, entered, overlapped, lowered, aborted, LeaseVars>>

\* The lease was created: its candidate becomes the leader.
Install(p) ==
  /\ calls[p].pc = "install"
  /\ role' = "Leader"
  /\ leaderName' = calls[p].name
  /\ leaderLease' = calls[p].name
  /\ lastHeartbeat' = now
  /\ elected' = elected \cup {term}
  /\ loop' = [loop EXCEPT !.fresh = loop.pc \in {"idle", "beat"}]
  /\ Return(p)
  /\ UNCHANGED <<term, entered, overlapped, lowered, aborted, LeaseVars>>

-----------------------------------------------------------------------------
(* Handoff and Resign *)

\* Mutant of Handoff: the old lease is forgotten instead of revoked.
HandoffForgetsOld(p, newTerm, newName) ==
  /\ term' = newTerm
  /\ role' = "Candidate"
  /\ leaderName' = NoName
  /\ leaderLease' = NoName
  /\ Enter(p, [pc |-> "create", lease |-> NoName, name |-> newName])
  /\ lowered' = (lowered \/ newTerm <= term)
  /\ UNCHANGED <<lastHeartbeat, elected, LeaseVars, loop>>

\* The first region: any term and any name are accepted.
Handoff(p, newTerm, newName) ==
  /\ term' = newTerm
  /\ role' = "Candidate"
  /\ leaderName' = NoName
  /\ leaderLease' = NoName
  /\ Enter(p, [pc |-> IF leaderLease = NoName THEN "create" ELSE "revoke",
               lease |-> leaderLease, name |-> newName])
  /\ lowered' = (lowered \/ newTerm <= term)
  /\ UNCHANGED <<lastHeartbeat, elected, LeaseVars, loop>>

\* The old leader's lease is revoked before the new one is created.
HandoffRevoke(p) ==
  /\ calls[p].pc = "revoke"
  /\ leases!Revoke(calls[p].lease)
  /\ calls' = [calls EXCEPT ![p].pc = "create", ![p].lease = NoName]
  /\ UNCHANGED <<node, loop, history>>

\* The old lease was already gone: Handoff returns, the role stays Candidate.
HandoffAbort(p) ==
  /\ calls[p].pc = "revoke"
  /\ ~leases!Registered(calls[p].lease)
  /\ Return(p)
  /\ aborted' = TRUE
  /\ UNCHANGED <<node, LeaseVars, loop, entered, elected, overlapped, lowered>>

Resign(p) ==
  /\ role' = "Resigned"
  /\ leaderName' = NoName
  /\ leaderLease' = NoName
  /\ Enter(p, [pc |-> "resign", lease |-> leaderLease, name |-> NoName])
  /\ UNCHANGED <<term, lastHeartbeat, elected, lowered, LeaseVars, loop>>

ResignRevoke(p) ==
  /\ calls[p].pc = "resign"
  /\ RevokeOrFail(calls[p].lease)
  /\ calls' = [calls EXCEPT ![p].pc = "follow", ![p].lease = NoName]
  /\ UNCHANGED <<node, loop, history>>

\* Follow, which the resign handler calls next.
Follow(p) ==
  /\ calls[p].pc = "follow"
  /\ role' = IF role # "Leader" THEN Transition(role, "Follower") ELSE role
  /\ Return(p)
  /\ UNCHANGED <<term, leaderName, leaderLease, lastHeartbeat, LeaseVars, loop, history>>

-----------------------------------------------------------------------------
(* The heartbeat goroutine *)

TimedOut == now >= lastHeartbeat + HB

\* Mutant of CheckTimeout: measured with the period of the ticker.
CheckTimeoutEarly ==
  /\ loop.pc = "idle"
  /\ loop' = [loop EXCEPT !.pc = IF role = "Leader" /\ 2 * now >= 2 * lastHeartbeat + HB
                                 THEN "stepDown" ELSE "beat"]
  /\ UNCHANGED <<node, calls, LeaseVars, history>>

\* CheckTimeout: a leader that is late steps down, otherwise Heartbeat follows.
CheckTimeout ==
  /\ loop.pc = "idle"
  /\ loop' = [loop EXCEPT !.pc = IF role = "Leader" /\ TimedOut THEN "stepDown" ELSE "beat"]
  /\ UNCHANGED <<node, calls, LeaseVars, history>>

\* The first region of Heartbeat: only a leader goes on to renew its lease.
Heartbeat ==
  /\ loop.pc = "beat"
  /\ loop' = IF role = "Leader"
             THEN [pc |-> "renew", lease |-> leaderLease, at |-> now, fresh |-> TRUE]
             ELSE LoopIdle
  /\ UNCHANGED <<node, calls, LeaseVars, history>>

\* Mutant of RenewFailed: a failed renewal is left to the timeout.
RenewFailedIgnored ==
  /\ loop.pc = "renew"
  /\ \/ ~leases!Registered(loop.lease) /\ UNCHANGED LeaseVars
     \/ leases!Expire({loop.lease}, loop.at)
  /\ loop' = LoopIdle
  /\ UNCHANGED <<node, calls, history>>

\* Renew refuses: the lease is gone, or overdue and expired by this call.
RenewFailed ==
  /\ loop.pc = "renew"
  /\ \/ ~leases!Registered(loop.lease) /\ UNCHANGED LeaseVars
     \/ leases!Expire({loop.lease}, loop.at)
  /\ loop' = [loop EXCEPT !.pc = "stepDown", !.lease = NoName, !.at = 0]
  /\ UNCHANGED <<node, calls, history>>

RenewOk ==
  /\ loop.pc = "renew"
  /\ leases!Renew(loop.lease, loop.at)
  /\ loop' = [loop EXCEPT !.pc = "stamp", !.lease = NoName]
  /\ UNCHANGED <<node, calls, history>>

\* The last region of Heartbeat: the time of the renewal is noted, whoever
\* leads by now.
Stamp ==
  /\ loop.pc = "stamp"
  /\ lastHeartbeat' = loop.at
  /\ loop' = LoopIdle
  /\ UNCHANGED <<role, term, leaderName, leaderLease, calls, LeaseVars, history>>

\* stepDown, under the lock: whoever leads by now is deposed.
StepDown ==
  /\ loop.pc = "stepDown"
  /\ role' = IF role = "Leader" THEN "Resigned" ELSE role
  /\ leaderName' = NoName
  /\ leaderLease' = NoName
  /\ loop' = [loop EXCEPT !.pc = "revoke", !.lease = leaderLease]
  /\ UNCHANGED <<term, lastHeartbeat, calls, LeaseVars, history>>

StepDownRevoke ==
  /\ loop.pc = "revoke"
  /\ RevokeOrFail(loop.lease)
  /\ loop' = LoopIdle
  /\ UNCHANGED <<node, calls, history>>

-----------------------------------------------------------------------------
(* Specification *)

Init ==
  /\ leases!Init
  /\ role = "Follower"
  /\ term = 0
  /\ leaderName = NoName
  /\ leaderLease = NoName
  /\ lastHeartbeat = 0
  /\ calls = [p \in Callers |-> Idle]
  /\ loop = LoopIdle
  /\ entered = 0
  /\ elected = {}
  /\ overlapped = FALSE
  /\ lowered = FALSE
  /\ aborted = FALSE

CallStep(p) ==
  \/ Create(p) \/ Lost(p) \/ Install(p)
  \/ HandoffRevoke(p) \/ HandoffAbort(p)
  \/ ResignRevoke(p) \/ Follow(p)

LoopStep ==
  \/ CheckTimeout \/ Heartbeat
  \/ RenewFailed \/ RenewOk \/ Stamp
  \/ StepDown \/ StepDownRevoke

\* A client revokes or renews a leadership lease like any other.
ClientStep(n) ==
  leases!Revoke(n) \/ \E at \in leases!Times : leases!Renew(n, at)

\* What happens to leases without the election's doing.
Elsewhere ==
  /\ \/ leases!Tick
     \/ \E n \in Names : ClientStep(n)
     \/ \E n \in Names, at \in leases!Times : leases!Expire({n}, at)
  /\ UNCHANGED <<node, calls, loop, history>>

Next ==
  \/ \E p \in Callers : Campaign(p) \/ Resign(p) \/ CallStep(p)
  \/ \E p \in Callers, t \in 1..MaxTerm, n \in Names : Handoff(p, t, n)
  \/ LoopStep
  \/ Elsewhere

Spec == Init /\ [][Next]_vars

\* The ticker fires again after every heartbeat, and goroutines inside a call
\* keep running.
Fairness ==
  /\ WF_vars(LoopStep)
  /\ \A p \in Callers : WF_vars(CallStep(p))

FairSpec == Spec /\ Fairness

-----------------------------------------------------------------------------
(* Properties *)

\* Every variable has its type; the leader's name and its lease are set and
\* cleared together, and a leader always has both.
TypeOK ==
  /\ now \in 0..MaxClock
  /\ table \in [Names -> 0..(MaxClock + TTL)]
  /\ role \in Roles
  /\ term \in 0..MaxTerm
  /\ leaderLease \in Names \cup {NoName}
  /\ leaderName = leaderLease
  /\ role = "Leader" => leaderLease # NoName
  /\ lastHeartbeat \in 0..now
  /\ calls \in [Callers -> Call]
  /\ loop \in Loop
  /\ entered \in 0..MaxCalls
  /\ elected \subseteq 0..MaxTerm
  /\ overlapped \in BOOLEAN /\ lowered \in BOOLEAN /\ aborted \in BOOLEAN

\* The lease a goroutine has created and not yet installed, or has taken from
\* the election and not yet revoked.
InHand(n) ==
  \/ \E p \in Callers :
       \/ calls[p].pc = "install" /\ calls[p].name = n
       \/ calls[p].pc \in {"revoke", "resign"} /\ calls[p].lease = n
  \/ loop.pc = "revoke" /\ loop.lease = n

\* As long as API calls do not overlap, no leadership lease is left behind:
\* each one that is registered belongs to the leader or is in the hands of a
\* goroutine that will install or revoke it, whatever the heartbeat goroutine
\* does meanwhile (election.go:57-101, term.go:8-36, heartbeat.go:66-78).  A
\* client that creates a lease under a leadership id itself is left out.
LeaseOwned ==
  ~overlapped =>
    \A n \in Names : leases!Registered(n) => n = leaderLease \/ InHand(n)

\* The role is Candidate only while a call is between its first and its last
\* region, or after a Handoff that could not revoke the old lease
\* (election.go:67-86, term.go:12-35).
CandidateIsTransient ==
  role = "Candidate" =>
    aborted \/ \E p \in Callers : calls[p].pc \in {"create", "install", "lost", "revoke"}

\* The heartbeat goroutine deposes a leader that holds its lease and is in time
\* only by mistake for an earlier one: a leader was installed after the check
\* that failed, or a call has just created its lease again
\* (heartbeat.go:11-30, 55-61, 66-78).
StepsDownOnStaleCheck ==
  [][ /\ StepDown
      /\ role = "Leader"
      /\ leases!Registered(leaderLease)
      /\ ~TimedOut
      => ~loop.fresh \/ InHand(leaderLease) ]_vars

\* A term has one leader, provided that every Handoff names a new term and API
\* calls do not overlap (election.go:67, term.go:11).
OneLeaderPerTerm ==
  [][ \A p \in Callers :
        Install(p) /\ ~overlapped /\ ~lowered => term \notin elected ]_vars

\* A leader whose lease is gone does not stay leader: the next heartbeats find
\* out and step down, although OnLeaseExpired is never called
\* (election.go:103-113, heartbeat.go:21-24, 47-64).
LostLeaderStepsDown ==
  role = "Leader" /\ ~leases!Registered(leaderLease)
    ~> role # "Leader" \/ leases!Registered(leaderLease)

-----------------------------------------------------------------------------
(* Claims of the source that the code does not keep *)

\* term.go:5-7: "The previous leader's lease is revoked before the new
\* leadership lease is created so there is no window where two leaders are
\* active."
NoSecondLeader ==
  role = "Leader" => \A n \in Names : leases!Registered(n) => n = leaderLease
=============================================================================
