--------------------------- MODULE ConsumerGroup ----------------------------
(***************************************************************************)
(* One consumer group of the event broker on the delivery instance that    *)
(* owns it: the coordinator's members and their partitions, the streams    *)
(* they open, the cursors SEEK writes, the markers by which a dispatcher   *)
(* finds the group, and the group's row in the registry.                   *)
(*                                                                         *)
(* A call is one HTTP request: JOIN, LEAVE, :stream, :seek or DELETE of    *)
(* the group.  It moves between its awaits, where any other call and the   *)
(* sweeper may run, and where the client may go away.  The coordinator     *)
(* and the stream leases each have a mutex, and what runs under one is one *)
(* step.  A call that has opened a stream goes on as that stream's         *)
(* session, until the session is dropped.                                  *)
(*                                                                         *)
(* A subscription id is a fresh UUID: it joins once.  Ids are integers     *)
(* because the split orders members by id.  Offsets are left out: a cursor *)
(* is there or it is not.  Lifetimes are left out too: any member that has *)
(* no stream may be found to have outlived its state.                      *)
(***************************************************************************)
EXTENDS Integers, FiniteSets, SequencesExt

CONSTANTS
    Subs,       \* subscription ids
    Calls,      \* requests under way at once
    Deployments \* the groups there may be: see deploy

ASSUME GroupAssumption ==
    /\ Subs \subseteq Nat /\ IsFiniteSet(Subs)
    /\ \A d \in Deployments :
        /\ d.ids \subseteq Subs /\ d.readers \subseteq Subs
        /\ \A t \in DOMAIN d.partitions : d.partitions[t] \in Nat
        /\ d.ops \subseteq {"join", "leave", "stream", "seek", "delete"}
        /\ d.seeded \in BOOLEAN /\ d.failures \in BOOLEAN

\* deploy is the group at hand, which no step changes: the ids its members can
\* get, and those that open streams (ids and readers, bounds), the number of
\* partitions of each topic (partitions), the requests clients make (ops),
\* whether its earlier life left a cursor for every partition (seeded), whether
\* storage calls may fail and clients may go away (failures).
VARIABLES
    deploy,
    registered, \* the group's row exists
    members,    \* GroupState::members
    version,    \* GroupState::topology_version
    entry,      \* each subscription's MemberEntry
    watch,      \* its generation watch, which outlives the member
    minted,     \* ids already given out
    leases,     \* InProcessStreamLeases::open
    cursors,    \* partitions with a row in the cursor table
    marks,      \* markers in the cluster cache
    clearing,   \* markers the sweeper has yet to clear
    call        \* the requests

coordinator == <<members, version, entry, watch>>
groupVars == <<registered, coordinator, minted, leases, cursors, marks, clearing, call>>

Partitions == deploy.partitions
Topics == DOMAIN Partitions
Keys == UNION {{<<t, p>> : p \in 0 .. Partitions[t] - 1} : t \in Topics}

\* A subscription marker is its id; the group has one marker.
GroupMark == -1
NoSub == 0

NoEntry == [state |-> "Gone", late |-> FALSE, topics |-> {}, assigned |-> {}, version |-> 0]
Generation(v, ks) == [version |-> v, assigned |-> ks]

\* seen and ver are the call's copy of its subscription; current, topology
\* and read are its session's.  stale and unread remember, for the properties,
\* what the member had lost and gained when the session was opened on the
\* assignment seen before.
Idle == [at |-> "idle", sub |-> NoSub, topics |-> {}, seen |-> {}, ver |-> 0,
         todo |-> {}, clear |-> << >>,
         current |-> Generation(0, {}), topology |-> 0, read |-> {},
         stale |-> {}, unread |-> {}]

GroupInit ==
    /\ deploy \in Deployments
    /\ registered = TRUE
    /\ members = {}
    /\ version = 0
    /\ entry = [s \in Subs |-> NoEntry]
    /\ watch = [s \in Subs |-> Generation(0, {})]
    /\ minted = {}
    /\ leases = {}
    /\ cursors = IF deploy.seeded THEN Keys ELSE {}
    /\ marks = {}
    /\ clearing = << >>
    /\ call = [c \in Calls |-> Idle]

MoveTo(c, at) == call' = [call EXCEPT ![c].at = at]
Return(c) == call' = [call EXCEPT ![c] = Idle]

-----------------------------------------------------------------------------
(***************************************************************************)
(* The split.                                                              *)
(***************************************************************************)

\* What member i of k receives of n partitions.
range_split(n, k, i) ==
    (i * n) \div k .. ((i + 1) * n) \div k - 1

\* The partitions of each member: every topic is split over the members that
\* are interested in it, in the order of their ids.
compute_assignments(ms, topics) ==
    [s \in ms |->
        UNION {LET interested == {m \in ms : t \in topics[m]}
                   rank == Cardinality({m \in interested : m < s})
               IN  {<<t, p>> : p \in range_split(Partitions[t], Cardinality(interested), rank)}
               : t \in topics[s]}]

\* Mutant: a member taken out is not told.
publish_without_retire(ms, split, v) ==
    watch' = [s \in Subs |->
        CASE s \in ms /\ split[s] # entry[s].assigned -> Generation(v, split[s])
          [] s \in ms \ members /\ split[s] = entry[s].assigned -> Generation(version, {})
          [] OTHER -> watch[s]]

\* publish_generations and retire: a member whose partitions changed gets
\* them under the new version, one that was taken out gets none.
publish_generations(ms, split, v) ==
    watch' = [s \in Subs |->
        CASE s \in ms /\ split[s] # entry[s].assigned -> Generation(v, split[s])
          [] s \in ms \ members /\ split[s] = entry[s].assigned -> Generation(version, {})
          [] s \in members \ ms -> Generation(version, {})
          [] OTHER -> watch[s]]

\* The coordinator's critical section that leaves the members ms; fresh are
\* the entries of the ones that join.  An emptied group is dropped.
Regroup(ms, fresh) ==
    LET base == [s \in Subs |-> IF s \in DOMAIN fresh THEN fresh[s] ELSE entry[s]]
        split == compute_assignments(ms, [s \in ms |-> base[s].topics])
        v == version + 1
    IN  /\ members' = ms
        /\ version' = IF ms = {} THEN 0 ELSE v
        /\ publish_generations(ms, split, v)
        /\ entry' = [s \in Subs |->
                IF s \in ms
                THEN [base[s] EXCEPT !.assigned = split[s], !.version = v]
                ELSE NoEntry]

\* The markers of the members gone, in the order they are cleared.  Where the
\* group was emptied its own marker follows each of them.
Removals(gone, ms) ==
    IF ms # {} THEN SetToSeqs(gone)
    ELSE {[i \in 1 .. 2 * Len(order) |-> IF i % 2 = 1 THEN order[(i + 1) \div 2] ELSE GroupMark]
            : order \in SetToSeqs(gone)}

-----------------------------------------------------------------------------
(***************************************************************************)
(* JOIN.                                                                   *)
(***************************************************************************)

\* find_consumer_group, the checks of the interests and the fresh id.
JoinFind(c, s, ts) ==
    /\ "join" \in deploy.ops
    /\ call[c].at = "idle"
    /\ registered
    /\ s \in deploy.ids \ minted
    /\ minted' = minted \cup {s}
    /\ call' = [call EXCEPT ![c] = [Idle EXCEPT !.at = "join", !.sub = s, !.topics = ts]]
    /\ UNCHANGED <<registered, coordinator, leases, cursors, marks, clearing>>

JoinMarkSubscription(c) ==
    /\ call[c].at = "join"
    /\ marks' = marks \cup {call[c].sub}
    /\ MoveTo(c, "marked")
    /\ UNCHANGED <<registered, coordinator, minted, leases, cursors, clearing>>

JoinMarkGroup(c) ==
    /\ call[c].at = "marked"
    /\ marks' = marks \cup {GroupMark}
    /\ MoveTo(c, "routed")
    /\ UNCHANGED <<registered, coordinator, minted, leases, cursors, clearing>>

\* Mutant: the member joins before its markers are written.
JoinableUnmarked(c) == call[c].at \in {"join", "routed"}

Joinable(c) == call[c].at = "routed"

\* Mutant: every member that has streamed is evicted.
EvictsStreaming == {m \in members : entry[m].state # "Joined"}

Evicted == {m \in members : entry[m].state = "Disconnected"}

\* ConsumerGroupCoordinator::join: the disconnected members are evicted and
\* the partitions split over the others and the new one.
Join(c) ==
    LET s == call[c].sub
        ms == (members \ Evicted) \cup {s}
    IN  /\ Joinable(c)
        /\ Regroup(ms, [x \in {s} |-> [NoEntry EXCEPT !.state = "Joined", !.topics = call[c].topics]])
        /\ \E clear \in Removals(Evicted, ms) :
              call' = [call EXCEPT ![c] = [Idle EXCEPT !.at = "clear", !.clear = clear]]
        /\ UNCHANGED <<registered, minted, leases, cursors, marks, clearing>>

-----------------------------------------------------------------------------
(***************************************************************************)
(* LEAVE, the sweeper, and the markers of those who are gone.              *)
(***************************************************************************)

\* find_authorized_subscription, shared by LEAVE, :stream and :seek: the
\* subscription is read here, and what follows awaits.
Find(c, s, at) ==
    /\ call[c].at = "idle"
    /\ s \in members
    /\ call' = [call EXCEPT ![c] = [Idle EXCEPT !.at = at, !.sub = s,
                    !.seen = entry[s].assigned, !.ver = entry[s].version]]

LeaveFind(c, s) ==
    /\ "leave" \in deploy.ops
    /\ Find(c, s, "leave")
    /\ UNCHANGED <<registered, coordinator, minted, leases, cursors, marks, clearing>>

Leave(c) ==
    LET s == call[c].sub IN
    /\ call[c].at = "leave"
    /\ s \in members
    /\ Regroup(members \ {s}, << >>)
    /\ \E clear \in Removals({s}, members \ {s}) :
          call' = [call EXCEPT ![c] = [Idle EXCEPT !.at = "clear", !.clear = clear]]
    /\ UNCHANGED <<registered, minted, leases, cursors, marks, clearing>>

LeaveGone(c) ==
    /\ call[c].at = "leave"
    /\ call[c].sub \notin members
    /\ Return(c)
    /\ UNCHANGED <<registered, coordinator, minted, leases, cursors, marks, clearing>>

\* A member without a stream outlives its state.
Expire(s) ==
    /\ s \in members
    /\ entry[s].state # "Streaming"
    /\ ~entry[s].late
    /\ entry' = [entry EXCEPT ![s].late = TRUE]
    /\ UNCHANGED <<registered, members, version, watch, minted, leases, cursors,
                   marks, clearing, call>>

Overdue == {s \in members : entry[s].state # "Streaming" /\ entry[s].late}

\* One tick of the sweeper: it does not tick again before it has cleared the
\* markers of all it reaped.
Sweep ==
    /\ clearing = << >>
    /\ Overdue # {}
    /\ Regroup(members \ Overdue, << >>)
    /\ clearing' \in Removals(Overdue, members \ Overdue)
    /\ UNCHANGED <<registered, minted, leases, cursors, marks, call>>

SweeperClear ==
    /\ clearing # << >>
    /\ clearing' = Tail(clearing)
    /\ \/ marks' = marks \ {Head(clearing)}
       \/ deploy.failures /\ marks' = marks
    /\ UNCHANGED <<registered, coordinator, minted, leases, cursors, call>>

ClearMarker(c) ==
    /\ call[c].at = "clear"
    /\ call[c].clear # << >>
    /\ call' = [call EXCEPT ![c].clear = Tail(@)]
    /\ \/ marks' = marks \ {Head(call[c].clear)}
       \/ deploy.failures /\ marks' = marks
    /\ UNCHANGED <<registered, coordinator, minted, leases, cursors, clearing>>

Cleared(c) ==
    /\ call[c].at = "clear"
    /\ call[c].clear = << >>
    /\ Return(c)
    /\ UNCHANGED <<registered, coordinator, minted, leases, cursors, marks, clearing>>

-----------------------------------------------------------------------------
(***************************************************************************)
(* DELETE of the group.                                                    *)
(***************************************************************************)

DeleteFind(c) ==
    /\ "delete" \in deploy.ops
    /\ call[c].at = "idle"
    /\ registered
    /\ MoveTo(c, "delete")
    /\ UNCHANGED <<registered, coordinator, minted, leases, cursors, marks, clearing>>

\* has_members: refused, or on to the statement.
DeleteCheck(c) ==
    /\ call[c].at = "delete"
    /\ IF members # {} THEN Return(c) ELSE MoveTo(c, "unused")
    /\ UNCHANGED <<registered, coordinator, minted, leases, cursors, marks, clearing>>

DeleteRow(c) ==
    /\ call[c].at = "unused"
    /\ registered' = FALSE
    /\ Return(c)
    /\ UNCHANGED <<coordinator, minted, leases, cursors, marks, clearing>>

-----------------------------------------------------------------------------
(***************************************************************************)
(* :stream.                                                                *)
(***************************************************************************)

StreamFind(c, s) ==
    /\ "stream" \in deploy.ops /\ s \in deploy.readers
    /\ Find(c, s, "stream")
    /\ UNCHANGED <<registered, coordinator, minted, leases, cursors, marks, clearing>>

\* The cursors of the partitions seen, all of which must be there.  No cursor
\* is ever removed, so the reads can stand as one.
StreamCursors(c) ==
    /\ call[c].at = "stream"
    /\ IF call[c].seen \subseteq cursors THEN MoveTo(c, "positioned") ELSE Return(c)
    /\ UNCHANGED <<registered, coordinator, minted, leases, cursors, marks, clearing>>

StreamLease(c) ==
    /\ call[c].at = "positioned"
    /\ IF call[c].sub \in leases
       THEN Return(c) /\ UNCHANGED leases
       ELSE MoveTo(c, "leased") /\ leases' = leases \cup {call[c].sub}
    /\ UNCHANGED <<registered, coordinator, minted, cursors, marks, clearing>>

SubscribeMember(s) ==
    entry' = [entry EXCEPT ![s].state = "Streaming", ![s].late = FALSE]

\* ConsumerGroupCoordinator::subscribe.
StreamSubscribe(c) ==
    LET s == call[c].sub IN
    /\ call[c].at = "leased"
    /\ s \in members
    /\ SubscribeMember(s)
    /\ call' = [call EXCEPT ![c].at = "subscribed"]
    /\ UNCHANGED <<registered, members, version, watch, minted, leases, cursors,
                   marks, clearing>>

StreamRefused(c) ==
    /\ call[c].at = "leased"
    /\ call[c].sub \notin members
    /\ leases' = leases \ {call[c].sub}
    /\ Return(c)
    /\ UNCHANGED <<registered, coordinator, minted, cursors, marks, clearing>>

\* attach_readers is given the subscription read at the start.
Attached(c) == call[c].seen

\* attach_readers and StreamSession::open, which takes the generation now
\* published as the one it reads against.
StreamOpen(c) ==
    LET w == watch[call[c].sub] IN
    /\ call[c].at = "subscribed"
    /\ call' = [call EXCEPT ![c] = [@ EXCEPT
            !.at = "Opening", !.read = Attached(c), !.current = w,
            !.topology = call[c].ver,
            !.stale = Attached(c) \ w.assigned, !.unread = w.assigned \ Attached(c),
            !.seen = {}, !.ver = 0]]
    /\ UNCHANGED <<registered, coordinator, minted, leases, cursors, marks, clearing>>

-----------------------------------------------------------------------------
(***************************************************************************)
(* The session.                                                            *)
(***************************************************************************)

\* The first frame is the topology baseline.
SessionBaseline(c) ==
    /\ call[c].at = "Opening"
    /\ MoveTo(c, "Streaming")
    /\ UNCHANGED <<registered, coordinator, minted, leases, cursors, marks, clearing>>

\* AssignmentDelta::classify.
classify(old, new) ==
    LET gained == ~(new.assigned \subseteq old.assigned)
        lost == ~(old.assigned \subseteq new.assigned)
    IN  CASE lost /\ new.assigned = {} -> "LoseAll"
          [] gained -> "Gain"
          [] lost /\ ~gained /\ new.assigned # {} -> "Loss"
          [] ~gained /\ ~lost /\ new.version = old.version -> "Unchanged"
          [] OTHER -> "VersionOnly"

\* observe_assignment and apply, the first thing advance does.
SessionObserve(c) ==
    LET next == watch[call[c].sub]
        delta == classify(call[c].current, next)
        now == [call[c] EXCEPT !.current = next]
    IN  /\ call[c].at = "Streaming"
        /\ next # call[c].current
        /\ call' = [call EXCEPT ![c] =
              CASE delta \in {"Gain", "LoseAll"} -> [now EXCEPT !.at = "Closing"]
                [] delta = "Loss" -> [now EXCEPT !.topology = next.version,
                                                 !.read = @ \cap next.assigned]
                [] delta = "VersionOnly" -> [now EXCEPT !.topology = next.version]
                [] OTHER -> now]
        /\ UNCHANGED <<registered, coordinator, minted, leases, cursors, marks, clearing>>

\* A position stays unanswerable past the tolerance.
SessionTeardown(c) ==
    /\ deploy.failures
    /\ call[c].at = "Streaming"
    /\ call[c].read # {}
    /\ MoveTo(c, "Closing")
    /\ UNCHANGED <<registered, coordinator, minted, leases, cursors, marks, clearing>>

Open == {"Opening", "Streaming", "Closing"}

\* on_stream_closed, under the coordinator's lock.
CloseMember(s) ==
    IF s \in members /\ entry[s].state = "Streaming"
    THEN entry' = [entry EXCEPT ![s].state = "Disconnected"]
    ELSE UNCHANGED entry

\* Mutant: the lease is declared before the membership handle.
LeaseFirst == <<"lease", "membership">>

\* StreamSession's fields are dropped in the order they are declared in.
FieldOrder == <<"membership", "lease">>

DropField(s, field) ==
    \/ field = "membership" /\ CloseMember(s) /\ UNCHANGED leases
    \/ field = "lease" /\ leases' = leases \ {s} /\ UNCHANGED entry

Drop(c) ==
    /\ DropField(call[c].sub, FieldOrder[1])
    /\ call' = [call EXCEPT ![c] = [Idle EXCEPT !.at = "dropping", !.sub = call[c].sub]]
    /\ UNCHANGED <<registered, members, version, watch, minted, cursors, marks, clearing>>

SessionDropped(c) ==
    /\ call[c].at = "dropping"
    /\ DropField(call[c].sub, FieldOrder[2])
    /\ Return(c)
    /\ UNCHANGED <<registered, members, version, watch, minted, cursors, marks, clearing>>

\* The terminal frame is out and the stream ends.
SessionEnd(c) == call[c].at = "Closing" /\ Drop(c)

\* The client goes away, which drops the stream.
Disconnect(c) == deploy.failures /\ call[c].at \in Open /\ Drop(c)

-----------------------------------------------------------------------------
(***************************************************************************)
(* :seek.                                                                  *)
(***************************************************************************)

\* The client names the targets, and echoes the version it last observed:
\* the current one, or one that is behind.
SeekFind(c, s, behind, targets) ==
    /\ "seek" \in deploy.ops
    /\ call[c].at = "idle"
    /\ s \in members
    /\ call' = [call EXCEPT ![c] = [Idle EXCEPT !.at = "seek", !.sub = s,
                    !.seen = entry[s].assigned, !.ver = entry[s].version,
                    !.topology = entry[s].version - behind,
                    !.todo = targets]]
    /\ UNCHANGED <<registered, coordinator, minted, leases, cursors, marks, clearing>>

SeekCheckLease(c) ==
    /\ call[c].at = "seek"
    /\ IF call[c].sub \in leases THEN Return(c) ELSE MoveTo(c, "free")
    /\ UNCHANGED <<registered, coordinator, minted, leases, cursors, marks, clearing>>

\* The version echoed is the subscription's, and the targets are assigned.
SeekAdmitted(c) ==
    call[c].topology = call[c].ver /\ call[c].todo \subseteq call[c].seen

\* The fence, and the backend's answer for every target.
SeekFence(c) ==
    /\ call[c].at = "free"
    /\ \/ SeekAdmitted(c) /\ MoveTo(c, "resolved")
       \/ (~SeekAdmitted(c) \/ deploy.failures) /\ Return(c)
    /\ UNCHANGED <<registered, coordinator, minted, leases, cursors, marks, clearing>>

\* put_cursor: the row is updated, or inserted if the group still exists.
SeekPut(c, k) ==
    /\ call[c].at = "resolved"
    /\ k \in call[c].todo
    /\ k \in cursors \/ registered
    /\ cursors' = cursors \cup {k}
    /\ call' = [call EXCEPT ![c].todo = @ \ {k}]
    /\ UNCHANGED <<registered, coordinator, minted, leases, marks, clearing>>

SeekDone(c) ==
    /\ call[c].at = "resolved"
    /\ call[c].todo = {}
    /\ Return(c)
    /\ UNCHANGED <<registered, coordinator, minted, leases, cursors, marks, clearing>>

SeekFailed(c) ==
    /\ call[c].at = "resolved"
    /\ \E k \in call[c].todo : deploy.failures \/ (k \notin cursors /\ ~registered)
    /\ Return(c)
    /\ UNCHANGED <<registered, coordinator, minted, leases, cursors, marks, clearing>>

\* A storage call fails, or the client goes away while the call awaits.
AbandonRequest(c) ==
    /\ deploy.failures
    /\ call[c].at \in {"join", "marked", "routed", "clear", "leave", "delete", "stream",
                       "seek", "free"}
    /\ Return(c)
    /\ UNCHANGED <<registered, coordinator, minted, leases, cursors, marks, clearing>>

-----------------------------------------------------------------------------

Request(c) ==
    \/ \E s \in Subs :
          \/ \E ts \in SUBSET Topics \ {{}} : JoinFind(c, s, ts)
          \/ LeaveFind(c, s)
          \/ StreamFind(c, s)
          \/ \E behind \in 0 .. 1, targets \in SUBSET Keys \ {{}} :
                SeekFind(c, s, behind, targets)
    \/ DeleteFind(c)

Handle(c) ==
    \/ JoinMarkSubscription(c) \/ JoinMarkGroup(c) \/ Join(c)
    \/ Leave(c) \/ LeaveGone(c)
    \/ ClearMarker(c) \/ Cleared(c)
    \/ DeleteCheck(c) \/ DeleteRow(c)
    \/ StreamCursors(c) \/ StreamLease(c)
    \/ StreamSubscribe(c) \/ StreamRefused(c) \/ StreamOpen(c)
    \/ SeekCheckLease(c) \/ SeekFence(c) \/ SeekDone(c) \/ SeekFailed(c)
    \/ \E k \in Keys : SeekPut(c, k)

Session(c) ==
    \/ SessionBaseline(c) \/ SessionObserve(c)
    \/ SessionEnd(c) \/ SessionDropped(c)

GroupNext ==
    \/ \E c \in Calls : Request(c) \/ Handle(c) \/ Session(c)
                        \/ SessionTeardown(c) \/ Disconnect(c) \/ AbandonRequest(c)
    \/ \E s \in Subs : Expire(s)
    \/ Sweep \/ SweeperClear

GroupSpec == GroupInit /\ [][GroupNext /\ UNCHANGED deploy]_<<groupVars, deploy>>

\* The handlers run on, the sweeper ticks, and clients that keep a stream
\* open keep asking it for frames.  Nobody has to make a request or to leave.
Fairness ==
    /\ \A c \in Calls : WF_groupVars(Handle(c)) /\ WF_groupVars(Session(c))
    /\ WF_groupVars(Sweep) /\ WF_groupVars(SweeperClear)

FairSpec == GroupSpec /\ Fairness

-----------------------------------------------------------------------------
(***************************************************************************)
(* Properties.                                                             *)
(***************************************************************************)

Generations == [version : Nat, assigned : SUBSET Keys]
Entries == [state : {"Gone", "Joined", "Streaming", "Disconnected"}, late : BOOLEAN,
            topics : SUBSET Topics, assigned : SUBSET Keys, version : Nat]
Steps == {"idle", "join", "marked", "routed", "clear", "leave", "delete", "unused", "stream",
          "positioned", "leased", "subscribed", "dropping", "seek", "free", "resolved"} \cup Open
Markers == Subs \cup {GroupMark}
CallRecords == [at : Steps, sub : Subs \cup {NoSub}, topics : SUBSET Topics,
                seen : SUBSET Keys, ver : Nat, todo : SUBSET Keys, clear : Seq(Markers),
                current : Generations, topology : Int, read : SUBSET Keys,
                stale : SUBSET Keys, unread : SUBSET Keys]

\* Every variable has its type.
GroupTypeOK ==
    /\ deploy \in Deployments
    /\ registered \in BOOLEAN
    /\ members \subseteq Subs
    /\ version \in Nat
    /\ entry \in [Subs -> Entries]
    /\ watch \in [Subs -> Generations]
    /\ minted \subseteq Subs
    /\ leases \subseteq Subs
    /\ cursors \subseteq Keys
    /\ marks \subseteq Markers
    /\ clearing \in Seq(Markers)
    /\ call \in [Calls -> CallRecords]

\* After every join, leave, eviction and sweep each partition of a topic some
\* member wants is held by exactly one member, and that member wants it
\* (range_split, compute_assignments).
SplitIsExact ==
    \A t \in UNION {entry[s].topics : s \in members} : \A p \in 0 .. Partitions[t] - 1 :
        Cardinality({s \in members : <<t, p>> \in entry[s].assigned /\ t \in entry[s].topics}) = 1

\* Every member's watch holds its current partitions and a removed one's holds
\* none, whoever joined or left and whether or not a stream was open
\* (publish_generations, retire).
WatchIsCurrent ==
    \A s \in minted : watch[s].assigned = entry[s].assigned

\* A member that holds a stream is Streaming as long as it is a member, so
\* neither the sweep nor a JOIN's eviction takes it for gone: a stream that
\* closes late never marks the one that replaced it (on_stream_closed and the
\* order of StreamSession's fields).
StreamingWhileOpen ==
    \A c \in Calls : call[c].at \in Open \cup {"subscribed"} /\ call[c].sub \in members
        => entry[call[c].sub].state = "Streaming"

\* The stream leases are exactly those of the calls that hold one, and no two
\* calls hold the same: none leaks on a refusal, none is released twice.
LeasesAreHeld ==
    LET holders == {c \in Calls : call[c].at \in Open \cup {"leased", "subscribed", "dropping"}}
    IN  /\ leases = {call[c].sub : c \in holders}
        /\ \A c, d \in holders : call[c].sub = call[d].sub => c = d

\* A session that has nothing left to observe reads its member's partitions,
\* but for those a rebalance moved while the session was being opened: losses
\* narrow it and gains end it (classify, apply).  The exception is real.  The
\* readers are attached to the assignment found at the start of the call
\* (delivery.rs:650) and the session compares with the one published now
\* (session.rs:101), so what moved in between is no delta: a partition lost
\* then is read, and one gained then is not, until the next rebalance that
\* changes this member's share.  session.rs:228-230 has a session stop reading
\* what it lost, and USE_CASES.md:87 a single consumer per partition.
SettledReads ==
    \A c \in Calls :
        call[c].at = "Streaming" /\ call[c].current = watch[call[c].sub]
        => call[c].read \ call[c].stale = entry[call[c].sub].assigned \ call[c].unread

\* No session reads a partition without a stored cursor, although
\* attach_readers would start such a one at zero.
ReadsAreSeeded ==
    \A c \in Calls : call[c].at \in Open => call[c].read \subseteq cursors

\* Every member has its subscription marker, whatever joins, leaves and sweeps
\* clear at the same time.  That is the first of the two hops that lead to a
\* member, from subscription to group (repo.rs:30-32).  The second, from group
\* to instance, has no such promise: a sweep or a LEAVE that emptied the group
\* clears its marker after a JOIN has written it again (sweeper.rs:53,
\* delivery.rs:508), and the new member stands under a group without one.
SubscriptionsRoutable == members \subseteq marks

\* Only its own LEAVE takes a member out while its stream is open.
OnlyLeaveEndsStreams ==
    [][\A s \in members \ members' :
          (\E c \in Calls : call[c].at \in Open /\ call[c].sub = s)
          => \E c \in Calls : call[c].at = "leave" /\ call[c].sub = s /\ call'[c].at = "clear"]_groupVars

\* A session does not go on reading a partition its member loses once the
\* session is open: it stops reading it, it ends, or the member has it back.
\* What was lost before it opened (stale) is excepted, and see SettledReads.
LossesAreObserved ==
    \A c \in Calls :
        LET stray == call[c].at \in Open
                       /\ ~(call[c].read \subseteq entry[call[c].sub].assigned \cup call[c].stale)
        IN  stray ~> ~stray

\* A member that outlived its state is reaped unless a stream opens first.
ExpiredAreReaped ==
    \A s \in Subs : (s \in members /\ entry[s].late) ~> (s \notin members \/ ~entry[s].late)

\* The group is whole after every rebalance: the partitions are split exactly,
\* every member is told its share and leads, by its own marker, to its group.
\* Whether the group's marker leads on to the instance is not part of it.
GroupSound == GroupTypeOK /\ SplitIsExact /\ WatchIsCurrent /\ SubscriptionsRoutable

\* Sessions agree with their members: one per member, visible to the sweep,
\* from stored cursors, and on the member's partitions save those that moved
\* while the session was being opened.
SessionsSound == LeasesAreHeld /\ StreamingWhileOpen /\ SettledReads /\ ReadsAreSeeded

\* No partition lost under an open session is read for good, and no member
\* that is gone stays for good.
GroupSettles == LossesAreObserved /\ ExpiredAreReaped
=============================================================================
