--------------------------- MODULE TraceMailProofs ---------------------------
(***************************************************************************)
(* What TraceMail guarantees for any number of traces, instances,          *)
(* partitions and subscriptions.                                           *)
(*                                                                         *)
(* The argument: an ack's statements say how many messages of each trace   *)
(* are in the prefix it settles, and nothing but an append touches the     *)
(* queue until it commits (PlanInv).  So a commit takes off the row what   *)
(* it takes off the queue (CountdownExact), whoever commits in between.    *)
(* A claim sets the one stamp of the row, so there is at most one outcome  *)
(* of a trace, in hand or announced, and it is final because nothing is    *)
(* left to settle (HandInv, ChanInv).  The registry names a subscription   *)
(* that waits and has not been told (EntryInv).                            *)
(***************************************************************************)
EXTENDS TraceMail, FiniteSetTheorems, SequenceTheorems, TLAPS

Subscriptions ==
    {[state |-> "none"]} \cup
    [state : {"waiting", "dropped", "told", "None"}, trace : Traces, wants : BOOLEAN,
     early : BOOLEAN]
Outcomes == [by : Partitions \cup Instances, at : Instances, trace : Traces, failures : Int]

\* What TypeOK says, with the shape of records and functions.
Shape ==
    /\ deploy \in Deployments
    /\ row \in [Traces -> Rows]
    /\ queue \in [Partitions -> Seq(Traces)]
    /\ worker \in [Partitions -> Instances \cup {None}]
    /\ plan \in [Partitions -> SUBSET Steps] /\ taken \in [Partitions -> SUBSET Steps]
    /\ upto \in [Partitions -> Nat]
    /\ hand \subseteq Outcomes
    /\ entries \in [Traces -> Subs \cup {None}]
    /\ closed \in [Instances -> BOOLEAN]
    /\ sub \in [Subs -> Subscriptions]
    /\ DOMAIN chan = Subs
    /\ \A g \in Subs : chan[g].state \in {"InFlight", "Retrying", "Completed"}
    /\ page \in [Instances -> SUBSET Traces] /\ rpage \in [Instances -> SUBSET Traces]
    /\ failed \in [Traces -> Nat] /\ sends \in [Traces -> Nat]
    /\ faults \in 0..MaxFaults

\* No message of t waits for an ack.
NoneIn(q, t) == \A p \in Partitions : \A k \in 1..Len(q[p]) : q[p][k] # t
Settled(t) == NoneIn(queue, t)

\* The statements of an ack: one per trace and phase, the first phase for the
\* traces of the prefix it settles with what it holds of them; executed in order.
Lawful(q, n, w, P, T, partial) ==
    /\ n <= Len(q)
    /\ T \subseteq P
    /\ P # {} => w \in Instances
    /\ \A x, y \in P : x.phase = y.phase /\ x.trace = y.trace => x = y
    /\ \A x \in P : x.phase = 1 =>
         /\ x.terminal = Cardinality({k \in 1..n : q[k] = x.trace})
         /\ \E k \in 1..n : q[k] = x.trace
    /\ \A k \in 1..n : \E x \in P : x.phase = 1 /\ x.trace = q[k]
    /\ \A x \in T, y \in P \ T :
         x.phase < y.phase \/ (x.phase = y.phase /\ x.trace < y.trace)
    /\ ~partial => \A x, y \in P : x.phase = y.phase
PlanInv ==
    \A p \in Partitions :
        Lawful(queue[p], upto[p], worker[p], plan[p], taken[p], deploy.partial)

\* Of a trace that was not submitted there is nothing.
AbsentInv ==
    \A t \in Traces : row[t].is = "absent" =>
        row[t] = NoRow /\ Settled(t) /\ failed[t] = 0

\* A row is never below zero, swept ones included.
PendingInv == \A t \in Traces : row[t].pending >= 0

\* At most one outcome of a trace, in hand or announced; it is stamped and final.
HandInv ==
    /\ \A o \in hand :
         /\ row[o.trace].notified /\ row[o.trace].is # "absent"
         /\ Settled(o.trace) /\ o.failures = failed[o.trace]
         /\ sends[o.trace] = 0
    /\ \A o, u \in hand : o.trace = u.trace => o = u
    /\ \A t \in Traces : sends[t] <= 1 /\ (sends[t] > 0 => row[t].notified)

\* What a channel says is true and stays so.
ChanInv ==
    \A g \in Subs : chan[g].state = "Completed" =>
        /\ sub[g].state # "none"
        /\ row[sub[g].trace].is # "absent"
        /\ Settled(sub[g].trace) /\ chan[g].failures = failed[sub[g].trace]

\* A registered subscription is of its trace, waits and has not been told; the
\* generations are taken one after the other.
EntryInv ==
    /\ \A t \in Traces : entries[t] # None =>
         /\ sub[entries[t]].state = "waiting" /\ sub[entries[t]].trace = t
         /\ chan[entries[t]].state # "Completed"
         /\ ~closed[Owner[t]]
    /\ \A g \in Subs : \A h \in 1..g : sub[g].state # "none" => sub[h].state # "none"

TableInv == AbsentInv /\ PendingInv /\ CountdownExact
RegistryInv == EntryInv /\ NewestRegistered

IndInv ==
    Shape /\ PlanInv /\ TableInv /\ HandInv /\ ChanInv /\ RegistryInv /\ StampedInHand

USE TraceAssumption, MailBoundAssumption

-----------------------------------------------------------------------------
(* Counting messages over the partitions.                                  *)

Copies(n, t) == [k \in 1..n |-> t]
Pairs(F) == UNION {{p} \X F[p] : p \in Partitions}
At(q, t) == [p \in Partitions |-> {k \in 1..Len(q[p]) : q[p][k] = t}]

\* What is within bounds is finite.
LEMMA Bounded ==
    ASSUME NEW a \in Int, NEW b \in Int, NEW S, S \subseteq a..b
    PROVE  IsFiniteSet(S) /\ Cardinality(S) \in Nat
<1>1. IsFiniteSet(S)
  BY FS_Interval, FS_Subset
<1> QED
  BY <1>1, FS_CardinalityType

\* Pairs are what they look like.
LEMMA PairsAre ==
    ASSUME NEW F
    PROVE  /\ \A p, k : <<p, k>> \in Pairs(F) <=> p \in Partitions /\ k \in F[p]
           /\ \A x \in Pairs(F) : x = <<x[1], x[2]>> /\ x[1] \in Partitions /\ x[2] \in F[x[1]]
BY DEF Pairs

\* Finitely many in each partition are finitely many.
LEMMA PairsFinite ==
    ASSUME NEW F, \A p \in Partitions : IsFiniteSet(F[p])
    PROVE  IsFiniteSet(Pairs(F))
<1> DEFINE f == [p \in Partitions |-> {p} \X F[p]]
           T == {{p} \X F[p] : p \in Partitions}
<1>1. f \in Surjection(Partitions, T)
  BY DEF Surjection
<1>2. IsFiniteSet(T)
  BY <1>1, FS_Surjection
<1>3. ASSUME NEW p \in Partitions PROVE IsFiniteSet({p} \X F[p])
  <2>1. IsFiniteSet({p}) /\ IsFiniteSet(F[p])
    BY FS_Singleton
  <2> QED
    BY <2>1, FS_Product
<1>4. \A S \in T : IsFiniteSet(S)
  BY <1>3
<1> QED
  BY <1>2, <1>4, FS_UNION DEF Pairs

\* Moving all of a partition's places by the same distance keeps the count.
LEMMA PairsMoved ==
    ASSUME NEW F, NEW G, NEW d \in [Partitions -> Int],
           \A p \in Partitions : F[p] \subseteq Int /\ IsFiniteSet(F[p]),
           \A p \in Partitions : G[p] = {k + d[p] : k \in F[p]}
    PROVE  Cardinality(Pairs(G)) = Cardinality(Pairs(F))
<1> DEFINE f == [x \in Pairs(F) |-> <<x[1], x[2] + d[x[1]]>>]
<1>1. f \in [Pairs(F) -> Pairs(G)]
  <2> SUFFICES ASSUME NEW x \in Pairs(F) PROVE <<x[1], x[2] + d[x[1]]>> \in Pairs(G)
    OBVIOUS
  <2>1. x[1] \in Partitions /\ x[2] \in F[x[1]]
    BY PairsAre
  <2> QED
    BY <2>1, PairsAre
<1>2. ASSUME NEW x \in Pairs(F), NEW y \in Pairs(F), f[x] = f[y] PROVE x = y
  <2>1. /\ x = <<x[1], x[2]>> /\ x[1] \in Partitions /\ x[2] \in F[x[1]]
        /\ y = <<y[1], y[2]>> /\ y[1] \in Partitions /\ y[2] \in F[y[1]]
    BY PairsAre
  <2>2. f[x] = <<x[1], x[2] + d[x[1]]>> /\ f[y] = <<y[1], y[2] + d[y[1]]>>
    OBVIOUS
  <2>3. x[1] = y[1] /\ x[2] + d[x[1]] = y[2] + d[y[1]]
    BY <1>2, <2>2
  <2>4. x[2] \in Int /\ y[2] \in Int /\ d[x[1]] \in Int
    BY <2>1
  <2> HIDE DEF f
  <2>5. x[2] = y[2]
    BY <2>3, <2>4
  <2> QED
    BY <2>1, <2>3, <2>5
<1>3. ASSUME NEW z \in Pairs(G) PROVE \E x \in Pairs(F) : f[x] = z
  <2>1. z = <<z[1], z[2]>> /\ z[1] \in Partitions /\ z[2] \in G[z[1]]
    BY PairsAre
  <2>2. PICK k \in F[z[1]] : z[2] = k + d[z[1]]
    BY <2>1
  <2>3. <<z[1], k>> \in Pairs(F)
    BY <2>1, PairsAre
  <2> QED
    BY <2>1, <2>2, <2>3
<1> HIDE DEF f
<1>4. f \in Bijection(Pairs(F), Pairs(G))
  BY <1>1, <1>2, <1>3 DEF Bijection, Injection, Surjection, IsInjective
<1> QED
  BY <1>4, PairsFinite, FS_Bijection DEF ExistsBijection

\* The places of a trace in a queue are finitely many.
LEMMA AtIs ==
    ASSUME NEW q \in [Partitions -> Seq(Traces)], NEW t, NEW p \in Partitions
    PROVE  /\ At(q, t)[p] = {k \in 1..Len(q[p]) : q[p][k] = t}
           /\ Len(q[p]) \in Nat /\ At(q, t)[p] \subseteq Int /\ IsFiniteSet(At(q, t)[p])
<1>1. At(q, t)[p] = {k \in 1..Len(q[p]) : q[p][k] = t} /\ Len(q[p]) \in Nat
  BY DEF At
<1>2. At(q, t)[p] \subseteq 1..Len(q[p])
  BY <1>1
<1> QED
  BY <1>1, <1>2, Bounded

\* The messages of t: finitely many, and none is none.
LEMMA Counting ==
    ASSUME NEW t \in Traces, NEW q \in [Partitions -> Seq(Traces)]
    PROVE  /\ IsFiniteSet(Pairs(At(q, t))) /\ Cardinality(Pairs(At(q, t))) \in Nat
           /\ Cardinality(Pairs(At(q, t))) = 0 <=> NoneIn(q, t)
           /\ Pairs(At(q, t)) = {} <=> NoneIn(q, t)
<1>1. IsFiniteSet(Pairs(At(q, t)))
  BY AtIs, PairsFinite
<1>2. Pairs(At(q, t)) = {} <=> \A p \in Partitions : At(q, t)[p] = {}
  <2>1. ASSUME NEW x \in Pairs(At(q, t)) PROVE \E p \in Partitions : At(q, t)[p] # {}
    <3>1. x[1] \in Partitions /\ x[2] \in At(q, t)[x[1]]
      BY PairsAre
    <3> QED
      BY <3>1
  <2>2. ASSUME NEW p \in Partitions, NEW k \in At(q, t)[p] PROVE <<p, k>> \in Pairs(At(q, t))
    BY PairsAre
  <2> QED
    BY <2>1, <2>2
<1>3. Pairs(At(q, t)) = {} <=> NoneIn(q, t)
  <2>1. \A p \in Partitions : At(q, t)[p] = {k \in 1..Len(q[p]) : q[p][k] = t}
    BY AtIs
  <2> QED
    BY <1>2, <2>1 DEF NoneIn
<1> QED
  BY <1>1, <1>3, FS_EmptySet, FS_CardinalityType

\* What no ack has settled are such pairs.
LEMMA UnsettledAre ==
    ASSUME NEW t
    PROVE  /\ Unsettled(t) = Pairs(At(queue, t))
           /\ Unsettled(t)' = Pairs(At(queue', t))
BY DEF Unsettled, Pairs, At

\* A queue with n messages of t appended.
LEMMA Padded ==
    ASSUME NEW s \in Seq(Traces), NEW n \in Nat, NEW t \in Traces
    PROVE  /\ s \o Copies(n, t) \in Seq(Traces) /\ Len(s \o Copies(n, t)) = Len(s) + n
           /\ \A k \in 1..Len(s) : (s \o Copies(n, t))[k] = s[k]
           /\ \A k \in Len(s) + 1..Len(s) + n : (s \o Copies(n, t))[k] = t
<1>1. Copies(n, t) \in Seq(Traces) /\ Len(Copies(n, t)) = n /\ \A k \in 1..n : Copies(n, t)[k] = t
  BY DEF Copies
<1>2. ASSUME NEW b \in Seq(Traces), Len(b) = n, \A k \in 1..n : b[k] = t
      PROVE  /\ s \o b \in Seq(Traces) /\ Len(s \o b) = Len(s) + n
             /\ \A k \in 1..Len(s) : (s \o b)[k] = s[k]
             /\ \A k \in Len(s) + 1..Len(s) + n : (s \o b)[k] = t
  <2>1. /\ s \o b \in Seq(Traces) /\ Len(s \o b) = Len(s) + Len(b)
        /\ \A k \in 1..Len(s) + Len(b) : (s \o b)[k] = IF k <= Len(s) THEN s[k] ELSE b[k - Len(s)]
    BY ConcatProperties, Zenon
  <2>2. Len(s) \in Nat
    OBVIOUS
  <2>3. \A k \in 1..Len(s) : (s \o b)[k] = s[k]
    BY <1>2, <2>1, <2>2
  <2>4. ASSUME NEW k \in Len(s) + 1..Len(s) + n PROVE (s \o b)[k] = t
    <3>1. k \in 1..Len(s) + Len(b) /\ ~(k <= Len(s)) /\ k - Len(s) \in 1..n
      BY <1>2, <2>2
    <3> QED
      BY <1>2, <2>1, <3>1
  <2> QED
    BY <1>2, <2>1, <2>3, <2>4
<1> QED
  BY <1>1, <1>2

\* The queues r are q with t's batch appended, or without n messages of p.
Enqueues(r, q, t) ==
    /\ r = [p \in Partitions |-> r[p]]
    /\ \A p \in Partitions : r[p] = q[p] \o Copies(Spread[t][p], t)
Settles(r, q, p, n) == r = [q EXCEPT ![p] = SubSeq(q[p], n + 1, Len(q[p]))]

\* The queues r have t's entities after what q has, and nothing else is new.
Extended(r, q, t) ==
    /\ r \in [Partitions -> Seq(Traces)]
    /\ Cardinality(Pairs(At(r, t))) = Entities(t)
    /\ \A u \in Traces : u # t => At(r, u) = At(q, u)
    /\ \A p \in Partitions : /\ Len(r[p]) = Len(q[p]) + Spread[t][p]
                             /\ \A k \in 1..Len(q[p]) : r[p][k] = q[p][k]
                             /\ \A k \in Len(q[p]) + 1..Len(r[p]) : r[p][k] = t

\* A batch that is appended to the queues adds its entities, and to no other trace.
LEMMA Appended ==
    ASSUME NEW q \in [Partitions -> Seq(Traces)], NEW t \in Traces,
           NoneIn(q, t), NEW r, Enqueues(r, q, t)
    PROVE  Extended(r, q, t)
<1> DEFINE F == [p \in Partitions |-> 1..Spread[t][p]]
           d == [p \in Partitions |-> Len(q[p])]
<1>1. ASSUME NEW p \in Partitions
      PROVE  /\ r[p] \in Seq(Traces) /\ Len(r[p]) = Len(q[p]) + Spread[t][p]
             /\ \A k \in 1..Len(q[p]) : r[p][k] = q[p][k]
             /\ \A k \in Len(q[p]) + 1..Len(r[p]) : r[p][k] = t
  <2>1. Spread[t][p] \in Nat /\ q[p] \in Seq(Traces)
    OBVIOUS
  <2> DEFINE x == q[p] \o Copies(Spread[t][p], t)
  <2>3. /\ x \in Seq(Traces) /\ Len(x) = Len(q[p]) + Spread[t][p]
        /\ \A k \in 1..Len(q[p]) : x[k] = q[p][k]
        /\ \A k \in Len(q[p]) + 1..Len(q[p]) + Spread[t][p] : x[k] = t
    BY <2>1, Padded, Zenon
  <2> HIDE DEF x
  <2>4. r[p] = x
    BY DEF x, Enqueues
  <2> QED
    BY <2>3, <2>4
<1>0. r \in [Partitions -> Seq(Traces)]
  BY <1>1 DEF Enqueues
<1>2. ASSUME NEW p \in Partitions PROVE At(r, t)[p] = {k + d[p] : k \in F[p]}
  <2>3. F[p] = 1..Spread[t][p] /\ d[p] = Len(q[p]) /\ Spread[t][p] \in Nat
    OBVIOUS
  <2> HIDE DEF F, d
  <2>1. \A k \in 1..Len(q[p]) : q[p][k] # t
    BY DEF NoneIn
  <2>2. At(r, t)[p] = {k \in 1..Len(r[p]) : r[p][k] = t} /\ Len(r[p]) \in Nat /\ Len(q[p]) \in Nat
    <3>1. At(r, t)[p] = {k \in 1..Len(r[p]) : r[p][k] = t} /\ Len(r[p]) \in Nat
      BY <1>1 DEF At
    <3> QED
      BY <3>1
  <2>4. At(r, t)[p] = Len(q[p]) + 1..Len(r[p])
    <3>1. ASSUME NEW k \in At(r, t)[p] PROVE k \in Len(q[p]) + 1..Len(r[p])
      <4>1. k \in 1..Len(r[p]) /\ r[p][k] = t
        BY <2>2
      <4>2. k \notin 1..Len(q[p])
        BY <4>1, <1>1, <2>1
      <4> QED
        BY <4>1, <4>2, <2>2
    <3>2. ASSUME NEW k \in Len(q[p]) + 1..Len(r[p]) PROVE k \in At(r, t)[p]
      BY <1>1, <2>2
    <3> QED
      BY <3>1, <3>2
  <2>5. ASSUME NEW k \in Len(q[p]) + 1..Len(r[p]) PROVE k \in {j + d[p] : j \in F[p]}
    <3>1. k - Len(q[p]) \in 1..Spread[t][p] /\ k = (k - Len(q[p])) + Len(q[p])
      BY <1>1, <2>2, <2>3
    <3> QED
      BY <2>3, <3>1
  <2>6. ASSUME NEW j \in F[p] PROVE j + d[p] \in Len(q[p]) + 1..Len(r[p])
    BY <1>1, <2>2, <2>3
  <2> QED
    BY <2>4, <2>5, <2>6
<1>3. Cardinality(Pairs(At(r, t))) = Cardinality(Pairs(F))
  <2>1. \A p \in Partitions : F[p] \subseteq Int /\ IsFiniteSet(F[p])
    BY FS_Interval
  <2>2. d \in [Partitions -> Int]
    OBVIOUS
  <2> HIDE DEF F, d
  <2> QED
    BY <1>2, <2>1, <2>2, PairsMoved
<1>4. Pairs(F) = UNION {{p} \X (1..Spread[t][p]) : p \in Partitions}
  BY DEF Pairs
<1>5. ASSUME NEW u \in Traces, u # t PROVE At(r, u) = At(q, u)
  <2>1. ASSUME NEW p \in Partitions
        PROVE  {k \in 1..Len(r[p]) : r[p][k] = u} = {k \in 1..Len(q[p]) : q[p][k] = u}
    <3>1. Spread[t][p] \in Nat /\ Len(q[p]) \in Nat
      OBVIOUS
    <3>2. ASSUME NEW k \in 1..Len(r[p]), r[p][k] = u PROVE k \in 1..Len(q[p])
      <4>1. k \notin Len(q[p]) + 1..Len(r[p])
        BY <1>1, <1>5, <3>2
      <4> QED
        BY <1>1, <3>1, <4>1
    <3>3. ASSUME NEW k \in 1..Len(q[p]) PROVE k \in 1..Len(r[p]) /\ r[p][k] = q[p][k]
      BY <1>1, <3>1
    <3> QED
      BY <3>2, <3>3
  <2> QED
    BY <2>1 DEF At
<1> HIDE DEF F, d
<1> QED
  BY <1>0, <1>1, <1>3, <1>4, <1>5 DEF Entities, Extended

\* The queues r lack the first n messages of p, and with them those of t.
Shortened(r, q, p, n, t) ==
    /\ r \in [Partitions -> Seq(Traces)]
    /\ Cardinality(Pairs(At(r, t)))
         = Cardinality(Pairs(At(q, t))) - Cardinality({k \in 1..n : q[p][k] = t})
    /\ \A k \in 1..Len(r[p]) : r[p][k] = q[p][k + n]
    /\ Len(r[p]) = Len(q[p]) - n

\* An ack that settles a prefix takes that much off the count.
LEMMA Acked ==
    ASSUME NEW q \in [Partitions -> Seq(Traces)], NEW p \in Partitions, NEW t \in Traces,
           NEW n \in Nat, n <= Len(q[p]),
           NEW r, Settles(r, q, p, n)
    PROVE  Shortened(r, q, p, n, t)
<1> DEFINE gone == {k \in 1..n : q[p][k] = t}
           F == [s \in Partitions |-> IF s = p THEN At(q, t)[p] \ gone ELSE At(q, t)[s]]
           d == [s \in Partitions |-> IF s = p THEN 0 - n ELSE 0]
<1>1. /\ r \in [Partitions -> Seq(Traces)]
      /\ Len(r[p]) = Len(q[p]) - n /\ Len(q[p]) \in Nat
      /\ \A k \in 1..Len(r[p]) : r[p][k] = q[p][k + n]
      /\ \A s \in Partitions : s # p => r[s] = q[s]
  BY DEF Settles
<1>2. IsFiniteSet(gone) /\ Cardinality(gone) \in Nat
  <2>1. gone \subseteq 1..n
    OBVIOUS
  <2>2. 1 \in Int /\ n \in Int
    OBVIOUS
  <2> HIDE DEF gone
  <2> QED
    BY <2>1, <2>2, Bounded, Zenon
<1>3. /\ F[p] = At(q, t)[p] \ gone /\ d[p] = 0 - n
      /\ \A s \in Partitions : s # p => F[s] = At(q, t)[s] /\ d[s] = 0
      /\ d \in [Partitions -> Int]
  OBVIOUS
<1>4. /\ At(q, t)[p] = {k \in 1..Len(q[p]) : q[p][k] = t}
      /\ At(r, t)[p] = {k \in 1..Len(r[p]) : r[p][k] = t}
      /\ \A s \in Partitions : s # p => At(r, t)[s] = At(q, t)[s]
  BY <1>1 DEF At
<1>5. \A s \in Partitions : F[s] \subseteq Int /\ IsFiniteSet(F[s])
  BY <1>3, AtIs, FS_Difference
<1>6. \A k : k \in gone <=> k \in 1..n /\ q[p][k] = t
  OBVIOUS
<1> HIDE DEF gone, F, d
<1>7. F[p] = {k \in n + 1..Len(q[p]) : q[p][k] = t}
  BY <1>1, <1>3, <1>4, <1>6
<1>8. ASSUME NEW s \in Partitions PROVE At(r, t)[s] = {k + d[s] : k \in F[s]}
  <2>1. ASSUME NEW k \in At(r, t)[p] PROVE k \in {j + d[p] : j \in F[p]}
    <3>0. k \in 1..Len(r[p]) /\ r[p][k] = t /\ r[p][k] = q[p][k + n]
      BY <1>1, <1>4
    <3>1. k + n \in F[p] /\ k = (k + n) + (0 - n)
      BY <1>1, <1>7, <3>0
    <3> QED
      BY <3>1, <1>3
  <2>2. ASSUME NEW j \in F[p] PROVE j + d[p] \in At(r, t)[p]
    <3>1. j + d[p] = j - n /\ j - n \in 1..Len(r[p]) /\ (j - n) + n = j /\ q[p][j] = t
      BY <1>1, <1>3, <1>7
    <3> QED
      BY <1>1, <1>4, <3>1
  <2>3. CASE s = p
    BY <2>1, <2>2, <2>3
  <2>4. CASE s # p
    <3>1. At(r, t)[s] = F[s] /\ d[s] = 0 /\ F[s] \subseteq Int
      BY <2>4, <1>3, <1>4, <1>5
    <3> QED
      BY <3>1
  <2> QED
    BY <2>3, <2>4
<1>9. Cardinality(Pairs(At(r, t))) = Cardinality(Pairs(F))
  BY <1>3, <1>5, <1>8, PairsMoved
<1>10. Pairs(F) = Pairs(At(q, t)) \ ({p} \X gone)
  <2>1. ASSUME NEW s \in Partitions, NEW k
        PROVE  <<s, k>> \in Pairs(F) <=> <<s, k>> \in Pairs(At(q, t)) /\ <<s, k>> \notin {p} \X gone
    <3>1. <<s, k>> \in Pairs(F) <=> k \in F[s]
      BY PairsAre
    <3>2. <<s, k>> \in Pairs(At(q, t)) <=> k \in At(q, t)[s]
      BY PairsAre
    <3>3. <<s, k>> \in {p} \X gone <=> s = p /\ k \in gone
      OBVIOUS
    <3> QED
      BY <1>3, <3>1, <3>2, <3>3
  <2>2. ASSUME NEW x \in Pairs(F) PROVE x \in Pairs(At(q, t)) \ ({p} \X gone)
    BY <2>1, <2>2, PairsAre
  <2>3. ASSUME NEW x \in Pairs(At(q, t)), x \notin {p} \X gone PROVE x \in Pairs(F)
    <3>1. x = <<x[1], x[2]>> /\ x[1] \in Partitions
      BY PairsAre
    <3> QED
      BY <2>1, <2>3, <3>1
  <2> QED
    BY <2>2, <2>3
<1>11. Pairs(At(q, t)) \cap ({p} \X gone) = {p} \X gone
  <2>1. ASSUME NEW x \in {p} \X gone PROVE x \in Pairs(At(q, t))
    <3>1. x = <<p, x[2]>> /\ x[2] \in gone
      OBVIOUS
    <3>2. x[2] \in At(q, t)[p]
      BY <1>1, <1>4, <1>6, <3>1
    <3> QED
      BY <3>1, <3>2, PairsAre
  <2> QED
    BY <2>1
<1>12. Cardinality({p} \X gone) = Cardinality(gone)
  <2>1. IsFiniteSet({p}) /\ Cardinality({p}) = 1
    BY FS_Singleton
  <2>2. Cardinality({p} \X gone) = Cardinality({p}) * Cardinality(gone)
    BY <1>2, <2>1, FS_Product
  <2> QED
    BY <1>2, <2>1, <2>2
<1>13. IsFiniteSet(Pairs(At(q, t)))
  BY AtIs, PairsFinite
<1>14. Cardinality(Pairs(F)) = Cardinality(Pairs(At(q, t))) - Cardinality(gone)
  <2>1. Cardinality(Pairs(At(q, t)) \ ({p} \X gone))
          = Cardinality(Pairs(At(q, t))) - Cardinality(Pairs(At(q, t)) \cap ({p} \X gone))
    BY <1>13, FS_Difference
  <2> QED
    BY <1>10, <1>11, <1>12, <2>1
<1> QED
  BY <1>1, <1>9, <1>14 DEF gone, Shortened

-----------------------------------------------------------------------------
(* What a step leaves alone.                                               *)

\* The rows are right as long as neither they nor the queues change.
LEMMA TableFrame ==
    ASSUME TableInv, UNCHANGED <<row, queue, failed>> PROVE TableInv'
<1>1. \A t \in Traces : Unsettled(t)' = Unsettled(t) /\ (Settled(t)' <=> Settled(t))
  BY DEF Unsettled, Settled, NoneIn
<1> QED
  BY <1>1 DEF TableInv, AbsentInv, PendingInv, CountdownExact

\* An ack's statements stay right while it and its queue are left alone.
LEMMA PlanFrame ==
    ASSUME PlanInv, UNCHANGED <<deploy, queue, worker, plan, taken, upto>> PROVE PlanInv'
BY DEF PlanInv

\* Nor does it matter to them what is appended to the queue.
LEMMA PlanKept ==
    ASSUME NEW q, NEW r, NEW n \in Nat, NEW w, NEW P, NEW T, NEW partial,
           Lawful(q, n, w, P, T, partial), n <= Len(r), \A k \in 1..n : r[k] = q[k]
    PROVE  Lawful(r, n, w, P, T, partial)
<1>1. \A u : {k \in 1..n : r[k] = u} = {k \in 1..n : q[k] = u}
  OBVIOUS
<1>2. ASSUME NEW x \in P, x.phase = 1
      PROVE  /\ x.terminal = Cardinality({k \in 1..n : r[k] = x.trace})
             /\ \E k \in 1..n : r[k] = x.trace
  <2>1. /\ x.terminal = Cardinality({k \in 1..n : q[k] = x.trace})
        /\ \E k \in 1..n : q[k] = x.trace
    BY <1>2 DEF Lawful
  <2> QED
    BY <1>1, <2>1
<1>3. \A k \in 1..n : \E x \in P : x.phase = 1 /\ x.trace = r[k]
  BY DEF Lawful
<1> QED
  BY <1>2, <1>3 DEF Lawful

\* What is in hand stays true while the rows do.
LEMMA HandFrame ==
    ASSUME HandInv, UNCHANGED <<row, queue, failed, hand, sends>> PROVE HandInv'
BY DEF HandInv, Settled, NoneIn

\* What a channel says stays true while the rows do.
LEMMA ChanFrame ==
    ASSUME ChanInv, UNCHANGED <<row, queue, failed, sub, chan>> PROVE ChanInv'
BY DEF ChanInv, Settled, NoneIn

\* The registry is right while it and the channels are left alone.
LEMMA RegistryFrame ==
    ASSUME RegistryInv, UNCHANGED <<entries, closed, sub, chan>> PROVE RegistryInv'
BY DEF RegistryInv, EntryInv, NewestRegistered

\* A stamped completion stays in hand while nobody delivers it.
LEMMA StampedFrame ==
    ASSUME StampedInHand, UNCHANGED <<row, entries, sub, hand>> PROVE StampedInHand'
BY DEF StampedInHand

\* Nothing is there at the start.
LEMMA InitInd == Init => IndInv
<1> SUFFICES ASSUME Init PROVE IndInv
  OBVIOUS
<1> USE DEF Init
<1>1. Shape
  BY DEF Shape, NoRow, Rows, Subscriptions
<1>2. PlanInv
  <2>1. ASSUME NEW p \in Partitions PROVE upto[p] = 0 /\ plan[p] = {} /\ taken[p] = {} /\ Len(queue[p]) = 0
    OBVIOUS
  <2> QED
    BY <2>1 DEF PlanInv, Lawful
<1>3. TableInv
  BY DEF TableInv, AbsentInv, PendingInv, CountdownExact, NoRow, Settled, NoneIn
<1>4. HandInv /\ ChanInv /\ StampedInHand
  BY DEF HandInv, ChanInv, StampedInHand
<1>5. RegistryInv
  BY DEF RegistryInv, EntryInv, NewestRegistered, Subs
<1> QED
  BY <1>1, <1>2, <1>3, <1>4, <1>5 DEF IndInv

USE DEF ackVars, repVars, subVars

\* Steps of the notifier's and the reporter's reading, of the sweeper's aging and
\* choosing touch nothing the invariant is about.
LEMMA ReadInd ==
    ASSUME IndInv, UNCHANGED <<deploy, row, queue, ackVars, hand, subVars, failed, sends>>,
           page' \in [Instances -> SUBSET Traces], rpage' \in [Instances -> SUBSET Traces],
           faults' \in 0..MaxFaults
    PROVE  IndInv'
<1>1. Shape'
  BY DEF IndInv, Shape
<1> QED
  BY <1>1, TableFrame, PlanFrame, HandFrame, ChanFrame, RegistryFrame, StampedFrame DEF IndInv

\* The notifier and the reporter read.
LEMMA ReadersInd ==
    ASSUME IndInv, UNCHANGED deploy, NEW i \in Instances,
           \/ NotifierRead(i) \/ NotifierFails(i) \/ ReporterRead(i) \/ ReporterClone(i)
           \/ ReporterDone(i)
    PROVE  IndInv'
<1>1. /\ page \in [Instances -> SUBSET Traces] /\ rpage \in [Instances -> SUBSET Traces]
      /\ faults \in 0..MaxFaults
  BY DEF IndInv, Shape
<1>2. CASE NotifierRead(i)
  <2>1. page' \in [Instances -> SUBSET Traces]
    BY <1>1, <1>2 DEF NotifierRead, Pages
  <2> QED
    BY <1>1, <1>2, <2>1, ReadInd DEF NotifierRead
<1>3. CASE NotifierFails(i)
  <2>1. page' \in [Instances -> SUBSET Traces] /\ faults' \in 0..MaxFaults
    BY <1>1, <1>3 DEF NotifierFails, Fault
  <2> QED
    BY <1>1, <1>3, <2>1, ReadInd DEF NotifierFails
<1>4. CASE ReporterRead(i)
  <2>1. rpage' \in [Instances -> SUBSET Traces]
    BY <1>1, <1>4 DEF ReporterRead, Pages
  <2> QED
    BY <1>1, <1>4, <2>1, ReadInd DEF ReporterRead
<1>5. CASE ReporterClone(i) \/ ReporterDone(i)
  BY <1>1, <1>5, ReadInd DEF ReporterClone, ReporterDone
<1> QED
  BY <1>2, <1>3, <1>4, <1>5

\* Rows get old and are selected.
LEMMA SweepersInd ==
    ASSUME IndInv, UNCHANGED deploy,
           \/ SweepSelect
           \/ \E t \in Traces, what \in {"created", "completed", "notified"} : Age(t, what)
    PROVE  IndInv'
<1>1. /\ page \in [Instances -> SUBSET Traces] /\ rpage \in [Instances -> SUBSET Traces]
      /\ faults \in 0..MaxFaults
  BY DEF IndInv, Shape
<1>2. CASE SweepSelect
  BY <1>1, <1>2, ReadInd DEF SweepSelect
<1>3. ASSUME NEW t \in Traces, NEW what, Age(t, what) PROVE IndInv'
  BY <1>1, <1>3, ReadInd DEF Age
<1> QED
  BY <1>2, <1>3

-----------------------------------------------------------------------------
(* The registry.                                                           *)

\* A subscription that was taken has a trace and can change its state.
LEMMA Taken ==
    ASSUME Shape, NEW g \in Subs, sub[g].state # "none"
    PROVE  /\ sub[g].trace \in Traces
           /\ \A s \in {"waiting", "dropped", "told", "None"} :
                LET x == [sub[g] EXCEPT !.state = s] IN
                /\ x \in Subscriptions /\ x.state = s
                /\ x.trace = sub[g].trace /\ x.early = sub[g].early
<1>1. sub[g] \in [state : {"waiting", "dropped", "told", "None"}, trace : Traces, wants : BOOLEAN,
                  early : BOOLEAN]
  BY DEF Shape, Subscriptions
<1> QED
  BY <1>1 DEF Subscriptions

\* A new generation takes the place of an earlier one.
LEMMA SubscribeInd ==
    ASSUME IndInv, UNCHANGED deploy, NEW g \in Subs, NEW t \in Traces, NEW wants \in BOOLEAN,
           Subscribe(g, t, wants)
    PROVE  IndInv'
<1> DEFINE x == [state |-> "waiting", trace |-> t, wants |-> wants, early |-> row[t].is = "absent"]
<1> USE DEF Subscribe, IndInv
<1>1. /\ sub' \in [Subs -> Subscriptions] /\ sub'[g] = x
      /\ \A h \in Subs \ {g} : sub'[h] = sub[h]
  <2>1. x \in Subscriptions
    BY DEF Subscriptions
  <2> QED
    BY <2>1 DEF Shape
<1>2. /\ entries' \in [Traces -> Subs \cup {None}]
      /\ \A u \in Traces \ {t} : entries'[u] = entries[u]
      /\ entries'[t] = IF closed[Owner[t]] THEN entries[t] ELSE g
  BY DEF Shape
<1>3. chan[g].state # "Completed"
  BY DEF ChanInv
<1>4. \A h \in Subs : h > g => sub[h].state = "none"
  BY DEF RegistryInv, EntryInv, Subs
<1>5. x.state = "waiting" /\ x.trace = t /\ x.early = (row[t].is = "absent")
  OBVIOUS
<1> HIDE DEF x
<1>6. Shape'
  BY <1>1, <1>2 DEF Shape
<1>7. PlanInv' /\ TableInv' /\ HandInv'
  BY PlanFrame, TableFrame, HandFrame
<1>8. ChanInv'
  BY <1>1, <1>3 DEF ChanInv, Settled, NoneIn
<1>9. EntryInv'
  <2>1. ASSUME NEW u \in Traces, entries'[u] # None
        PROVE  /\ sub'[entries'[u]].state = "waiting" /\ sub'[entries'[u]].trace = u
               /\ chan[entries'[u]].state # "Completed" /\ ~closed[Owner[u]]
    <3>1. CASE entries'[u] = entries[u]
      <4>1. entries[u] \in Subs /\ entries[u] # g
        BY <2>1, <3>1 DEF Shape, RegistryInv, EntryInv
      <4> QED
        BY <1>1, <2>1, <3>1, <4>1 DEF RegistryInv, EntryInv
    <3>2. CASE entries'[u] # entries[u]
      BY <1>1, <1>2, <1>3, <1>5, <3>2
    <3> QED
      BY <3>1, <3>2
  <2>2. ASSUME NEW h \in Subs, NEW k \in 1..h, sub'[h].state # "none" PROVE sub'[k].state # "none"
    <3>1. k \in Subs /\ k \in Int /\ h \in Int /\ g \in Int
      BY DEF Subs
    <3>2. CASE h = g
      <4>1. CASE k = g
        BY <1>1, <1>5, <4>1
      <4>2. CASE k # g
        <5>1. k \in 1..g - 1
          BY <3>1, <3>2, <4>2
        <5> QED
          BY <1>1, <3>1, <4>2, <5>1
      <4> QED
        BY <4>1, <4>2
    <3>3. CASE h # g
      BY <1>1, <1>5, <2>2, <3>1, <3>3 DEF RegistryInv, EntryInv
    <3> QED
      BY <3>2, <3>3
  <2> QED
    BY <2>1, <2>2 DEF EntryInv
<1>10. NewestRegistered'
  <2> SUFFICES ASSUME NEW h \in Subs, sub'[h].state = "waiting",
                      \A k \in Subs : k > h /\ sub'[k].state # "none" => sub'[k].trace # sub'[h].trace,
                      ~closed[Owner[sub'[h].trace]]
               PROVE  entries'[sub'[h].trace] = h \/ chan[h].state = "Completed"
    BY DEF NewestRegistered
  <2>1. CASE h = g
    BY <1>1, <1>2, <1>5, <2>1
  <2>2. CASE h # g
    <3>0. h \in Int /\ g \in Int
      BY DEF Subs
    <3>1. h < g
      BY <1>1, <1>4, <2>2, <3>0
    <3>2. sub[h] = sub'[h] /\ sub[h].trace \in Traces /\ sub[h].trace # t
      BY <1>1, <1>5, <2>2, <3>0, <3>1, Taken
    <3>3. \A k \in Subs : k > h /\ sub[k].state # "none" => sub[k].trace # sub[h].trace
      BY <1>1, <3>2
    <3>4. entries[sub[h].trace] = h \/ chan[h].state = "Completed"
      BY <3>2, <3>3 DEF RegistryInv, NewestRegistered
    <3> QED
      BY <1>2, <3>2, <3>4
  <2> QED
    BY <2>1, <2>2
<1>11. StampedInHand'
  <2> SUFFICES ASSUME NEW u \in Traces, row[u].notified, entries'[u] # None, sub'[entries'[u]].early
               PROVE  \E o \in hand : o.trace = u /\ o.at = Owner[u]
    BY DEF StampedInHand
  <2>1. CASE entries'[u] = entries[u]
    <3>1. entries[u] \in Subs /\ entries[u] # g
      BY <2>1 DEF Shape, RegistryInv, EntryInv
    <3> QED
      BY <1>1, <2>1, <3>1 DEF StampedInHand
  <2>2. CASE entries'[u] # entries[u]
    <3>1. row[t] = NoRow /\ u = t
      BY <1>1, <1>2, <1>5, <2>2 DEF TableInv, AbsentInv
    <3> QED
      BY <3>1 DEF NoRow
  <2> QED
    BY <2>1, <2>2
<1> QED
  BY <1>6, <1>7, <1>8, <1>9, <1>10, <1>11 DEF RegistryInv

\* A subscription ends: the caller drops it, or it is answered.
LEMMA LeaveInd ==
    ASSUME IndInv, NEW g \in Subs, NEW s \in {"dropped", "told", "None"},
           sub[g].state = "waiting", sub' = [sub EXCEPT ![g].state = s], Release(sub[g].trace, g),
           UNCHANGED <<deploy, row, queue, ackVars, hand, page, closed, chan, rpage, failed, sends, faults>>
    PROVE  IndInv'
<1> USE DEF Release, IndInv
<1>1. /\ sub' \in [Subs -> Subscriptions] /\ sub[g].trace \in Traces
      /\ sub'[g].state = s /\ sub'[g].trace = sub[g].trace
      /\ \A h \in Subs \ {g} : sub'[h] = sub[h]
  <2>1. sub' = [sub EXCEPT ![g] = [sub[g] EXCEPT !.state = s]]
    OBVIOUS
  <2>2. /\ sub[g].trace \in Traces /\ [sub[g] EXCEPT !.state = s] \in Subscriptions
        /\ [sub[g] EXCEPT !.state = s].state = s /\ [sub[g] EXCEPT !.state = s].trace = sub[g].trace
    BY Taken
  <2> QED
    BY <2>1, <2>2 DEF Shape
<1>2. /\ entries' \in [Traces -> Subs \cup {None}]
      /\ \A u \in Traces : entries'[u] = IF entries[u] = g THEN None ELSE entries[u]
  <2>1. \A u \in Traces : entries[u] = g => u = sub[g].trace
    <3>1. g # None
      BY DEF Subs
    <3> QED
      BY <3>1 DEF RegistryInv, EntryInv
  <2> QED
    BY <1>1, <2>1 DEF Shape
<1>3. Shape'
  BY <1>1, <1>2 DEF Shape
<1>4. PlanInv' /\ TableInv' /\ HandInv'
  BY PlanFrame, TableFrame, HandFrame
<1>5. ChanInv'
  <2>1. \A h \in Subs : sub'[h].trace = sub[h].trace \/ sub[h].state = "none"
    BY <1>1
  <2> QED
    BY <1>1, <2>1 DEF ChanInv, Settled, NoneIn
<1>6. EntryInv'
  <2>1. ASSUME NEW u \in Traces, entries'[u] # None
        PROVE  entries'[u] = entries[u] /\ entries[u] \in Subs \ {g}
    BY <1>2, <2>1 DEF Shape
  <2>2. \A h \in Subs : sub'[h].state = "none" <=> sub[h].state = "none"
    BY <1>1
  <2>3. \A h \in Subs : \A k \in 1..h : k \in Subs
    BY DEF Subs
  <2> QED
    BY <1>1, <2>1, <2>2, <2>3 DEF RegistryInv, EntryInv
<1>7. NewestRegistered'
  <2> SUFFICES ASSUME NEW h \in Subs, sub'[h].state = "waiting",
                      \A k \in Subs : k > h /\ sub'[k].state # "none" => sub'[k].trace # sub'[h].trace,
                      ~closed[Owner[sub'[h].trace]]
               PROVE  entries'[sub'[h].trace] = h \/ chan[h].state = "Completed"
    BY DEF NewestRegistered
  <2>1. h # g /\ sub'[h] = sub[h] /\ sub[h].trace \in Traces
    BY <1>1, Taken
  <2>2. \A k \in Subs : k > h /\ sub[k].state # "none" => sub[k].trace # sub[h].trace
    BY <1>1, <2>1
  <2>3. entries[sub[h].trace] = h \/ chan[h].state = "Completed"
    BY <2>1, <2>2 DEF RegistryInv, NewestRegistered
  <2> QED
    BY <1>2, <2>1, <2>3
<1>8. StampedInHand'
  <2>1. ASSUME NEW u \in Traces, entries'[u] # None
        PROVE  entries'[u] = entries[u] /\ sub'[entries[u]] = sub[entries[u]]
    BY <1>1, <1>2, <2>1 DEF Shape
  <2> QED
    BY <2>1 DEF StampedInHand
<1> QED
  BY <1>3, <1>4, <1>5, <1>6, <1>7, <1>8 DEF RegistryInv

\* The caller drops a subscription, or its wait is over.
LEMMA SubscriberInd ==
    ASSUME IndInv, UNCHANGED deploy, NEW g \in Subs, DropSub(g) \/ Resolve(g)
    PROVE  IndInv'
BY LeaveInd DEF DropSub, Resolve

\* The instance closes its registry.
LEMMA CloseInd ==
    ASSUME IndInv, UNCHANGED deploy, NEW i \in Instances, Close(i)
    PROVE  IndInv'
<1> USE DEF Close, IndInv
<1>1. /\ entries' \in [Traces -> Subs \cup {None}] /\ closed' \in [Instances -> BOOLEAN]
      /\ faults' \in 0..MaxFaults
      /\ \A t \in Traces : entries'[t] = IF Owner[t] = i THEN None ELSE entries[t]
      /\ \A t \in Traces : closed'[Owner[t]] = IF Owner[t] = i THEN TRUE ELSE closed[Owner[t]]
  <2>1. faults' \in 0..MaxFaults
    BY DEF Shape, Fault
  <2>2. closed \in [Instances -> BOOLEAN] /\ entries \in [Traces -> Subs \cup {None}]
    BY DEF Shape
  <2> QED
    BY <2>1, <2>2
<1>2. Shape'
  BY <1>1 DEF Shape
<1>3. PlanInv' /\ TableInv' /\ HandInv' /\ ChanInv'
  BY PlanFrame, TableFrame, HandFrame, ChanFrame
<1>4. RegistryInv'
  <2>1. EntryInv'
    BY <1>1 DEF RegistryInv, EntryInv
  <2>2. \A g \in Subs : sub[g].state = "waiting" => sub[g].trace \in Traces
    BY Taken
  <2>3. NewestRegistered'
    BY <1>1, <2>2 DEF RegistryInv, NewestRegistered
  <2> QED
    BY <2>1, <2>3 DEF RegistryInv
<1>5. StampedInHand'
  BY <1>1 DEF StampedInHand
<1> QED
  BY <1>2, <1>3, <1>4, <1>5

-----------------------------------------------------------------------------
(* Deliveries, claims and reports.                                         *)

\* An outcome is delivered to the entry of its trace, or discarded.
LEMMA DeliverInd ==
    ASSUME IndInv, UNCHANGED deploy, NEW o \in hand, Deliver(o)
    PROVE  IndInv'
<1> DEFINE t == o.trace
           g == entries[t]
           found == o.at = Owner[t] /\ g # None
<1> USE DEF Deliver, IndInv
<1>1. t \in Traces /\ (found => g \in Subs)
  BY DEF Shape, Outcomes
<1>2. Shape'
  <2>1. CASE found
    <3>1. DOMAIN chan' = Subs /\ \A h \in Subs : chan'[h].state \in {"InFlight", "Retrying", "Completed"}
      <4>1. chan' = [chan EXCEPT ![g] = [state |-> "Completed", failures |-> o.failures]]
        BY <2>1
      <4> QED
        BY <1>1, <4>1 DEF Shape
    <3>2. sends' \in [Traces -> Nat] /\ entries' \in [Traces -> Subs \cup {None}]
      <4>1. sends' = [sends EXCEPT ![t] = sends[t] + 1] /\ entries' = [entries EXCEPT ![t] = None]
        BY <2>1
      <4>2. sends \in [Traces -> Nat] /\ entries \in [Traces -> Subs \cup {None}]
        BY DEF Shape
      <4> HIDE DEF t
      <4> QED
        BY <1>1, <4>1, <4>2
    <3> QED
      BY <3>1, <3>2 DEF Shape
  <2>2. CASE ~found
    BY <2>2 DEF Shape
  <2> QED
    BY <2>1, <2>2
<1>3. PlanInv' /\ TableInv'
  BY PlanFrame, TableFrame
<1>4. HandInv'
  <2>1. \A u \in hand' : u \in hand /\ u.trace # t
    BY DEF HandInv
  <2>2. \A u \in Traces : sends'[u] = IF found /\ u = t THEN 1 ELSE sends[u]
    BY <1>1 DEF HandInv, Shape
  <2>3. hand' \subseteq Outcomes
    BY <1>2 DEF Shape
  <2> QED
    <3>1. \A u \in hand' : u.trace \in Traces /\ sends'[u.trace] = sends[u.trace]
      BY <2>1, <2>2, <2>3 DEF Outcomes
    <3>2. row[t].notified /\ sends[t] = 0
      BY DEF HandInv
    <3> HIDE DEF t, found
    <3>3. \A u \in hand' : Settled(u.trace)' <=> Settled(u.trace)
      BY DEF Settled, NoneIn
    <3> QED
      BY <1>1, <2>1, <2>2, <3>1, <3>2, <3>3 DEF HandInv
<1>5. ChanInv' /\ RegistryInv' /\ StampedInHand'
  <2>1. CASE ~found
    <3>1. UNCHANGED <<chan, entries>>
      BY <2>1
    <3>2. ChanInv' /\ RegistryInv'
      BY <3>1, ChanFrame, RegistryFrame
    <3>3. StampedInHand'
      BY <2>1, <3>1 DEF StampedInHand
    <3> QED
      BY <3>2, <3>3
  <2>2. CASE found
    <3>1. /\ chan'[g] = [state |-> "Completed", failures |-> o.failures]
          /\ \A h \in Subs \ {g} : chan'[h] = chan[h]
          /\ entries'[t] = None /\ \A u \in Traces \ {t} : entries'[u] = entries[u]
      BY <1>1, <2>2 DEF Shape
    <3>2. sub[g].state = "waiting" /\ sub[g].trace = t
      BY <1>1, <2>2 DEF RegistryInv, EntryInv
    <3>3. Settled(t) /\ o.failures = failed[t] /\ row[t].is # "absent"
      BY DEF HandInv
    <3> HIDE DEF t, g, found
    <3>4. ChanInv'
      BY <1>1, <2>2, <3>1, <3>2, <3>3 DEF ChanInv, Settled, NoneIn
    <3>5. EntryInv'
      <4>1. ASSUME NEW u \in Traces, entries'[u] # None
            PROVE  u # t /\ entries'[u] = entries[u] /\ entries[u] \in Subs \ {g}
        <5>1. u # t /\ entries'[u] = entries[u] /\ entries[u] \in Subs
          BY <3>1, <4>1 DEF Shape
        <5>2. sub[entries[u]].trace = u
          BY <4>1, <5>1 DEF RegistryInv, EntryInv
        <5> QED
          BY <3>2, <5>1, <5>2
      <4> QED
        BY <3>1, <4>1 DEF RegistryInv, EntryInv
    <3>6. NewestRegistered'
      <4> SUFFICES ASSUME NEW h \in Subs, sub[h].state = "waiting",
                          \A k \in Subs : k > h /\ sub[k].state # "none" => sub[k].trace # sub[h].trace,
                          ~closed[Owner[sub[h].trace]]
                   PROVE  entries'[sub[h].trace] = h \/ chan'[h].state = "Completed"
        BY DEF NewestRegistered
      <4>1. entries[sub[h].trace] = h \/ chan[h].state = "Completed"
        BY DEF RegistryInv, NewestRegistered
      <4>2. sub[h].trace \in Traces
        BY Taken
      <4>3. CASE h = g
        BY <3>1, <4>3
      <4>4. CASE h # g
        <5>1. entries[sub[h].trace] = h => sub[h].trace # t
          BY <4>4 DEF g
        <5> QED
          BY <3>1, <4>1, <4>2, <4>4, <5>1
      <4> QED
        BY <4>3, <4>4
    <3>7. StampedInHand'
      <4>1. ASSUME NEW u \in Traces, row[u].notified, entries'[u] # None, sub[entries'[u]].early
            PROVE  \E x \in hand' : x.trace = u /\ x.at = Owner[u]
        <5>1. u # t /\ entries'[u] = entries[u]
          BY <3>1, <4>1
        <5>2. PICK x \in hand : x.trace = u /\ x.at = Owner[u]
          BY <4>1, <5>1 DEF StampedInHand
        <5> QED
          BY <5>1, <5>2 DEF t
      <4> QED
        BY <4>1 DEF StampedInHand
    <3> QED
      BY <3>4, <3>5, <3>6, <3>7 DEF RegistryInv
  <2> QED
    BY <2>1, <2>2
<1> QED
  BY <1>2, <1>3, <1>4, <1>5

\* Reports change what a channel that is not completed says.
LEMMA ReportInd ==
    ASSUME IndInv, NEW g \in Subs, NEW s \in {"InFlight", "Retrying"},
           chan[g].state # "Completed", chan' = [chan EXCEPT ![g] = [state |-> s]],
           rpage' \in [Instances -> SUBSET Traces],
           UNCHANGED <<deploy, row, queue, ackVars, hand, page, entries, closed, sub, failed, sends, faults>>
    PROVE  IndInv'
<1> USE DEF IndInv
<1>1. /\ DOMAIN chan' = Subs /\ chan'[g].state = s
      /\ \A h \in Subs \ {g} : chan'[h] = chan[h]
  BY DEF Shape
<1>2. Shape'
  BY <1>1 DEF Shape
<1>3. PlanInv' /\ TableInv' /\ HandInv' /\ StampedInHand'
  BY PlanFrame, TableFrame, HandFrame, StampedFrame
<1>4. ChanInv'
  BY <1>1 DEF ChanInv, Settled, NoneIn
<1>5. \A h \in Subs : chan'[h].state = "Completed" <=> chan[h].state = "Completed"
  BY <1>1
<1>6. \A t \in Traces : entries[t] # None => entries[t] \in Subs
  BY DEF Shape
<1>7. RegistryInv'
  BY <1>5, <1>6 DEF RegistryInv, EntryInv, NewestRegistered
<1> QED
  BY <1>2, <1>3, <1>4, <1>7

\* The reporter publishes a retry or clears one.
LEMMA ReporterInd ==
    ASSUME IndInv, UNCHANGED deploy, NEW i \in Instances,
           \/ \E t \in Traces : ReporterPublish(i, t)
           \/ \E g \in Subs : ReporterClear(i, g)
    PROVE  IndInv'
<1>0. rpage \in [Instances -> SUBSET Traces] /\ page \in [Instances -> SUBSET Traces]
      /\ faults \in 0..MaxFaults
  BY DEF IndInv, Shape
<1>1. ASSUME NEW t \in Traces, ReporterPublish(i, t) PROVE IndInv'
  <2>1. rpage' \in [Instances -> SUBSET Traces]
    BY <1>0, <1>1 DEF ReporterPublish
  <2>2. CASE entries[t] # None /\ sub[entries[t]].wants
    <3>1. entries[t] \in Subs /\ chan[entries[t]].state # "Completed"
      <4>1. entries[t] \in Subs
        BY <2>2 DEF IndInv, Shape
      <4>2. chan[entries[t]].state # "Completed"
        BY <2>2 DEF IndInv, RegistryInv, EntryInv
      <4> QED
        BY <4>1, <4>2
    <3> QED
      BY <1>1, <2>1, <2>2, <3>1, ReportInd DEF ReporterPublish
  <2>3. CASE ~(entries[t] # None /\ sub[entries[t]].wants)
    BY <1>0, <1>1, <2>1, <2>3, ReadInd DEF ReporterPublish
  <2> QED
    BY <2>2, <2>3
<1>2. ASSUME NEW g \in Subs, ReporterClear(i, g) PROVE IndInv'
  <2>1. CASE chan[g].state = "Retrying"
    BY <1>0, <1>2, <2>1, ReportInd DEF ReporterClear, ClearRetrying
  <2>2. CASE chan[g].state # "Retrying"
    BY <1>0, <1>2, <2>2, ReadInd DEF ReporterClear, ClearRetrying
  <2> QED
    BY <2>1, <2>2
<1> QED
  BY <1>1, <1>2

\* Rows are swept, whatever they have become.
LEMMA SweepInd ==
    ASSUME IndInv, UNCHANGED deploy, SweepDelete
    PROVE  IndInv'
<1> USE DEF SweepDelete, IndInv
<1>1. /\ row' \in [Traces -> Rows]
      /\ \A t \in Traces : \/ row'[t] = row[t]
                           \/ /\ row'[t].is = "swept" /\ row'[t].pending = row[t].pending
                              /\ row'[t].notified = row[t].notified
  <2>1. row \in [Traces -> Rows]
    BY DEF Shape
  <2>2. ASSUME NEW r \in Rows
        PROVE  LET s == [r EXCEPT !.is = "swept"] IN
               s \in Rows /\ s.is = "swept" /\ s.pending = r.pending /\ s.notified = r.notified
    BY DEF Rows
  <2> QED
    BY <2>1, <2>2
<1>2. Shape'
  BY <1>1 DEF Shape
<1>3. PlanInv' /\ RegistryInv'
  BY PlanFrame, RegistryFrame
<1>4. TableInv'
  <2>1. \A t \in Traces : Unsettled(t)' = Unsettled(t) /\ (Settled(t)' <=> Settled(t))
    BY DEF Unsettled, Settled, NoneIn
  <2> QED
    BY <1>1, <2>1 DEF TableInv, AbsentInv, PendingInv, CountdownExact
<1>5. HandInv'
  <2>1. \A o \in hand : o.trace \in Traces /\ (Settled(o.trace)' <=> Settled(o.trace))
    BY DEF Shape, Outcomes, Settled, NoneIn
  <2> QED
    BY <1>1, <2>1 DEF HandInv
<1>6. ChanInv'
  <2>1. \A g \in Subs : sub[g].state # "none" => sub[g].trace \in Traces
    BY Taken
  <2> QED
    BY <1>1, <2>1 DEF ChanInv, Settled, NoneIn
<1>7. StampedInHand'
  BY <1>1 DEF StampedInHand
<1> QED
  BY <1>2, <1>3, <1>4, <1>5, <1>6, <1>7

\* The notifier stamps a completed row of its own, or finds it gone.
LEMMA NotifierInd ==
    ASSUME IndInv, UNCHANGED deploy, NEW i \in Instances, NEW t \in Traces, NotifierClaim(i, t)
    PROVE  IndInv'
<1> USE DEF NotifierClaim, IndInv
<1>1. page' \in [Instances -> SUBSET Traces]
  BY DEF Shape
<1>2. CASE ~Claimable(row[t], t, i)
  <2>1. rpage \in [Instances -> SUBSET Traces] /\ faults \in 0..MaxFaults
    BY DEF Shape
  <2> QED
    BY <1>1, <1>2, <2>1, ReadInd
<1>3. CASE Claimable(row[t], t, i)
  <2> DEFINE o == [by |-> i, at |-> i, trace |-> t, failures |-> row[t].failures]
  <2>1. /\ row[t].is = "present" /\ ~row[t].notified /\ Owner[t] = i /\ row[t].pending <= 0
        /\ row' = [row EXCEPT ![t].notified = TRUE] /\ hand' = hand \cup {o}
    BY <1>3 DEF Claimable
  <2>2. /\ row' \in [Traces -> Rows] /\ row'[t] = [row[t] EXCEPT !.notified = TRUE]
        /\ \A u \in Traces \ {t} : row'[u] = row[u]
        /\ row[t] \in Rows
    <3>1. row \in [Traces -> Rows]
      BY DEF Shape
    <3>2. [row[t] EXCEPT !.notified = TRUE] \in Rows
      BY <3>1 DEF Rows
    <3> QED
      BY <2>1, <3>1, <3>2
  <2>3. /\ row'[t].is = row[t].is /\ row'[t].pending = row[t].pending /\ row'[t].notified
        /\ row'[t].failures = row[t].failures /\ row'[t].completed = row[t].completed
    BY <2>2 DEF Rows
  <2>4. Settled(t) /\ row[t].failures = failed[t]
    <3>1. row[t].pending = Cardinality(Unsettled(t)) /\ row[t].failures = failed[t]
      BY <2>1 DEF TableInv, CountdownExact
    <3>2. Cardinality(Unsettled(t)) \in Nat /\ (Cardinality(Unsettled(t)) = 0 => Settled(t))
      <4>1. queue \in [Partitions -> Seq(Traces)]
        BY DEF Shape
      <4> QED
        BY <4>1, Counting, UnsettledAre DEF Settled
    <3> QED
      BY <2>1, <3>1, <3>2
  <2>5. o \in Outcomes /\ o.trace = t /\ o.at = Owner[t] /\ o.failures = row[t].failures
    BY <2>1, <2>2 DEF Outcomes, Rows
  <2> HIDE DEF o
  <2>6. Shape'
    BY <1>1, <2>1, <2>2, <2>5 DEF Shape
  <2>7. PlanInv' /\ RegistryInv'
    BY PlanFrame, RegistryFrame
  <2>8. TableInv'
    <3>1. \A u \in Traces : Unsettled(u)' = Unsettled(u) /\ (Settled(u)' <=> Settled(u))
      BY DEF Unsettled, Settled, NoneIn
    <3> QED
      BY <2>1, <2>2, <2>3, <3>1 DEF TableInv, AbsentInv, PendingInv, CountdownExact
  <2>9. HandInv'
    <3>1. sends[t] = 0 /\ \A x \in hand : x.trace \in Traces \ {t}
      BY <2>1 DEF HandInv, Shape, Outcomes
    <3>2. \A x \in hand' : Settled(x.trace)' <=> Settled(x.trace)
      BY DEF Settled, NoneIn
    <3>3. \A x \in hand' : x \in hand \/ x = o
      BY <2>1
    <3> QED
      BY <2>1, <2>2, <2>3, <2>4, <2>5, <3>1, <3>2, <3>3 DEF HandInv
  <2>10. ChanInv'
    <3>1. \A g \in Subs : sub[g].state # "none" => sub[g].trace \in Traces
      BY Taken
    <3> QED
      BY <2>1, <2>2, <2>3, <3>1 DEF ChanInv, Settled, NoneIn
  <2>11. StampedInHand'
    BY <2>1, <2>2, <2>5 DEF StampedInHand
  <2> QED
    BY <2>6, <2>7, <2>8, <2>9, <2>10, <2>11
<1> QED
  BY <1>2, <1>3

-----------------------------------------------------------------------------
(* Submission and acks.                                                    *)

\* A batch is submitted: what it adds to the queues is pending.
LEMMA SubmitInd ==
    ASSUME IndInv, UNCHANGED deploy, NEW t \in Traces, Submit(t)
    PROVE  IndInv'
<1>1. Shape /\ PlanInv /\ TableInv /\ HandInv /\ ChanInv /\ RegistryInv /\ StampedInHand
  BY DEF IndInv
<1>2. /\ row[t] = NoRow /\ Settled(t) /\ failed[t] = 0
      /\ queue \in [Partitions -> Seq(Traces)] /\ row \in [Traces -> Rows]
      /\ row' = [row EXCEPT ![t] = [NoRow EXCEPT !.is = "present", !.pending = Entities(t)]]
      /\ queue' = [p \in Partitions |-> queue[p] \o [k \in 1..Spread[t][p] |-> t]]
      /\ UNCHANGED <<ackVars, hand, page, subVars, rpage, failed, sends, faults>>
  BY <1>1 DEF Submit, TableInv, AbsentInv, Shape
<1>3. queue \in [Partitions -> Seq(Traces)]
  BY <1>2
<1>4. /\ queue' \in [Partitions -> Seq(Traces)]
      /\ Cardinality(Pairs(At(queue', t))) = Entities(t)
      /\ \A u \in Traces : u # t => At(queue', u) = At(queue, u)
      /\ \A p \in Partitions : /\ Len(queue'[p]) = Len(queue[p]) + Spread[t][p]
                               /\ \A k \in 1..Len(queue[p]) : queue'[p][k] = queue[p][k]
                               /\ \A k \in Len(queue[p]) + 1..Len(queue'[p]) : queue'[p][k] = t
  <2>1. NoneIn(queue, t)
    BY <1>2 DEF Settled, NoneIn
  <2>2. Enqueues(queue', queue, t)
    BY <1>2 DEF Enqueues, Copies
  <2>3. Extended(queue', queue, t)
    BY <1>3, <2>1, <2>2, Appended, Zenon
  <2> QED
    BY <2>3 DEF Extended
<1>5. \A u \in Traces : /\ Unsettled(u) = Pairs(At(queue, u)) /\ Unsettled(u)' = Pairs(At(queue', u))
                        /\ (Pairs(At(queue', u)) = {} <=> Settled(u)')
                        /\ (Pairs(At(queue, u)) = {} <=> Settled(u))
                        /\ (Cardinality(Pairs(At(queue', u))) = 0 <=> Settled(u)')
                        /\ Cardinality(Pairs(At(queue', u))) \in Nat
  BY <1>2, <1>4, Counting, UnsettledAre DEF Settled
<1>6. ~Settled(t)'
  <2>1. PICK p \in Partitions : Spread[t][p] > 0
    OBVIOUS
  <2>2. Len(queue'[p]) \in Len(queue[p]) + 1..Len(queue'[p]) /\ Len(queue'[p]) \in 1..Len(queue'[p])
    BY <1>2, <1>4, <2>1
  <2> QED
    BY <1>4, <2>1, <2>2 DEF Settled, NoneIn
<1>7. /\ row' \in [Traces -> Rows] /\ \A u \in Traces \ {t} : row'[u] = row[u]
      /\ row'[t].is = "present" /\ row'[t].pending = Entities(t) /\ row'[t].failures = 0
      /\ ~row'[t].completed /\ ~row'[t].notified
  <2>1. Entities(t) \in Int
    BY <1>4, <1>5
  <2> DEFINE r == [NoRow EXCEPT !.is = "present", !.pending = Entities(t)]
  <2>2. /\ r \in Rows /\ r.is = "present" /\ r.pending = Entities(t) /\ r.failures = 0
        /\ ~r.completed /\ ~r.notified
    <3>1. ASSUME NEW w \in Rows, NEW n \in Int
          PROVE  LET x == [w EXCEPT !.is = "present", !.pending = n] IN
                 /\ x \in Rows /\ x.is = "present" /\ x.pending = n /\ x.failures = w.failures
                 /\ x.completed = w.completed /\ x.notified = w.notified
      BY DEF Rows
    <3>2. NoRow \in Rows
      BY DEF NoRow, Rows
    <3>3. NoRow.failures = 0 /\ ~NoRow.completed /\ ~NoRow.notified
      BY DEF NoRow
    <3> QED
      BY <2>1, <3>1, <3>2, <3>3
  <2>3. row' = [row EXCEPT ![t] = r]
    BY <1>2
  <2> HIDE DEF r
  <2> QED
    BY <1>2, <2>2, <2>3
<1>8. \A u \in Traces \ {t} : Unsettled(u)' = Unsettled(u) /\ (Settled(u)' <=> Settled(u))
  BY <1>4, <1>5
<1>9. Shape'
  BY <1>1, <1>2, <1>4, <1>7 DEF Shape
<1>10. PlanInv'
  <2>1. \A p \in Partitions : /\ upto[p] \in Nat /\ upto[p] <= Len(queue[p]) /\ Len(queue[p]) \in Nat
                              /\ Spread[t][p] \in Nat
    BY <1>1, <1>2 DEF PlanInv, Lawful, Shape
  <2>2. ASSUME NEW p \in Partitions
        PROVE  upto[p] <= Len(queue'[p]) /\ \A k \in 1..upto[p] : queue'[p][k] = queue[p][k]
    <3>1. /\ Len(queue'[p]) = Len(queue[p]) + Spread[t][p]
          /\ \A k \in 1..Len(queue[p]) : queue'[p][k] = queue[p][k]
      BY <1>4
    <3>2. \A k \in 1..upto[p] : k \in 1..Len(queue[p])
      BY <2>1
    <3> QED
      BY <2>1, <3>1, <3>2
  <2>3. UNCHANGED <<deploy, worker, plan, taken, upto>>
    BY <1>2
  <2> QED
    BY <1>1, <2>1, <2>2, <2>3, PlanKept DEF PlanInv
<1>11. TableInv'
  <2>1. row'[t].pending = Cardinality(Unsettled(t)') /\ row'[t].pending # 0 /\ row'[t].pending \in Nat
    <3> DEFINE n == Cardinality(Pairs(At(queue', t)))
    <3>1. Unsettled(t)' = Pairs(At(queue', t)) /\ n \in Nat /\ (n = 0 <=> Settled(t)')
      BY <1>5
    <3>2. n = Entities(t) /\ row'[t].pending = Entities(t)
      BY <1>4, <1>7
    <3>3. Cardinality(Unsettled(t)') = n
      BY <3>1
    <3> HIDE DEF n
    <3> QED
      BY <1>6, <3>1, <3>2, <3>3
  <2> QED
    BY <1>1, <1>2, <1>7, <1>8, <2>1 DEF TableInv, AbsentInv, PendingInv, CountdownExact
<1>12. HandInv'
  <2>1. \A o \in hand : o.trace \in Traces \ {t}
    BY <1>1, <1>2 DEF HandInv, Shape, Outcomes, NoRow
  <2>2. sends[t] = 0
    <3>1. ~row[t].notified /\ sends[t] \in Nat
      BY <1>1, <1>2 DEF NoRow, Shape
    <3> QED
      BY <1>1, <3>1 DEF HandInv
  <2> QED
    BY <1>1, <1>2, <1>7, <1>8, <2>1, <2>2 DEF HandInv
<1>13. ChanInv'
  <2>1. \A g \in Subs : chan[g].state = "Completed" => sub[g].trace \in Traces \ {t}
    <3>1. \A g \in Subs : sub[g].state # "none" => sub[g].trace \in Traces
      BY <1>1, Taken
    <3>2. row[t].is = "absent"
      BY <1>2 DEF NoRow
    <3> QED
      BY <1>1, <3>1, <3>2 DEF ChanInv
  <2> QED
    BY <1>1, <1>2, <1>7, <1>8, <2>1 DEF ChanInv
<1>14. RegistryInv' /\ StampedInHand'
  BY <1>1, <1>2, <1>7, RegistryFrame DEF StampedInHand
<1> QED
  BY <1>9, <1>10, <1>11, <1>12, <1>13, <1>14 DEF IndInv

\* The countdown has one statement per trace of the prefix, which counts it there.
LEMMA ProgressIs ==
    ASSUME Shape, NEW p \in Partitions, NEW n \in 0..Len(queue[p]), NEW fail \in SUBSET (1..n)
    PROVE  /\ Progress(p, n, fail) \subseteq Steps
           /\ \A x \in Progress(p, n, fail) :
                /\ x.phase = 1
                /\ x.terminal = Cardinality({k \in 1..n : queue[p][k] = x.trace})
                /\ \E k \in 1..n : queue[p][k] = x.trace
           /\ \A k \in 1..n : \E x \in Progress(p, n, fail) : x.trace = queue[p][k]
           /\ \A x, y \in Progress(p, n, fail) : x.trace = y.trace => x = y
<1> DEFINE C(t) == Cardinality({k \in 1..n : queue[p][k] = t})
           D(t) == Cardinality({k \in fail : queue[p][k] = t})
           x(t) == [phase |-> 1, trace |-> t, terminal |-> C(t), failures |-> D(t)]
<1>0. Len(queue[p]) \in Nat /\ n \in Nat /\ \A k \in 1..n : queue[p][k] \in Traces
  BY DEF Shape
<1>1. ASSUME NEW t PROVE C(t) \in Nat /\ D(t) \in Nat
  <2>1. {k \in 1..n : queue[p][k] = t} \subseteq 1..n /\ {k \in fail : queue[p][k] = t} \subseteq 1..n
    OBVIOUS
  <2>2. 1 \in Int /\ n \in Int
    BY <1>0
  <2> QED
    BY <2>1, <2>2, Bounded
<1>2. Progress(p, n, fail) = {x(t) : t \in {queue[p][k] : k \in 1..n}}
  BY DEF Progress
<1>3. \A t : C(t) = Cardinality({k \in 1..n : queue[p][k] = t})
  OBVIOUS
<1> HIDE DEF C, D
<1>4. ASSUME NEW k \in 1..n PROVE x(queue[p][k]) \in Progress(p, n, fail)
  BY <1>2
<1>5. ASSUME NEW y \in Progress(p, n, fail)
      PROVE  \E k \in 1..n : y = x(queue[p][k])
  BY <1>2
<1>6. ASSUME NEW t \in Traces PROVE x(t) \in Steps
  BY <1>1 DEF Steps
<1>7. \A t : x(t).phase = 1 /\ x(t).trace = t /\ x(t).terminal = C(t)
  OBVIOUS
<1> HIDE DEF x
<1>8. Progress(p, n, fail) \subseteq Steps
  BY <1>0, <1>5, <1>6
<1>9. ASSUME NEW y \in Progress(p, n, fail)
      PROVE  /\ y.phase = 1
             /\ y.terminal = Cardinality({k \in 1..n : queue[p][k] = y.trace})
             /\ \E k \in 1..n : queue[p][k] = y.trace
             /\ y = x(y.trace)
  <2>1. PICK k \in 1..n : y = x(queue[p][k])
    BY <1>5
  <2>2. y.phase = 1 /\ y.trace = queue[p][k] /\ y.terminal = C(y.trace)
    BY <1>7, <2>1
  <2>3. y.terminal = Cardinality({j \in 1..n : queue[p][j] = y.trace})
    BY <1>3, <2>2
  <2> QED
    BY <2>1, <2>2, <2>3
<1>10. \A k \in 1..n : \E y \in Progress(p, n, fail) : y.trace = queue[p][k]
  BY <1>4, <1>7
<1>11. \A y, z \in Progress(p, n, fail) : y.trace = z.trace => y = z
  BY <1>9
<1> QED
  BY <1>8, <1>9, <1>10, <1>11

\* The retries have one statement per trace of the tail.
LEMMA BeyondIs ==
    ASSUME Shape, NEW p \in Partitions, NEW n \in 0..Len(queue[p])
    PROVE  /\ Beyond(p, n) \subseteq Steps
           /\ \A x \in Beyond(p, n) : x.phase = 2
           /\ \A x, y \in Beyond(p, n) : x.trace = y.trace => x = y
<1>1. \A k \in (n + 1)..Len(queue[p]) : queue[p][k] \in Traces
  BY DEF Shape
<1> QED
  BY <1>1 DEF Beyond, Steps

\* An ack begins with lawful statements: one group, or both where handlers fail
\* in mid-batch.
LEMMA BeginLawful ==
    ASSUME Shape, NEW p \in Partitions, NEW n \in 0..Len(queue[p]), NEW fail \in SUBSET (1..n),
           NEW i \in Instances, NEW B, B = {} \/ (B = Beyond(p, n) /\ (n = 0 \/ deploy.partial))
    PROVE  /\ Lawful(queue[p], n, i, Progress(p, n, fail) \cup B, {}, deploy.partial)
           /\ Progress(p, n, fail) \cup B \subseteq Steps
<1> DEFINE A == Progress(p, n, fail)
<1>1. /\ A \subseteq Steps
      /\ \A x \in A : /\ x.phase = 1
                      /\ x.terminal = Cardinality({k \in 1..n : queue[p][k] = x.trace})
                      /\ \E k \in 1..n : queue[p][k] = x.trace
      /\ \A k \in 1..n : \E x \in A : x.trace = queue[p][k]
      /\ \A x, y \in A : x.trace = y.trace => x = y
  BY ProgressIs, Zenon
<1>2. B \subseteq Steps /\ (\A x \in B : x.phase = 2) /\ (\A x, y \in B : x.trace = y.trace => x = y)
  BY BeyondIs
<1> HIDE DEF A
<1>3. ~deploy.partial => \A x, y \in A \cup B : x.phase = y.phase
  <2>1. CASE B = {}
    BY <1>1, <2>1
  <2>2. CASE n = 0
    BY <1>1, <1>2, <2>2
  <2> QED
    BY <2>1, <2>2
<1>4. ASSUME NEW x \in A \cup B, NEW y \in A \cup B, x.phase = y.phase, x.trace = y.trace PROVE x = y
  <2>1. (x \in A /\ y \in A) \/ (x \in B /\ y \in B)
    <3>1. (x \in A => x.phase = 1) /\ (y \in A => y.phase = 1)
      BY <1>1
    <3>2. (x \in B => x.phase = 2) /\ (y \in B => y.phase = 2)
      BY <1>2
    <3> QED
      BY <1>4, <3>1, <3>2
  <2> QED
    BY <1>1, <1>2, <1>4, <2>1
<1>5. \A x \in A \cup B : x.phase = 1 => x \in A
  BY <1>2
<1>6. n <= Len(queue[p])
  BY DEF Shape
<1>7. Lawful(queue[p], n, i, A \cup B, {}, deploy.partial)
  BY <1>1, <1>3, <1>4, <1>5, <1>6 DEF Lawful
<1> QED
  BY <1>1, <1>2, <1>7 DEF A

\* A begun ack has touched nothing yet.
LEMMA BeginInd ==
    ASSUME IndInv, UNCHANGED deploy, NEW p \in Partitions, NEW n \in Nat, NEW S \in SUBSET Steps,
           plan[p] = {}, BeginAck(p, n, S), faults' \in 0..MaxFaults,
           \A i \in Instances : Lawful(queue[p], n, i, S, {}, deploy.partial)
    PROVE  IndInv'
<1>1. Shape /\ PlanInv /\ TableInv /\ HandInv /\ ChanInv /\ RegistryInv /\ StampedInHand
  BY DEF IndInv
<1>2. PICK i \in Instances : worker' = [worker EXCEPT ![p] = i]
  BY DEF BeginAck
<1>3. /\ plan' = [plan EXCEPT ![p] = S] /\ upto' = [upto EXCEPT ![p] = n]
      /\ UNCHANGED <<row, queue, taken, hand, page, subVars, rpage, failed, sends>>
  BY DEF BeginAck
<1>4. Shape'
  BY <1>1, <1>2, <1>3 DEF Shape
<1>5. /\ worker'[p] = i /\ plan'[p] = S /\ upto'[p] = n
      /\ \A q \in Partitions \ {p} : worker'[q] = worker[q] /\ plan'[q] = plan[q] /\ upto'[q] = upto[q]
  BY <1>1, <1>2, <1>3 DEF Shape
<1>6. taken[p] = {}
  BY <1>1 DEF PlanInv, Lawful
<1>7. PlanInv'
  BY <1>1, <1>3, <1>5, <1>6 DEF PlanInv
<1> QED
  BY <1>1, <1>3, <1>4, <1>7, TableFrame, HandFrame, ChanFrame, RegistryFrame, StampedFrame DEF IndInv

\* The handler is done, with all, some or none of its messages.
LEMMA AckBeginInd ==
    ASSUME IndInv, UNCHANGED deploy, NEW p \in Partitions, AckBegin(p)
    PROVE  IndInv'
<1>1. Shape /\ plan[p] = {} /\ Len(queue[p]) \in Nat /\ faults \in 0..MaxFaults
  BY DEF IndInv, Shape, AckBegin
<1>2. PICK n \in 0..Len(queue[p]) : \E fail \in SUBSET (1..n) :
        \/ BeginAck(p, n, Progress(p, n, fail)) /\ UNCHANGED faults
        \/ /\ n = 0 \/ deploy.partial
           /\ Fault
           /\ BeginAck(p, n, Progress(p, n, fail) \cup Beyond(p, n))
        \/ /\ BeginAck(p, Len(queue[p]),
                       Progress(p, Len(queue[p]), fail \cup ((n + 1)..Len(queue[p]))))
           /\ UNCHANGED faults
  BY DEF AckBegin
<1>7. PICK fail \in SUBSET (1..n) :
        \/ BeginAck(p, n, Progress(p, n, fail)) /\ UNCHANGED faults
        \/ /\ n = 0 \/ deploy.partial
           /\ Fault
           /\ BeginAck(p, n, Progress(p, n, fail) \cup Beyond(p, n))
        \/ /\ BeginAck(p, Len(queue[p]),
                       Progress(p, Len(queue[p]), fail \cup ((n + 1)..Len(queue[p]))))
           /\ UNCHANGED faults
  BY <1>2
<1>3. n \in Nat
  BY <1>1
<1>4. CASE BeginAck(p, n, Progress(p, n, fail)) /\ UNCHANGED faults
  <2>1. Progress(p, n, fail) \cup {} = Progress(p, n, fail)
    OBVIOUS
  <2>2. ASSUME NEW i \in Instances
        PROVE  Lawful(queue[p], n, i, Progress(p, n, fail), {}, deploy.partial)
    <3>1. Lawful(queue[p], n, i, Progress(p, n, fail) \cup {}, {}, deploy.partial)
      BY <1>1, BeginLawful
    <3> QED
      BY <2>1, <3>1
  <2>3. Progress(p, n, fail) \in SUBSET Steps
    BY <1>1, ProgressIs
  <2> QED
    BY <1>1, <1>3, <1>4, <2>2, <2>3, BeginInd
<1>5. CASE /\ n = 0 \/ deploy.partial
           /\ Fault
           /\ BeginAck(p, n, Progress(p, n, fail) \cup Beyond(p, n))
  <2>1. \A i \in Instances :
          Lawful(queue[p], n, i, Progress(p, n, fail) \cup Beyond(p, n), {}, deploy.partial)
    BY <1>1, <1>5, BeginLawful
  <2>2. Progress(p, n, fail) \cup Beyond(p, n) \in SUBSET Steps
    BY <1>1, ProgressIs, BeyondIs
  <2>3. faults' \in 0..MaxFaults
    BY <1>1, <1>5 DEF Fault
  <2> QED
    BY <1>1, <1>3, <1>5, <2>1, <2>2, <2>3, BeginInd
<1>6. CASE /\ BeginAck(p, Len(queue[p]),
                       Progress(p, Len(queue[p]), fail \cup ((n + 1)..Len(queue[p]))))
           /\ UNCHANGED faults
  <2> DEFINE m == Len(queue[p])
             F == fail \cup ((n + 1)..m)
  <2>1. m \in 0..Len(queue[p]) /\ m \in Nat /\ F \in SUBSET (1..m)
    <3>1. m \in 0..Len(queue[p]) /\ m \in Nat /\ n \in 0..m
      BY <1>1
    <3> HIDE DEF m
    <3>2. ASSUME NEW k \in F PROVE k \in 1..m
      BY <3>1
    <3> QED
      BY <3>1, <3>2
  <2>2. BeginAck(p, m, Progress(p, m, F)) /\ UNCHANGED faults
    BY <1>6
  <2> HIDE DEF m, F
  <2>3. Progress(p, m, F) \cup {} = Progress(p, m, F)
    OBVIOUS
  <2>4. ASSUME NEW i \in Instances
        PROVE  Lawful(queue[p], m, i, Progress(p, m, F), {}, deploy.partial)
    <3>1. Lawful(queue[p], m, i, Progress(p, m, F) \cup {}, {}, deploy.partial)
      BY <1>1, <2>1, BeginLawful
    <3> QED
      BY <2>3, <3>1
  <2>5. Progress(p, m, F) \in SUBSET Steps
    BY <1>1, <2>1, ProgressIs
  <2> QED
    BY <1>1, <2>1, <2>2, <2>4, <2>5, BeginInd
<1> QED
  BY <1>7, <1>4, <1>5, <1>6

\* Statements can be sorted.
LEMMA StepsSort ==
    ASSUME NEW s \in Steps PROVE s.trace \in Int /\ s.phase \in Int
<1>1. s.trace \in Traces /\ (s.phase = 1 \/ s.phase = 2)
  BY DEF Steps
<1>2. \A t \in Traces : t \in Int
  OBVIOUS
<1>3. s.trace \in Int
  BY <1>1, <1>2
<1>4. s.phase \in Int
  BY <1>1
<1> QED
  BY <1>3, <1>4

\* A statement is executed after all that come before it.
LEMMA AckExecInd ==
    ASSUME IndInv, UNCHANGED deploy, NEW p \in Partitions, AckExec(p)
    PROVE  IndInv'
<1>1. Shape /\ PlanInv /\ TableInv /\ HandInv /\ ChanInv /\ RegistryInv /\ StampedInHand
  BY DEF IndInv
<1>2. PICK x \in plan[p] \ taken[p] : /\ FirstOf(plan[p] \ taken[p], x)
                                      /\ taken' = [taken EXCEPT ![p] = @ \cup {x}]
  BY DEF AckExec
<1>3. UNCHANGED <<row, queue, worker, plan, upto, hand, page, subVars, rpage, failed, sends, faults>>
  BY DEF AckExec
<1>4. plan[p] \subseteq Steps
  BY <1>1 DEF Shape
<1>5. Shape'
  BY <1>1, <1>2, <1>3, <1>4 DEF Shape
<1>6. taken'[p] = taken[p] \cup {x} /\ \A q \in Partitions \ {p} : taken'[q] = taken[q]
  BY <1>1, <1>2 DEF Shape
<1>7. Lawful(queue[p], upto[p], worker[p], plan[p], taken[p], deploy.partial)
  BY <1>1 DEF PlanInv
<1>8. \A s \in Steps : s.trace \in Int /\ s.phase \in Int
  BY StepsSort
<1>9. ASSUME NEW y \in plan[p] \ taken'[p]
      PROVE  x.phase < y.phase \/ (x.phase = y.phase /\ x.trace < y.trace)
  <2>1. y \in plan[p] \ taken[p] /\ y # x
    BY <1>6
  <2>2. x.phase < y.phase \/ (x.phase = y.phase /\ x.trace <= y.trace)
    BY <1>2, <2>1 DEF FirstOf
  <2>3. ~(x.phase = y.phase /\ x.trace = y.trace)
    BY <1>7, <2>1 DEF Lawful
  <2> QED
    BY <1>4, <1>8, <2>1, <2>2, <2>3
<1>10. Lawful(queue[p], upto[p], worker[p], plan[p], taken'[p], deploy.partial)
  BY <1>6, <1>7, <1>9 DEF Lawful
<1>11. PlanInv'
  BY <1>1, <1>3, <1>6, <1>10 DEF PlanInv
<1> QED
  BY <1>1, <1>3, <1>5, <1>11, TableFrame, HandFrame, ChanFrame, RegistryFrame, StampedFrame DEF IndInv

\* An ack that ended has no statements.
LEMMA EndedLawful ==
    ASSUME Shape, PlanInv, UNCHANGED deploy, NEW p \in Partitions, EndAck(p),
           \A q \in Partitions \ {p} : queue'[q] = queue[q], Len(queue'[p]) \in Nat
    PROVE  /\ PlanInv'
           /\ worker' \in [Partitions -> Instances \cup {None}]
           /\ plan' \in [Partitions -> SUBSET Steps] /\ taken' \in [Partitions -> SUBSET Steps]
           /\ upto' \in [Partitions -> Nat]
<1>1. /\ worker'[p] = None /\ plan'[p] = {} /\ taken'[p] = {} /\ upto'[p] = 0
      /\ \A q \in Partitions \ {p} : /\ worker'[q] = worker[q] /\ plan'[q] = plan[q]
                                     /\ taken'[q] = taken[q] /\ upto'[q] = upto[q]
  BY DEF EndAck, Shape
<1>2. Lawful(queue'[p], 0, None, {}, {}, deploy.partial)
  BY DEF Lawful
<1>3. PlanInv'
  BY <1>1, <1>2 DEF PlanInv
<1> QED
  BY <1>3 DEF EndAck, Shape

\* A rolled back ack leaves nothing.
LEMMA AckAbortInd ==
    ASSUME IndInv, UNCHANGED deploy, NEW p \in Partitions, AckAbort(p)
    PROVE  IndInv'
<1>1. Shape /\ PlanInv /\ TableInv /\ HandInv /\ ChanInv /\ RegistryInv /\ StampedInHand
  BY DEF IndInv
<1>2. EndAck(p) /\ UNCHANGED <<row, queue, hand, page, subVars, rpage, failed, sends>>
  BY DEF AckAbort
<1>3. Len(queue[p]) \in Nat /\ faults' \in 0..MaxFaults
  BY <1>1 DEF Shape, AckAbort, Fault
<1>4. /\ PlanInv'
      /\ worker' \in [Partitions -> Instances \cup {None}]
      /\ plan' \in [Partitions -> SUBSET Steps] /\ taken' \in [Partitions -> SUBSET Steps]
      /\ upto' \in [Partitions -> Nat]
  BY <1>1, <1>2, <1>3, EndedLawful
<1>5. Shape'
  BY <1>1, <1>2, <1>3, <1>4 DEF Shape
<1> QED
  BY <1>1, <1>2, <1>4, <1>5, TableFrame, HandFrame, ChanFrame, RegistryFrame, StampedFrame DEF IndInv

\* What the statements on a row do to it.
LEMMA CountDownIs ==
    ASSUME NEW r \in Rows, NEW x \in Steps
    PROVE  /\ CountDown(r, x) \in Rows /\ CountDown(r, x).is = r.is
           /\ CountDown(r, x).notified = r.notified
           /\ r.is = "present" /\ r.pending > 0 =>
                /\ CountDown(r, x).pending = r.pending - x.terminal
                /\ CountDown(r, x).failures = r.failures + x.failures
                /\ CountDown(r, x).completed <=> r.pending - x.terminal <= 0
           /\ ~(r.is = "present" /\ r.pending > 0) => CountDown(r, x) = r
<1>1. x.terminal \in Int /\ x.failures \in Int
  BY DEF Steps
<1>3. r.pending \in Int /\ r.failures \in Int
  BY DEF Rows
<1>4. CASE r.is = "present" /\ r.pending > 0
  <2>1. CountDown(r, x) = [r EXCEPT !.pending = r.pending - x.terminal, !.failures = r.failures + x.failures,
                                    !.retrying = FALSE, !.completed = (r.pending - x.terminal <= 0)]
    BY <1>4 DEF CountDown
  <2>2. /\ r.pending - x.terminal \in Int /\ r.failures + x.failures \in Int
        /\ (r.pending - x.terminal <= 0) \in BOOLEAN
    BY <1>1, <1>3
  <2> DEFINE y == CountDown(r, x)
             a == r.pending - x.terminal
             b == r.failures + x.failures
             c == a <= 0
  <2>3. y = [r EXCEPT !.pending = a, !.failures = b, !.retrying = FALSE, !.completed = c]
    BY <2>1
  <2>4. a \in Int /\ b \in Int /\ c \in BOOLEAN
    BY <2>2
  <2> HIDE DEF y, a, b, c
  <2>5. /\ y \in Rows /\ y.is = r.is /\ y.notified = r.notified
        /\ y.pending = a /\ y.failures = b /\ y.completed = c
    BY <2>3, <2>4 DEF Rows
  <2> QED
    BY <1>4, <2>5 DEF y, a, b, c
<1>5. CASE ~(r.is = "present" /\ r.pending > 0)
  BY <1>5 DEF CountDown
<1> QED
  BY <1>4, <1>5

LEMMA MarkIs ==
    ASSUME NEW r \in Rows
    PROVE  LET y == MarkRetrying(r) IN
           /\ y \in Rows /\ y.is = r.is /\ y.pending = r.pending /\ y.failures = r.failures
           /\ y.completed = r.completed /\ y.notified = r.notified
           /\ r.is # "present" => y = r
BY DEF MarkRetrying, Rows

LEMMA StampIs ==
    ASSUME NEW r \in Rows, NEW b \in BOOLEAN
    PROVE  LET y == [r EXCEPT !.notified = @ \/ b] IN
           /\ y \in Rows /\ y.is = r.is /\ y.pending = r.pending /\ y.failures = r.failures
           /\ y.completed = r.completed /\ (y.notified <=> r.notified \/ b)
           /\ ~b => y = r
BY DEF Rows

\* What p's ack settles of t.
Prefix(p, t) == {k \in 1..upto[p] : queue[p][k] = t}

\* The countdown statement of a trace, where there is one: that is when the ack
\* settles a message of it.
LEMMA CountsIs ==
    ASSUME Shape, PlanInv, NEW p \in Partitions, NEW t \in Traces
    PROVE  /\ Counts(p, t) <=> Prefix(p, t) # {}
           /\ Cardinality(Prefix(p, t)) \in Nat /\ (Prefix(p, t) = {} => Cardinality(Prefix(p, t)) = 0)
           /\ Counts(p, t) =>
                LET x == CHOOSE x \in plan[p] : x.phase = 1 /\ x.trace = t IN
                x \in Steps /\ x.failures \in Nat /\ x.terminal = Cardinality(Prefix(p, t))
<1>1. Lawful(queue[p], upto[p], worker[p], plan[p], taken[p], deploy.partial) /\ plan[p] \subseteq Steps
      /\ upto[p] \in Nat
  BY DEF PlanInv, Shape
<1>2. Counts(p, t) <=> Prefix(p, t) # {}
  <2>1. ASSUME NEW x \in plan[p], x.phase = 1, x.trace = t PROVE \E k \in 1..upto[p] : queue[p][k] = t
    BY <1>1, <2>1 DEF Lawful
  <2>2. ASSUME NEW k \in 1..upto[p], queue[p][k] = t PROVE \E x \in plan[p] : x.phase = 1 /\ x.trace = t
    BY <1>1, <2>2 DEF Lawful
  <2> QED
    BY <2>1, <2>2 DEF Counts, Prefix
<1>3. Cardinality(Prefix(p, t)) \in Nat
  <2>1. Prefix(p, t) \subseteq 1..upto[p] /\ 1 \in Int /\ upto[p] \in Int
    BY <1>1 DEF Prefix
  <2> QED
    BY <2>1, Bounded
<1>4. ASSUME Counts(p, t)
      PROVE  LET x == CHOOSE x \in plan[p] : x.phase = 1 /\ x.trace = t IN
             x \in Steps /\ x.failures \in Nat /\ x.terminal = Cardinality(Prefix(p, t))
  <2> DEFINE x == CHOOSE x \in plan[p] : x.phase = 1 /\ x.trace = t
  <2>1. x \in plan[p] /\ x.phase = 1 /\ x.trace = t
    BY <1>4 DEF Counts
  <2> HIDE DEF x
  <2>2. x.terminal = Cardinality({k \in 1..upto[p] : queue[p][k] = x.trace})
    BY <1>1, <2>1 DEF Lawful
  <2>3. x.terminal = Cardinality(Prefix(p, t))
    BY <2>1, <2>2 DEF Prefix
  <2>4. x \in Steps
    BY <1>1, <2>1
  <2>5. x.failures \in Nat
    BY <2>4 DEF Steps
  <2> QED
    BY <2>3, <2>4, <2>5 DEF x
<1> QED
  BY <1>2, <1>3, <1>4, FS_EmptySet

\* A row after the countdown, before the claim and the retry mark.
LEMMA CountedIs ==
    ASSUME IndInv, NEW p \in Partitions, NEW t \in Traces
    PROVE  /\ Counted(p, t) \in Rows /\ FailedBy(p, t) \in Nat
           /\ Counted(p, t).is = row[t].is /\ Counted(p, t).notified = row[t].notified
           /\ row[t].is = "present" =>
                /\ Counted(p, t).pending = row[t].pending - Cardinality(Prefix(p, t))
                /\ Counted(p, t).failures = row[t].failures + FailedBy(p, t)
                /\ Counted(p, t).completed <=> Counted(p, t).pending <= 0
           /\ row[t].is # "present" => Counted(p, t) = row[t]
           /\ Prefix(p, t) = {} => FailedBy(p, t) = 0
<1>1. Shape /\ PlanInv /\ TableInv
  BY DEF IndInv
<1>2. /\ Counts(p, t) <=> Prefix(p, t) # {}
      /\ Cardinality(Prefix(p, t)) \in Nat /\ (Prefix(p, t) = {} => Cardinality(Prefix(p, t)) = 0)
  BY <1>1, CountsIs
<1>3. row[t] \in Rows
  BY <1>1 DEF Shape
<1>4. row[t].pending \in Int /\ row[t].failures \in Int
  BY <1>3 DEF Rows
<1>5. row[t].is = "present" => (row[t].completed <=> row[t].pending <= 0)
  <2>1. row[t].is = "present" => (row[t].completed <=> row[t].pending = 0)
    BY <1>1 DEF TableInv, CountdownExact
  <2>2. row[t].pending >= 0
    BY <1>1 DEF TableInv, PendingInv
  <2> QED
    BY <1>4, <2>1, <2>2
<1>6. CASE ~Counts(p, t)
  <2>1. Counted(p, t) = row[t] /\ FailedBy(p, t) = 0 /\ Cardinality(Prefix(p, t)) = 0
    BY <1>2, <1>6 DEF Counted, FailedBy
  <2> QED
    BY <1>3, <1>4, <1>5, <2>1
<1>7. CASE Counts(p, t)
  <2> DEFINE x == CHOOSE x \in plan[p] : x.phase = 1 /\ x.trace = t
  <2>1. x \in Steps /\ x.failures \in Nat /\ x.terminal = Cardinality(Prefix(p, t))
    BY <1>1, <1>7, CountsIs
  <2>2. Counted(p, t) = CountDown(row[t], x) /\ FailedBy(p, t) = x.failures
    BY <1>7 DEF Counted, FailedBy
  <2> HIDE DEF x
  <2>3. row[t].is = "present" => row[t].pending > 0
    <3>1. ~Settled(t)
      <4>1. PICK k \in 1..upto[p] : queue[p][k] = t
        BY <1>2, <1>7 DEF Prefix
      <4>2. upto[p] \in Nat /\ upto[p] <= Len(queue[p]) /\ Len(queue[p]) \in Nat
        BY <1>1 DEF Shape, PlanInv, Lawful
      <4>3. k \in 1..Len(queue[p])
        BY <4>2
      <4> QED
        BY <4>1, <4>3 DEF Settled, NoneIn
    <3>2. Cardinality(Unsettled(t)) \in Nat /\ (Cardinality(Unsettled(t)) = 0 => Settled(t))
      <4>1. queue \in [Partitions -> Seq(Traces)]
        BY <1>1 DEF Shape
      <4> QED
        BY <4>1, Counting, UnsettledAre DEF Settled
    <3>3. row[t].is = "present" => row[t].pending = Cardinality(Unsettled(t))
      BY <1>1 DEF TableInv, CountdownExact
    <3> QED
      BY <3>1, <3>2, <3>3
  <2>4. /\ CountDown(row[t], x) \in Rows /\ CountDown(row[t], x).is = row[t].is
        /\ CountDown(row[t], x).notified = row[t].notified
        /\ row[t].is = "present" =>
             /\ CountDown(row[t], x).pending = row[t].pending - x.terminal
             /\ CountDown(row[t], x).failures = row[t].failures + x.failures
             /\ CountDown(row[t], x).completed <=> row[t].pending - x.terminal <= 0
        /\ row[t].is # "present" => CountDown(row[t], x) = row[t]
    BY <1>3, <2>1, <2>3, CountDownIs
  <2> QED
    BY <1>2, <1>7, <2>1, <2>2, <2>4
<1> QED
  BY <1>6, <1>7

\* A row after the ack.
LEMMA AckedRowIs ==
    ASSUME IndInv, NEW p \in Partitions, NEW t \in Traces
    PROVE  /\ AckedRow(p, t) \in Rows /\ AckedRow(p, t).is = row[t].is
           /\ AckedRow(p, t).pending = Counted(p, t).pending
           /\ AckedRow(p, t).failures = Counted(p, t).failures
           /\ AckedRow(p, t).completed = Counted(p, t).completed
           /\ AckedRow(p, t).notified <=> row[t].notified \/ AckClaims(p, t)
           /\ row[t].is # "present" => AckedRow(p, t) = row[t]
           /\ AckClaims(p, t) => /\ row[t].is = "present" /\ ~row[t].notified /\ Owner[t] = worker[p]
                                 /\ Counted(p, t).pending <= 0
<1> DEFINE c == Counted(p, t)
           r == [c EXCEPT !.notified = @ \/ AckClaims(p, t)]
<1>1. c \in Rows /\ c.is = row[t].is /\ c.notified = row[t].notified /\ (row[t].is # "present" => c = row[t])
  BY CountedIs
<1>2. AckClaims(p, t) \in BOOLEAN
  BY DEF AckClaims, Counts, Claimable
<1>3. /\ r \in Rows /\ r.is = c.is /\ r.pending = c.pending /\ r.failures = c.failures
      /\ r.completed = c.completed /\ (r.notified <=> c.notified \/ AckClaims(p, t))
      /\ ~AckClaims(p, t) => r = c
  BY <1>1, <1>2, StampIs
<1>4. AckClaims(p, t) => /\ c.is = "present" /\ ~c.notified /\ Owner[t] = worker[p] /\ c.pending <= 0
  BY DEF AckClaims, Claimable
<1>5. AckedRow(p, t) = r \/ AckedRow(p, t) = MarkRetrying(r)
  BY DEF AckedRow
<1> HIDE DEF r, c
<1>6. /\ AckedRow(p, t) \in Rows /\ AckedRow(p, t).is = r.is /\ AckedRow(p, t).pending = r.pending
      /\ AckedRow(p, t).failures = r.failures /\ AckedRow(p, t).completed = r.completed
      /\ AckedRow(p, t).notified = r.notified /\ (r.is # "present" => AckedRow(p, t) = r)
  BY <1>3, <1>5, MarkIs
<1> QED
  BY <1>1, <1>3, <1>4, <1>6 DEF c

\* A commit takes off the row what it takes off the queue, and what it claims is
\* final.
LEMMA AckCommitInd ==
    ASSUME IndInv, UNCHANGED deploy, NEW p \in Partitions, AckCommit(p)
    PROVE  IndInv'
<1>1. Shape /\ PlanInv /\ TableInv /\ HandInv /\ ChanInv /\ RegistryInv /\ StampedInHand
  BY DEF IndInv
<1>2. /\ plan[p] # {} /\ EndAck(p)
      /\ row' = [t \in Traces |-> AckedRow(p, t)]
      /\ queue' = [queue EXCEPT ![p] = SubSeq(@, upto[p] + 1, Len(@))]
      /\ failed' = [t \in Traces |-> failed[t] + FailedBy(p, t)]
      /\ UNCHANGED <<page, subVars, rpage, sends, faults>>
  BY DEF AckCommit
<1> DEFINE outcome(t) == [by |-> p, at |-> worker[p], trace |-> t, failures |-> Counted(p, t).failures]
<1>3. hand' = hand \cup {outcome(t) : t \in {u \in Traces : AckClaims(p, u)}}
  BY DEF AckCommit
<1>4. /\ queue \in [Partitions -> Seq(Traces)] /\ upto[p] \in Nat /\ upto[p] <= Len(queue[p])
      /\ worker[p] \in Instances /\ failed \in [Traces -> Nat] /\ sends \in [Traces -> Nat]
      /\ Len(queue[p]) \in Nat
  BY <1>1, <1>2 DEF Shape, PlanInv, Lawful
<1>5. Settles(queue', queue, p, upto[p])
  BY <1>2 DEF Settles
<1>6. ASSUME NEW t \in Traces
      PROVE  /\ queue' \in [Partitions -> Seq(Traces)]
             /\ Cardinality(Pairs(At(queue', t)))
                  = Cardinality(Pairs(At(queue, t))) - Cardinality(Prefix(p, t))
             /\ \A k \in 1..Len(queue'[p]) : queue'[p][k] = queue[p][k + upto[p]]
             /\ Len(queue'[p]) = Len(queue[p]) - upto[p]
  <2>1. Shortened(queue', queue, p, upto[p], t)
    BY <1>4, <1>5, Acked, Zenon
  <2> QED
    BY <2>1 DEF Shortened, Prefix
<1>7. \A q \in Partitions \ {p} : queue'[q] = queue[q]
  BY <1>2, <1>4
<1>8. queue' \in [Partitions -> Seq(Traces)] /\ Len(queue'[p]) \in Nat
  BY <1>2, <1>4
<1>9. ASSUME NEW t \in Traces, Settled(t)
      PROVE  Settled(t)' /\ Prefix(p, t) = {}
  <2>1. Prefix(p, t) = {}
    <3>1. ASSUME NEW k \in 1..upto[p] PROVE queue[p][k] # t
      <4>1. k \in 1..Len(queue[p])
        BY <1>4
      <4> QED
        BY <1>9, <4>1 DEF Settled, NoneIn
    <3> QED
      BY <3>1 DEF Prefix
  <2>2. ASSUME NEW k \in 1..Len(queue'[p]) PROVE queue'[p][k] # t
    <3>0. /\ \A j \in 1..Len(queue'[p]) : queue'[p][j] = queue[p][j + upto[p]]
          /\ Len(queue'[p]) = Len(queue[p]) - upto[p]
      BY <1>6
    <3>1. k + upto[p] \in 1..Len(queue[p]) /\ queue'[p][k] = queue[p][k + upto[p]]
      BY <1>4, <3>0
    <3> QED
      BY <1>9, <3>1 DEF Settled, NoneIn
  <2> QED
    BY <1>7, <1>9, <2>1, <2>2 DEF Settled, NoneIn
<1>10. ASSUME NEW t \in Traces
       PROVE  /\ Unsettled(t) = Pairs(At(queue, t)) /\ Unsettled(t)' = Pairs(At(queue', t))
              /\ Cardinality(Pairs(At(queue', t))) \in Nat /\ Cardinality(Pairs(At(queue, t))) \in Nat
              /\ Cardinality(Pairs(At(queue', t))) = 0 <=> Settled(t)'
  BY <1>4, <1>8, Counting, UnsettledAre DEF Settled
<1>11. ASSUME NEW t \in Traces
       PROVE  /\ row'[t] \in Rows /\ row'[t].is = row[t].is
              /\ row'[t].notified <=> row[t].notified \/ AckClaims(p, t)
              /\ row[t].is # "present" => row'[t] = row[t]
              /\ row[t].is = "present" =>
                   /\ row'[t].pending = row[t].pending - Cardinality(Prefix(p, t))
                   /\ row'[t].failures = row[t].failures + FailedBy(p, t)
                   /\ row'[t].completed <=> row'[t].pending <= 0
              /\ AckClaims(p, t) =>
                   /\ row[t].is = "present" /\ ~row[t].notified /\ Owner[t] = worker[p]
                   /\ row'[t].pending <= 0 /\ Counted(p, t).failures = row'[t].failures
  <2>1. row'[t] = AckedRow(p, t)
    BY <1>2
  <2>2. /\ row[t].is = "present" =>
             /\ Counted(p, t).pending = row[t].pending - Cardinality(Prefix(p, t))
             /\ Counted(p, t).failures = row[t].failures + FailedBy(p, t)
             /\ Counted(p, t).completed <=> Counted(p, t).pending <= 0
    BY CountedIs
  <2>3. /\ AckedRow(p, t) \in Rows /\ AckedRow(p, t).is = row[t].is
        /\ AckedRow(p, t).pending = Counted(p, t).pending
        /\ AckedRow(p, t).failures = Counted(p, t).failures
        /\ AckedRow(p, t).completed = Counted(p, t).completed
        /\ AckedRow(p, t).notified <=> row[t].notified \/ AckClaims(p, t)
        /\ row[t].is # "present" => AckedRow(p, t) = row[t]
        /\ AckClaims(p, t) => /\ row[t].is = "present" /\ ~row[t].notified /\ Owner[t] = worker[p]
                              /\ Counted(p, t).pending <= 0
    BY AckedRowIs
  <2> QED
    BY <2>1, <2>2, <2>3
<1>12. ASSUME NEW t \in Traces
       PROVE  /\ failed'[t] = failed[t] + FailedBy(p, t) /\ FailedBy(p, t) \in Nat
              /\ failed'[t] \in Nat
              /\ Settled(t) => failed'[t] = failed[t]
  <2>1. FailedBy(p, t) \in Nat /\ (Prefix(p, t) = {} => FailedBy(p, t) = 0)
    BY CountedIs
  <2>2. failed'[t] = failed[t] + FailedBy(p, t) /\ failed[t] \in Nat
    BY <1>2, <1>4
  <2> QED
    BY <1>9, <2>1, <2>2
<1>13. ASSUME NEW t \in Traces, row[t].is = "present"
       PROVE  /\ row'[t].pending = Cardinality(Unsettled(t)') /\ row'[t].failures = failed'[t]
              /\ row'[t].pending \in Nat
              /\ row'[t].completed <=> row'[t].pending = 0
              /\ row'[t].pending = 0 => Settled(t)'
  <2>1. row[t].pending = Cardinality(Unsettled(t)) /\ row[t].failures = failed[t]
    BY <1>1, <1>13 DEF TableInv, CountdownExact
  <2>2. row'[t].pending = Cardinality(Pairs(At(queue', t)))
    BY <1>6, <1>10, <1>11, <1>13, <2>1
  <2>3. row'[t].failures = failed'[t]
    BY <1>11, <1>12, <1>13, <2>1
  <2>4. row'[t].completed <=> row'[t].pending <= 0
    BY <1>11, <1>13
  <2> DEFINE n == Cardinality(Pairs(At(queue', t)))
  <2>5. n \in Nat /\ Cardinality(Unsettled(t)') = n /\ (n = 0 => Settled(t)')
    BY <1>10
  <2>6. row'[t].pending = n
    BY <2>2
  <2> HIDE DEF n
  <2> QED
    BY <2>3, <2>4, <2>5, <2>6
<1>14. ASSUME NEW t \in Traces, AckClaims(p, t)
       PROVE  /\ Settled(t)' /\ Counted(p, t).failures = failed'[t] /\ row'[t].notified
              /\ row'[t].is = "present" /\ ~row[t].notified /\ worker[p] = Owner[t]
  <2>1. /\ row[t].is = "present" /\ ~row[t].notified /\ Owner[t] = worker[p] /\ row'[t].is = row[t].is
        /\ row'[t].pending <= 0 /\ Counted(p, t).failures = row'[t].failures /\ row'[t].notified
    BY <1>11, <1>14
  <2>2. row'[t].pending = 0
    BY <1>13, <2>1
  <2> QED
    BY <1>13, <2>1, <2>2
<1>15. ASSUME NEW t \in Traces, AckClaims(p, t)
       PROVE  /\ outcome(t) \in Outcomes /\ outcome(t).trace = t /\ outcome(t).at = worker[p]
              /\ outcome(t).failures = Counted(p, t).failures
  <2>1. Counted(p, t).failures \in Int
    <3>1. Counted(p, t) \in Rows
      BY CountedIs
    <3> QED
      BY <3>1 DEF Rows
  <2> QED
    BY <1>4, <2>1 DEF Outcomes
<1>16. \A o \in hand' : o \in hand \/ \E t \in Traces : AckClaims(p, t) /\ o = outcome(t)
  BY <1>3
<1>17. \A t \in Traces : AckClaims(p, t) => outcome(t) \in hand'
  BY <1>3
<1>18. \A o \in hand : o \in hand' /\ o.trace \in Traces
  BY <1>1, <1>3 DEF Shape, Outcomes
<1>19. hand' \subseteq Outcomes
  BY <1>1, <1>15, <1>16 DEF Shape
<1> HIDE DEF outcome
<1>20. /\ PlanInv'
       /\ worker' \in [Partitions -> Instances \cup {None}]
       /\ plan' \in [Partitions -> SUBSET Steps] /\ taken' \in [Partitions -> SUBSET Steps]
       /\ upto' \in [Partitions -> Nat]
  BY <1>1, <1>2, <1>7, <1>8, EndedLawful
<1>21. row' \in [Traces -> Rows] /\ failed' \in [Traces -> Nat]
  BY <1>2, <1>11, <1>12
<1>22. Shape'
  BY <1>1, <1>2, <1>8, <1>19, <1>20, <1>21 DEF Shape
<1>23. TableInv'
  <2>1. ASSUME NEW t \in Traces, row'[t].is = "absent"
        PROVE  row'[t] = NoRow /\ Settled(t)' /\ failed'[t] = 0
    <3>1. row[t].is = "absent" /\ row'[t] = row[t]
      BY <1>11, <2>1
    <3>2. row[t] = NoRow /\ Settled(t) /\ failed[t] = 0
      BY <1>1, <3>1 DEF TableInv, AbsentInv
    <3> QED
      BY <1>9, <1>12, <3>1, <3>2
  <2>2. ASSUME NEW t \in Traces PROVE row'[t].pending >= 0
    <3>1. CASE row[t].is = "present"
      BY <1>13, <3>1
    <3>2. CASE row[t].is # "present"
      BY <1>1, <1>11, <3>2 DEF TableInv, PendingInv
    <3> QED
      BY <3>1, <3>2
  <2>3. CountdownExact'
    BY <1>11, <1>13 DEF CountdownExact
  <2> QED
    BY <2>1, <2>2, <2>3 DEF TableInv, AbsentInv, PendingInv
<1>24. HandInv'
  <2>1. ASSUME NEW o \in hand'
        PROVE  /\ row'[o.trace].notified /\ row'[o.trace].is # "absent"
               /\ Settled(o.trace)' /\ o.failures = failed'[o.trace] /\ sends[o.trace] = 0
    <3>1. CASE o \in hand
      <4>1. /\ row[o.trace].notified /\ row[o.trace].is # "absent" /\ Settled(o.trace)
            /\ o.failures = failed[o.trace] /\ sends[o.trace] = 0 /\ o.trace \in Traces
        BY <1>1, <1>18, <3>1 DEF HandInv
      <4> QED
        BY <1>9, <1>11, <1>12, <4>1
    <3>2. ASSUME NEW t \in Traces, AckClaims(p, t), o = outcome(t)
          PROVE  /\ row'[o.trace].notified /\ row'[o.trace].is # "absent"
                 /\ Settled(o.trace)' /\ o.failures = failed'[o.trace] /\ sends[o.trace] = 0
      <4>1. o.trace = t /\ o.failures = Counted(p, t).failures
        BY <1>15, <3>2
      <4>2. /\ Settled(t)' /\ Counted(p, t).failures = failed'[t] /\ row'[t].notified
            /\ row'[t].is = "present" /\ ~row[t].notified
        BY <1>14, <3>2
      <4>3. sends[t] = 0
        <5>1. (sends[t] > 0 => row[t].notified) /\ sends[t] \in Nat
          BY <1>1, <1>4 DEF HandInv
        <5>2. ~(sends[t] > 0)
          BY <4>2, <5>1
        <5> QED
          BY <5>1, <5>2
      <4> QED
        BY <4>1, <4>2, <4>3
    <3> QED
      BY <1>16, <3>1, <3>2
  <2>2. ASSUME NEW o \in hand', NEW u \in hand', o.trace = u.trace PROVE o = u
    <3>1. \A x \in hand : row[x.trace].notified
      BY <1>1 DEF HandInv
    <3>2. \A t \in Traces : AckClaims(p, t) => ~row[t].notified /\ outcome(t).trace = t
      BY <1>14, <1>15
    <3>3. \A x, y \in hand : x.trace = y.trace => x = y
      BY <1>1 DEF HandInv
    <3>4. CASE o \in hand /\ u \in hand
      BY <2>2, <3>3, <3>4
    <3>5. ASSUME NEW x \in hand, NEW t \in Traces, AckClaims(p, t), x.trace = outcome(t).trace PROVE FALSE
      BY <3>1, <3>2, <3>5
    <3>6. ASSUME NEW t \in Traces, NEW v \in Traces, AckClaims(p, t), AckClaims(p, v),
                 o = outcome(t), u = outcome(v)
          PROVE  o = u
      BY <2>2, <3>2, <3>6
    <3>7. CASE o \notin hand
      <4>1. PICK t \in Traces : AckClaims(p, t) /\ o = outcome(t)
        BY <1>16, <3>7
      <4>2. u \notin hand
        BY <2>2, <3>5, <4>1
      <4>3. PICK v \in Traces : AckClaims(p, v) /\ u = outcome(v)
        BY <1>16, <4>2
      <4> QED
        BY <3>6, <4>1, <4>3
    <3>8. CASE u \notin hand /\ o \in hand
      <4>1. PICK t \in Traces : AckClaims(p, t) /\ u = outcome(t)
        BY <1>16, <3>8
      <4> QED
        BY <2>2, <3>5, <3>8, <4>1
    <3> QED
      BY <3>4, <3>7, <3>8
  <2>3. ASSUME NEW t \in Traces PROVE sends[t] <= 1 /\ (sends[t] > 0 => row'[t].notified)
    BY <1>1, <1>11 DEF HandInv
  <2> QED
    BY <1>2, <2>1, <2>2, <2>3 DEF HandInv
<1>25. ChanInv'
  <2>1. \A g \in Subs : sub[g].state # "none" => sub[g].trace \in Traces
    BY <1>1, Taken
  <2>2. ASSUME NEW g \in Subs, chan[g].state = "Completed"
        PROVE  /\ sub[g].state # "none" /\ row'[sub[g].trace].is # "absent"
               /\ Settled(sub[g].trace)' /\ chan[g].failures = failed'[sub[g].trace]
    <3>1. /\ sub[g].state # "none" /\ row[sub[g].trace].is # "absent" /\ sub[g].trace \in Traces
          /\ Settled(sub[g].trace) /\ chan[g].failures = failed[sub[g].trace]
      BY <1>1, <2>1, <2>2 DEF ChanInv
    <3>2. \A t \in Traces : Settled(t) => Settled(t)' /\ failed'[t] = failed[t]
      BY <1>9, <1>12
    <3>3. \A t \in Traces : row'[t].is = row[t].is
      BY <1>11
    <3>4. sub' = sub
      BY <1>2
    <3> QED
      BY <3>1, <3>2, <3>3, <3>4
  <2> QED
    BY <1>2, <2>2 DEF ChanInv
<1>26. RegistryInv'
  BY <1>1, <1>2, RegistryFrame
<1>27. StampedInHand'
  <2>1. ASSUME NEW t \in Traces, row'[t].notified, entries[t] # None, sub[entries[t]].early
        PROVE  \E o \in hand' : o.trace = t /\ o.at = Owner[t]
    <3>1. CASE row[t].notified
      BY <1>1, <1>18, <2>1, <3>1 DEF StampedInHand
    <3>2. CASE AckClaims(p, t)
      BY <1>14, <1>15, <1>17, <3>2
    <3> QED
      BY <1>11, <2>1, <3>1, <3>2
  <2> QED
    BY <1>2, <2>1 DEF StampedInHand
<1> QED
  BY <1>20, <1>22, <1>23, <1>24, <1>25, <1>26, <1>27 DEF IndInv

-----------------------------------------------------------------------------
(* The specification.                                                      *)

\* Every step keeps the invariant.
LEMMA StepInd ==
    ASSUME IndInv, [Next /\ UNCHANGED deploy]_<<vars, deploy>>
    PROVE  IndInv'
<1>1. CASE UNCHANGED <<vars, deploy>>
  <2>1. /\ page \in [Instances -> SUBSET Traces] /\ rpage \in [Instances -> SUBSET Traces]
        /\ faults \in 0..MaxFaults
    BY DEF IndInv, Shape
  <2> QED
    BY <1>1, <2>1, ReadInd DEF vars
<1>2. CASE Next /\ UNCHANGED deploy
  <2>0. UNCHANGED deploy
    BY <1>2
  <2>1. CASE SubscriberStep
    BY <2>0, <2>1, SubmitInd, SubscribeInd, SubscriberInd, CloseInd DEF SubscriberStep
  <2>2. ASSUME NEW p \in Partitions, AckStep(p) PROVE IndInv'
    BY <2>0, <2>2, AckBeginInd, AckExecInd, AckCommitInd, AckAbortInd DEF AckStep
  <2>3. ASSUME NEW o \in hand, Deliver(o) PROVE IndInv'
    BY <2>0, <2>3, DeliverInd
  <2>4. ASSUME NEW i \in Instances, NotifierStep(i) PROVE IndInv'
    BY <2>0, <2>4, ReadersInd, NotifierInd DEF NotifierStep
  <2>5. ASSUME NEW i \in Instances, ReporterStep(i) PROVE IndInv'
    BY <2>0, <2>5, ReadersInd, ReporterInd DEF ReporterStep
  <2>6. CASE SweeperStep
    BY <2>0, <2>6, SweepersInd, SweepInd DEF SweeperStep
  <2> QED
    BY <1>2, <2>1, <2>2, <2>3, <2>4, <2>5, <2>6 DEF Next
<1> QED
  BY <1>1, <1>2

\* The invariant holds of every state the specification reaches.
THEOREM Inductive == Spec => []IndInv
<1>1. Init => IndInv
  BY InitInd
<1>2. IndInv /\ [Next /\ UNCHANGED deploy]_<<vars, deploy>> => IndInv'
  BY StepInd
<1> QED
  BY <1>1, <1>2, PTL DEF Spec

\* Pending counts the messages no ack has settled, failures the dead letters, and
\* completed says that nothing is left, whatever acks of other partitions did to
\* the row in the meantime.
THEOREM CountdownCorrect == Spec => []CountdownExact
<1>1. IndInv => CountdownExact
  BY DEF IndInv, TableInv
<1> QED
  BY <1>1, Inductive, PTL

\* A subscriber is told what is true and final, and a completion is announced at
\* most once.
THEOREM CompletionCorrect == Spec => []CompletionSound
<1>1. ASSUME IndInv PROVE CompletionSound
  <2>1. Shape /\ ChanInv /\ HandInv
    BY <1>1 DEF IndInv
  <2>2. ASSUME NEW g \in Subs, chan[g].state = "Completed"
        PROVE  Unsettled(sub[g].trace) = {} /\ chan[g].failures = failed[sub[g].trace]
    <3>1. /\ sub[g].state # "none" /\ Settled(sub[g].trace)
          /\ chan[g].failures = failed[sub[g].trace]
      BY <2>1, <2>2 DEF ChanInv
    <3>2. sub[g].trace \in Traces
      BY <2>1, <3>1, Taken
    <3>3. queue \in [Partitions -> Seq(Traces)]
      BY <2>1 DEF Shape
    <3>4. NoneIn(queue, sub[g].trace)
      BY <3>1 DEF Settled
    <3>5. Pairs(At(queue, sub[g].trace)) = {}
      BY <3>2, <3>3, <3>4, Counting
    <3>6. Unsettled(sub[g].trace) = {}
      BY <3>5, UnsettledAre
    <3> QED
      BY <3>1, <3>6
  <2>3. \A t \in Traces : sends[t] <= 1
    BY <2>1 DEF HandInv
  <2> QED
    BY <2>2, <2>3 DEF CompletionSound, CompletionTrue, AnnouncedOnce
<1> QED
  BY <1>1, Inductive, PTL

\* The registry knows the newest subscription that waits, and a completion that
\* was stamped while one waits is in the hands of its owner.
THEOREM RegistryCorrect == Spec => []RegistrySound
<1>1. ASSUME IndInv PROVE RegistrySound
  <2>1. Shape /\ PlanInv /\ TableInv /\ RegistryInv /\ StampedInHand
    BY <1>1 DEF IndInv
  <2>2. ASSUME NEW p \in Partitions
        PROVE  /\ \A k \in 1..Len(queue[p]) : queue[p][k] \in Traces
               /\ worker[p] \in Instances \cup {None}
               /\ plan[p] \subseteq Steps /\ taken[p] \subseteq plan[p]
               /\ upto[p] <= Len(queue[p])
    BY <2>1 DEF Shape, PlanInv, Lawful
  <2>3. \A o \in hand : o.trace \in Traces /\ o.by \in Partitions \cup Instances
    BY <2>1 DEF Shape, Outcomes
  <2>4. ASSUME NEW g \in Subs
        PROVE  sub[g].state \in {"none", "waiting", "dropped", "told", "None"}
    <3>1. sub[g] \in Subscriptions
      BY <2>1 DEF Shape
    <3> QED
      BY <3>1 DEF Subscriptions
  <2>5. \A i \in Instances : page[i] \cup rpage[i] \subseteq Traces
    BY <2>1 DEF Shape
  <2>6. TypeOK
    BY <2>1, <2>2, <2>3, <2>4, <2>5 DEF TypeOK, Shape, TableInv, PendingInv
  <2> QED
    BY <2>1, <2>6 DEF RegistrySound, RegistryInv
<1> QED
  BY <1>1, Inductive, PTL

\* Acks whose statements are of one group take row locks in the order of the
\* traces, so no two wait for each other.
THEOREM AcksNeverDeadlock == Spec => []NoLockCycle
<1>1. ASSUME IndInv PROVE NoLockCycle
  <2> SUFFICES ASSUME ~deploy.partial, NEW p \in Partitions, NEW q \in Partitions,
                      WaitsFor(p, q), WaitsFor(q, p)
               PROVE  FALSE
    BY DEF NoLockCycle, SortedNeverDeadlocks
  <2>1. /\ Lawful(queue[p], upto[p], worker[p], plan[p], taken[p], deploy.partial)
        /\ Lawful(queue[q], upto[q], worker[q], plan[q], taken[q], deploy.partial)
        /\ plan[p] \subseteq Steps /\ plan[q] \subseteq Steps
    BY <1>1 DEF IndInv, PlanInv, Shape
  <2>2. PICK x \in plan[p] \ taken[p], y \in taken[q] : y.trace = x.trace
    BY DEF WaitsFor
  <2>3. PICK u \in plan[q] \ taken[q], v \in taken[p] : v.trace = u.trace
    BY DEF WaitsFor
  <2>4. /\ v \in plan[p] /\ v.phase = x.phase /\ (v.phase < x.phase \/ v.trace < x.trace)
        /\ y \in plan[q] /\ y.phase = u.phase /\ (y.phase < u.phase \/ y.trace < u.trace)
    BY <2>1, <2>2, <2>3 DEF Lawful
  <2>5. \A s \in Steps : s.trace \in Int /\ s.phase \in Int
    BY StepsSort
  <2>6. /\ x \in Steps /\ y \in Steps /\ u \in Steps /\ v \in Steps
    BY <2>1, <2>2, <2>3, <2>4
  <2>7. v.trace < x.trace /\ y.trace < u.trace
    BY <2>4, <2>5, <2>6
  <2> QED
    BY <2>2, <2>3, <2>5, <2>6, <2>7
<1> QED
  BY <1>1, Inductive, PTL

\* A completion that is in a channel stays there: neither a later completion nor
\* a reporter with a sender from before it can take it back.
THEOREM CompletionKept == Spec => CompletionStays
<1>1. ASSUME IndInv, [Next /\ UNCHANGED deploy]_<<vars, deploy>>
      PROVE  [\A g \in Subs : chan[g].state = "Completed" => chan'[g] = chan[g]]_vars
  <2> SUFFICES ASSUME Next, NEW g \in Subs, chan[g].state = "Completed"
               PROVE  chan'[g] = chan[g]
    BY <1>1 DEF vars
  <2>0. /\ \A t \in Traces : entries[t] # None => entries[t] \in Subs /\ entries[t] # g
        /\ DOMAIN chan = Subs
    BY <1>1 DEF IndInv, Shape, RegistryInv, EntryInv
  <2>1. CASE SubscriberStep
    BY <2>1 DEF SubscriberStep, Submit, Subscribe, DropSub, Resolve, Close
  <2>2. ASSUME NEW p \in Partitions, AckStep(p) PROVE chan' = chan
    BY <2>2 DEF AckStep, AckBegin, BeginAck, AckExec, AckCommit, AckAbort
  <2>3. ASSUME NEW o \in hand, Deliver(o) PROVE chan'[g] = chan[g]
    <3>1. o.trace \in Traces
      BY <1>1 DEF IndInv, Shape, Outcomes
    <3> QED
      BY <2>0, <2>3, <3>1 DEF Deliver
  <2>4. ASSUME NEW i \in Instances, NotifierStep(i) PROVE chan' = chan
    BY <2>4 DEF NotifierStep, NotifierRead, NotifierFails, NotifierClaim
  <2>5. ASSUME NEW i \in Instances, ReporterStep(i) PROVE chan'[g] = chan[g]
    <3>1. CASE ReporterRead(i) \/ ReporterClone(i) \/ ReporterDone(i)
      BY <3>1 DEF ReporterRead, ReporterClone, ReporterDone
    <3>2. ASSUME NEW t \in Traces, ReporterPublish(i, t) PROVE chan'[g] = chan[g]
      BY <2>0, <3>2 DEF ReporterPublish
    <3>3. ASSUME NEW h \in Subs, ReporterClear(i, h) PROVE chan'[g] = chan[g]
      <4>1. chan[h].state = "Retrying" => h # g
        OBVIOUS
      <4> QED
        BY <2>0, <3>3, <4>1 DEF ReporterClear, ClearRetrying
    <3> QED
      BY <2>5, <3>1, <3>2, <3>3 DEF ReporterStep
  <2>6. CASE SweeperStep
    BY <2>6 DEF SweeperStep, Age, SweepSelect, SweepDelete
  <2> QED
    BY <2>1, <2>2, <2>3, <2>4, <2>5, <2>6 DEF Next
<1> QED
  BY <1>1, Inductive, PTL DEF Spec, CompletionStays
=============================================================================
