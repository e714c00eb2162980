------------------------- MODULE DispatchPoolProofs -------------------------
(* Theorems about DispatchPool for any tasks, workers, queue sizes and     *)
(* numbers of deaths, cancels and reloads.  The invariant follows every    *)
(* message: it is in the inbox, in one place of one queue, among the       *)
(* orphans once, or it has been begun or dropped.                          *)
EXTENDS DispatchPool, SequenceLemmas

(* A message is in one queue only, once, or put back, once.  A worker has  *)
(* it among its managed tasks once.                                        *)
NoCopies ==
    /\ \A v, w \in Slot : \A i \in DOMAIN queue[v], j \in DOMAIN queue[w] :
          queue[v][i] = queue[w][j] /\ queue[v][i] # Quit => v = w /\ i = j
    /\ IsInjective(orphaned)
    /\ \A w \in Slot : \A i \in DOMAIN orphaned : orphaned[i] \notin Queued(w)
    /\ \A w \in Slot : IsInjective(managed[w])

(* A message that waits has not been begun and is neither unreceived nor   *)
(* dropped.                                                                *)
Waiting(t) == Contains(orphaned, t) \/ \E w \in Slot : t \in Queued(w)
Fresh ==
    /\ \A t \in Task : Waiting(t) => begun[t] = 0 /\ t \notin inbox /\ t \notin lost
    /\ \A t \in inbox \cup lost : begun[t] = 0
    /\ inbox \cap lost = {}

InHand == \A w \in Slot : cur[w] # None => begun[cur[w]] > 0

(* Without refusals a worker's managed tasks are the one in hand and those *)
(* in its queue, in this order.                                            *)
Orderly(w) ==
    /\ \A k \in DOMAIN managed[w] : managed[w][k] = cur[w] \/ managed[w][k] \in Queued(w)
    /\ cur[w] # None => managed[w] # <<>> /\ managed[w][1] = cur[w]
    /\ \A i, j \in DOMAIN queue[w], k, l \in DOMAIN managed[w] :
          i < j /\ managed[w][k] = queue[w][i] /\ managed[w][l] = queue[w][j] => k < l
Ordered == refused = {} => \A w \in Slot : Orderly(w)

IInv == /\ TypeOK /\ NoTaskTwice /\ NothingLost /\ WorkIsManaged /\ NothingAbandoned
        /\ NoCopies /\ Fresh /\ InHand /\ Ordered

-----------------------------------------------------------------------------
(***************************************************************************)
(* The messages of dead workers.                                           *)
(***************************************************************************)
LEMMA MessagesFacts ==
    ASSUME TypeOK, NEW w \in Slot
    PROVE  /\ Messages(w) \in Seq(Task)
           /\ \A k \in DOMAIN Messages(w) : Messages(w)[k] \in Queued(w)
           /\ \A t \in Queued(w) : \E k \in DOMAIN Messages(w) : Messages(w)[k] = t
           /\ NoCopies => IsInjective(Messages(w))
<1> DEFINE q == queue[w]
           ss == [i \in DOMAIN q |-> IF q[i] = Quit THEN <<>> ELSE <<q[i]>>]
<1>1. q \in Seq(Task \cup {Quit})
  BY DEF TypeOK
<1>2. ss \in Seq(Seq(Task)) /\ Len(ss) = Len(q) /\ DOMAIN ss = DOMAIN q /\ DOMAIN q = 1..Len(q)
  <2>1. DOMAIN q = 1..Len(q) /\ Len(q) \in Nat
    BY <1>1
  <2>2. ASSUME NEW i \in DOMAIN q PROVE ss[i] \in Seq(Task)
    BY <1>1
  <2>3. ss \in [1..Len(q) -> Seq(Task)]
    BY <2>1, <2>2
  <2> QED
    BY <2>1, <2>3
<1>3. \A i \in DOMAIN q : \A j \in DOMAIN ss[i] : j = 1 /\ ss[i][j] = q[i] /\ q[i] # Quit
  OBVIOUS
<1>4. \A i \in DOMAIN q : q[i] # Quit => 1 \in DOMAIN ss[i] /\ ss[i][1] = q[i]
  OBVIOUS
<1>5. NoCopies => AllDistinct(ss)
  <2>1. SUFFICES ASSUME NoCopies, NEW i \in DOMAIN q, NEW j \in DOMAIN q,
                        NEW k \in DOMAIN ss[i], NEW l \in DOMAIN ss[j], ss[i][k] = ss[j][l]
                 PROVE  i = j /\ k = l
    BY <1>2 DEF AllDistinct
  <2>2. k = 1 /\ l = 1 /\ q[i] = q[j] /\ q[i] # Quit
    BY <1>3, <2>1
  <2> QED
    BY <2>1, <2>2 DEF NoCopies
<1>6. Messages(w) = FlattenSeq(ss)
  BY DEF Messages
<1> HIDE DEF ss
<1>7. /\ Messages(w) \in Seq(Task)
      /\ Gathers(ss, Len(ss), Messages(w))
      /\ NoCopies => IsInjective(Messages(w))
  BY <1>2, <1>5, <1>6, FlattenSeqGathers
<1>8. ASSUME NEW k \in DOMAIN Messages(w) PROVE Messages(w)[k] \in Queued(w)
  <2>1. PICK i \in 1..Len(ss) : \E j \in DOMAIN ss[i] : Messages(w)[k] = ss[i][j]
    BY <1>7 DEF Gathers
  <2> QED
    BY <2>1, <1>2, <1>3 DEF Queued
<1>9. ASSUME NEW t \in Queued(w) PROVE \E k \in DOMAIN Messages(w) : Messages(w)[k] = t
  <2>1. PICK i \in DOMAIN q : q[i] = t /\ q[i] # Quit
    BY DEF Queued
  <2> QED
    BY <2>1, <1>2, <1>4, <1>7 DEF Gathers
<1> QED
  BY <1>7, <1>8, <1>9

(* A cleanup gathers all that waits in the queues of the dead workers.     *)
LEMMA OrphansFacts ==
    ASSUME TypeOK, NEW order \in SetToSeqs(Gone),
           NEW o, o = FlattenSeq([i \in DOMAIN order |-> Messages(order[i])])
    PROVE  /\ o \in Seq(Task)
           /\ \A k \in DOMAIN o : \E w \in Gone : o[k] \in Queued(w)
           /\ \A w \in Gone : \A t \in Queued(w) : \E k \in DOMAIN o : o[k] = t
           /\ NoCopies => IsInjective(o)
<1> DEFINE ss == [i \in DOMAIN order |-> Messages(order[i])]
<1>1. Gone \subseteq Slot /\ IsFiniteSet(Gone)
  <2>1. Gone \in SUBSET Slot
    BY DEF Gone, TypeOK
  <2>2. IsFiniteSet(Slot)
    BY PoolAssumption
  <2> QED
    BY <2>1, <2>2, FS_Subset
<1>2. /\ order \in Seq(Gone) /\ IsInjective(order)
      /\ \A w \in Gone : \E i \in DOMAIN order : order[i] = w
  BY <1>1, SetToSeqsOrders
<1>3. \A i \in DOMAIN order : order[i] \in Gone /\ order[i] \in Slot
  BY <1>1, <1>2
<1>4. ss \in Seq(Seq(Task)) /\ Len(ss) = Len(order) /\ DOMAIN ss = DOMAIN order /\ DOMAIN order = 1..Len(order)
  <2>1. DOMAIN order = 1..Len(order) /\ Len(order) \in Nat
    BY <1>2
  <2>2. ASSUME NEW i \in DOMAIN order PROVE ss[i] \in Seq(Task)
    BY <1>3, MessagesFacts
  <2>3. ss \in [1..Len(order) -> Seq(Task)]
    BY <2>1, <2>2
  <2> QED
    BY <2>1, <2>3
<1>5. \A i \in DOMAIN order : ss[i] = Messages(order[i])
  OBVIOUS
<1> HIDE DEF ss
<1>6. NoCopies => AllDistinct(ss)
  <2>1. SUFFICES ASSUME NoCopies, NEW i \in DOMAIN order, NEW j \in DOMAIN order,
                        NEW k \in DOMAIN ss[i], NEW l \in DOMAIN ss[j], ss[i][k] = ss[j][l]
                 PROVE  i = j /\ k = l
    BY <1>4 DEF AllDistinct
  <2>2. ss[i][k] \in Queued(order[i]) /\ ss[i][k] \in Queued(order[j])
    BY <1>3, <1>5, <2>1, MessagesFacts
  <2>3. order[i] = order[j]
    BY <1>3, <2>1, <2>2 DEF NoCopies, Queued
  <2>4. i = j
    BY <1>2, <2>3 DEF IsInjective
  <2>5. IsInjective(Messages(order[i]))
    BY <1>3, <2>1, MessagesFacts
  <2> QED
    BY <1>5, <2>1, <2>4, <2>5 DEF IsInjective
<1>7. o \in Seq(Task) /\ Gathers(ss, Len(ss), o) /\ (NoCopies => IsInjective(o))
  <2>1. o = FlattenSeq(ss)
    BY DEF ss
  <2> QED
    BY <2>1, <1>4, <1>6, FlattenSeqGathers
<1>8. ASSUME NEW k \in DOMAIN o PROVE \E w \in Gone : o[k] \in Queued(w)
  <2>1. PICK i \in 1..Len(ss) : \E j \in DOMAIN ss[i] : o[k] = ss[i][j]
    BY <1>7 DEF Gathers
  <2>2. i \in DOMAIN order /\ \E j \in DOMAIN Messages(order[i]) : o[k] = Messages(order[i])[j]
    BY <2>1, <1>4, <1>5
  <2> QED
    BY <2>2, <1>3, MessagesFacts
<1>9. ASSUME NEW w \in Gone, NEW t \in Queued(w) PROVE \E k \in DOMAIN o : o[k] = t
  <2>1. PICK i \in DOMAIN order : order[i] = w
    BY <1>2
  <2>2. PICK j \in DOMAIN ss[i] : ss[i][j] = t
    BY <2>1, <1>3, <1>5, MessagesFacts
  <2> QED
    BY <2>2, <1>4, <1>7 DEF Gathers
<1> QED
  BY <1>7, <1>8, <1>9

-----------------------------------------------------------------------------
(***************************************************************************)
(* The registered tasks.                                                   *)
(***************************************************************************)
LEMMA ContainsFacts ==
    ASSUME NEW S, NEW s \in Seq(S), NEW t
    PROVE  Contains(s, t) <=> \E i \in DOMAIN s : s[i] = t
BY DEF Contains

LEMMA WithoutFacts ==
    ASSUME NEW s \in Seq(Task), NEW t, IsInjective(s)
    PROVE  /\ Without(s, t) \in Seq(Task)
           /\ IsInjective(Without(s, t))
           /\ \A u : Contains(s, u) /\ u # t => Contains(Without(s, t), u)
           /\ s # <<>> /\ s[1] = t => \A k \in DOMAIN Without(s, t) :
                 k \in Nat /\ k + 1 \in DOMAIN s /\ k + 1 # 1 /\ Without(s, t)[k] = s[k + 1]
<1>1. CASE ~Contains(s, t)
  <2>1. Without(s, t) = s
    BY <1>1 DEF Without
  <2>2. ~(s # <<>> /\ s[1] = t)
    BY <1>1, ContainsFacts
  <2> QED
    BY <2>1, <2>2
<1>2. CASE Contains(s, t)
  <2> DEFINE i == CHOOSE i \in DOMAIN s : s[i] = t
             r == RemoveAt(s, i)
  <2>1. i \in DOMAIN s /\ s[i] = t
    BY <1>2, ContainsFacts
  <2>2. Without(s, t) = r
    BY <1>2 DEF Without
  <2> HIDE DEF i
  <2>3. /\ r \in Seq(Task) /\ DOMAIN r = 1..(Len(s) - 1)
        /\ \A k \in DOMAIN r : r[k] = IF k < i THEN s[k] ELSE s[k + 1]
    BY <2>1, RemoveAtFacts
  <2> HIDE DEF r
  <2>4. Len(s) \in Nat /\ DOMAIN s = 1..Len(s) /\ i \in 1..Len(s)
    BY <2>1
  <2>5. IsInjective(r)
    <3>1. SUFFICES ASSUME NEW k \in DOMAIN r, NEW l \in DOMAIN r, r[k] = r[l] PROVE k = l
      BY DEF IsInjective
    <3>2. /\ k \in Int /\ l \in Int
          /\ k \in DOMAIN s /\ k + 1 \in DOMAIN s /\ l \in DOMAIN s /\ l + 1 \in DOMAIN s
      BY <2>3, <2>4
    <3>3. \A a, b \in DOMAIN s : s[a] = s[b] => a = b
      BY DEF IsInjective
    <3>4. (IF k < i THEN k ELSE k + 1) = (IF l < i THEN l ELSE l + 1)
      BY <2>3, <3>1, <3>2, <3>3
    <3> QED
      BY <2>4, <3>2, <3>4
  <2>6. ASSUME NEW u, Contains(s, u), u # t PROVE Contains(r, u)
    <3>1. PICK k \in DOMAIN s : s[k] = u
      BY <2>6, ContainsFacts
    <3>2. k # i /\ k \in 1..Len(s)
      BY <2>1, <2>4, <2>6, <3>1
    <3>3. CASE k < i
      <4>1. k \in DOMAIN r
        BY <2>3, <2>4, <3>2, <3>3
      <4> QED
        BY <2>3, <3>1, <3>3, <4>1, ContainsFacts
    <3>4. CASE k > i
      <4>1. k - 1 \in DOMAIN r /\ ~(k - 1 < i) /\ (k - 1) + 1 = k
        BY <2>3, <2>4, <3>2, <3>4
      <4> QED
        BY <2>3, <3>1, <4>1, ContainsFacts
    <3> QED
      BY <2>4, <3>2, <3>3, <3>4
  <2>7. ASSUME s # <<>>, s[1] = t, NEW k \in DOMAIN r
        PROVE  k \in Nat /\ k + 1 \in DOMAIN s /\ k + 1 # 1 /\ r[k] = s[k + 1]
    <3>1. i = 1
      <4>1. 1 \in DOMAIN s
        BY <2>4, <2>7
      <4> QED
        BY <2>1, <2>7, <4>1 DEF IsInjective
    <3>2. k \in 1..(Len(s) - 1) /\ ~(k < 1)
      BY <2>3, <2>4
    <3>3. k \in Nat /\ k + 1 \in DOMAIN s /\ k + 1 # 1
      BY <2>4, <3>2
    <3> QED
      BY <2>3, <3>1, <3>2, <3>3
  <2> QED
    BY <2>2, <2>3, <2>5, <2>6, <2>7
<1> QED
  BY <1>1, <1>2

LEMMA RegisterFacts ==
    ASSUME TypeOK, NEW t \in Task, NEW ws, NEW w \in Slot
    PROVE  /\ Register(t, ws)[w] \in Seq(Task)
           /\ \A u : Contains(managed[w], u) => Contains(Register(t, ws)[w], u)
           /\ w \in ws => Contains(Register(t, ws)[w], t)
           /\ IsInjective(managed[w]) => IsInjective(Register(t, ws)[w])
           /\ \/ Register(t, ws)[w] = managed[w]
              \/ w \in ws /\ ~Contains(managed[w], t) /\ Register(t, ws)[w] = Append(managed[w], t)
<1> DEFINE s == managed[w]
           r == Register(t, ws)[w]
<1>1. s \in Seq(Task)
  BY DEF TypeOK
<1>2. r = IF w \in ws /\ ~Contains(s, t) THEN Append(s, t) ELSE s
  BY DEF Register
<1> HIDE DEF s, r
<1>3. CASE w \in ws /\ ~Contains(s, t)
  <2>1. /\ r \in Seq(Task) /\ DOMAIN r = DOMAIN s \cup {Len(s) + 1} /\ Len(s) + 1 \notin DOMAIN s
        /\ \A i \in DOMAIN s : r[i] = s[i]
        /\ r[Len(s) + 1] = t
    BY <1>1, <1>2, <1>3, AppendFacts
  <2>2. \A i \in DOMAIN s : s[i] # t
    BY <1>1, <1>3, ContainsFacts
  <2>3. \A u : Contains(s, u) => Contains(r, u)
    BY <1>1, <2>1, ContainsFacts
  <2>4. Contains(r, t)
    BY <2>1, ContainsFacts
  <2>5. IsInjective(s) => IsInjective(r)
    BY <2>1, <2>2 DEF IsInjective
  <2> QED
    BY <1>2, <1>3, <2>1, <2>3, <2>4, <2>5 DEF r, s
<1>4. CASE ~(w \in ws /\ ~Contains(s, t))
  BY <1>1, <1>2, <1>4 DEF r, s
<1> QED
  BY <1>3, <1>4

(* What writing a message does: it ends up in one queue or is dropped. *)
Sent(t, w, ws) ==
    /\ w \in pool' /\ w \in ws
    /\ queue' = [queue EXCEPT ![w] = Append(@, t)]
    /\ lost' = lost
    /\ (refused' = refused /\ ws = {w}) \/ refused' = refused \cup {t}
Dropped(t) ==
    /\ queue' = queue
    /\ lost' = lost \cup {t}
    /\ refused' = refused \cup {t}

LEMMA GrownFacts ==
    ASSUME TypeOK, NEW base \in SUBSET Slot, NEW p \in Grown(base)
    PROVE  p \in SUBSET Slot /\ base \subseteq p
BY DEF Grown, Up, Free

LEMMA WriteFacts ==
    ASSUME TypeOK, NEW t \in Task, NEW base \in SUBSET Slot, pool \subseteq base, Write(t, base)
    PROVE  /\ pool \subseteq pool' /\ pool' \subseteq Slot
           /\ proc' \in [Slot -> {"none", "up", "gone"}]
           /\ \E ws \in SUBSET Slot :
                 /\ managed' = Register(t, ws)
                 /\ Dropped(t) \/ \E w \in Slot : Sent(t, w, ws)
<1>1. PICK p \in Grown(base) :
          /\ pool' = p
          /\ proc' = [w \in Slot |-> IF w \in p \ pool THEN "up" ELSE proc[w]]
          /\ Put(t, p)
  BY DEF Write
<1>2. p \in SUBSET Slot /\ base \subseteq p
  BY GrownFacts
<1>3. proc' \in [Slot -> {"none", "up", "gone"}]
  BY <1>1 DEF TypeOK
<1>4. \E ws \in SUBSET Slot : managed' = Register(t, ws) /\ (Dropped(t) \/ \E w \in Slot : Sent(t, w, ws))
  <2>1. CASE \E w \in p :
               /\ managed' = Register(t, {w})
               /\ queue' = [queue EXCEPT ![w] = Append(@, t)]
               /\ UNCHANGED <<refused, lost>>
    BY <1>1, <1>2, <2>1 DEF Sent
  <2>2. ASSUME NEW w \in p, NEW tried \in SUBSET p,
               managed' = Register(t, tried \cup {w}),
               queue' = [queue EXCEPT ![w] = Append(@, t)],
               refused' = IF tried = {} THEN refused ELSE refused \cup {t},
               UNCHANGED lost
        PROVE  \E ws \in SUBSET Slot : managed' = Register(t, ws) /\ \E v \in Slot : Sent(t, v, ws)
    <3> DEFINE ws == tried \cup {w}
    <3>1. ws \in SUBSET Slot /\ w \in ws /\ w \in Slot
      BY <1>2
    <3>2. Sent(t, w, ws)
      BY <1>1, <2>2 DEF Sent
    <3> QED
      BY <2>2, <3>1, <3>2
  <2>3. CASE \E tried \in SUBSET p :
               /\ managed' = Register(t, tried)
               /\ refused' = refused \cup {t}
               /\ lost' = lost \cup {t}
               /\ UNCHANGED queue
    BY <1>1, <1>2, <2>3 DEF Dropped
  <2> QED
    BY <1>1, <2>1, <2>2, <2>3 DEF Put
<1> QED
  BY <1>1, <1>2, <1>3, <1>4

LEMMA SentFacts ==
    ASSUME TypeOK, NoCopies, NEW t \in Task, NEW w \in Slot, NEW ws, Sent(t, w, ws),
           \A v \in Slot : t \notin Queued(v)
    PROVE  /\ queue' \in [Slot -> Seq(Task \cup {Quit})]
           /\ \A v \in Slot : v # w => queue'[v] = queue[v] /\ Queued(v)' = Queued(v)
           /\ Queued(w)' = Queued(w) \cup {t}
           /\ \A i \in DOMAIN queue'[w] :
                 \/ i \in DOMAIN queue[w] /\ queue'[w][i] = queue[w][i] /\ i < Len(queue[w]) + 1
                 \/ i = Len(queue[w]) + 1 /\ queue'[w][i] = t
           /\ \A u, v \in Slot : \A i \in DOMAIN queue'[u], j \in DOMAIN queue'[v] :
                 queue'[u][i] = queue'[v][j] /\ queue'[u][i] # Quit => u = v /\ i = j
<1> DEFINE q == queue[w]
           r == queue'[w]
<1>1. q \in Seq(Task \cup {Quit})
  BY DEF TypeOK
<1>2. queue' = [queue EXCEPT ![w] = Append(@, t)]
  BY DEF Sent
<1>3. r = Append(q, t) /\ \A v \in Slot : v # w => queue'[v] = queue[v]
  BY <1>2 DEF TypeOK
<1>4. /\ r \in Seq(Task \cup {Quit}) /\ DOMAIN r = DOMAIN q \cup {Len(q) + 1} /\ Len(q) + 1 \notin DOMAIN q
      /\ \A i \in DOMAIN q : r[i] = q[i] /\ i < Len(q) + 1
      /\ r[Len(q) + 1] = t
  BY <1>1, <1>3, AppendFacts
<1>5. queue' \in [Slot -> Seq(Task \cup {Quit})]
  BY <1>2, <1>3, <1>4 DEF TypeOK
<1>6. t # Quit
  BY PoolAssumption
<1>7. \A v \in Slot : v # w => Queued(v)' = Queued(v)
  BY <1>3 DEF Queued
<1>8. Queued(w)' = Queued(w) \cup {t}
  <2>1. Queued(w)' = {r[i] : i \in DOMAIN r} \ {Quit}
    BY DEF Queued
  <2>2. Queued(w) = {q[i] : i \in DOMAIN q} \ {Quit}
    BY DEF Queued
  <2> HIDE DEF q, r
  <2> QED
    BY <2>1, <2>2, <1>4, <1>6
<1>9. ASSUME NEW u \in Slot, NEW v \in Slot, NEW i \in DOMAIN queue'[u], NEW j \in DOMAIN queue'[v],
             queue'[u][i] = queue'[v][j], queue'[u][i] # Quit
      PROVE  u = v /\ i = j
  <2>1. \A x \in Slot : \A k \in DOMAIN queue'[x] :
           \/ k \in DOMAIN queue[x] /\ queue'[x][k] = queue[x][k]
           \/ x = w /\ k = Len(q) + 1 /\ queue'[x][k] = t
    BY <1>3, <1>4
  <2>2. \A x \in Slot : \A k \in DOMAIN queue[x] : queue[x][k] # t
    BY <1>6 DEF Queued
  <2>3. \A x, y \in Slot : \A k \in DOMAIN queue[x], l \in DOMAIN queue[y] :
           queue[x][k] = queue[y][l] /\ queue[x][k] # Quit => x = y /\ k = l
    BY DEF NoCopies
  <2> QED
    BY <2>1, <2>2, <2>3, <1>9
<1>10. \A i \in DOMAIN r : \/ i \in DOMAIN q /\ r[i] = q[i] /\ i < Len(q) + 1
                           \/ i = Len(q) + 1 /\ r[i] = t
  BY <1>4
<1> QED
  BY <1>3, <1>5, <1>7, <1>8, <1>9, <1>10

(* The message of a step that writes: it waits nowhere, and leaves the     *)
(* inbox or the orphans.                                                   *)
Moves(t) ==
    /\ UNCHANGED <<cur, begun, done, reaped>>
    /\ begun[t] = 0 /\ t \notin lost /\ \A w \in Slot : t \notin Queued(w)
    /\ t \notin inbox' /\ inbox' \subseteq inbox /\ \A u \in inbox : u = t \/ u \in inbox'
    /\ orphaned' \in Seq(Task) /\ IsInjective(orphaned') /\ ~Contains(orphaned', t)
    /\ \A u : Contains(orphaned', u) => Contains(orphaned, u)
    /\ \A u : Contains(orphaned, u) => u = t \/ Contains(orphaned', u)

LEMMA SendKeeps ==
    ASSUME IInv, NEW t \in Task, Moves(t), pool \subseteq pool', pool' \subseteq Slot,
           NEW ws \in SUBSET Slot, managed' = Register(t, ws),
           Dropped(t) \/ \E w \in Slot : Sent(t, w, ws)
    PROVE  /\ (NoTaskTwice /\ NothingLost /\ WorkIsManaged /\ NothingAbandoned)'
           /\ (NoCopies /\ Fresh /\ InHand /\ Ordered)'
           /\ queue' \in [Slot -> Seq(Task \cup {Quit})]
           /\ managed' \in [Slot -> Seq(Task)]
           /\ refused' \subseteq Task /\ lost' \subseteq Task
<1>1. TypeOK /\ NoCopies
  BY DEF IInv
<1>2. UNCHANGED <<cur, begun, done, reaped>> /\ begun[t] = 0
  BY DEF Moves
<1>3. \A v \in Slot : t \notin Queued(v)
  BY DEF Moves
<1>4. managed' \in [Slot -> Seq(Task)]
  <2>1. \A v \in Slot : Register(t, ws)[v] \in Seq(Task)
    BY <1>1, RegisterFacts
  <2>2. Register(t, ws) = [v \in Slot |-> Register(t, ws)[v]]
    BY DEF Register
  <2> QED
    BY <2>1, <2>2
<1>5. refused \subseteq refused' /\ refused' \subseteq Task /\ lost' \subseteq Task /\ lost \subseteq lost'
  BY <1>1 DEF Dropped, Sent, TypeOK
<1>6. /\ queue' \in [Slot -> Seq(Task \cup {Quit})]
      /\ \A v \in Slot : Queued(v)' \subseteq Queued(v) \cup {t}
      /\ \A v \in Slot : Queued(v) \subseteq Queued(v)'
      /\ \A u, v \in Slot : \A i \in DOMAIN queue'[u], j \in DOMAIN queue'[v] :
            queue'[u][i] = queue'[v][j] /\ queue'[u][i] # Quit => u = v /\ i = j
  <2>1. CASE Dropped(t)
    <3>1. queue' = queue /\ \A v \in Slot : Queued(v)' = Queued(v)
      BY <2>1 DEF Dropped, Queued
    <3> QED
      BY <3>1, <1>1 DEF TypeOK, NoCopies
  <2>2. ASSUME NEW w \in Slot, Sent(t, w, ws) PROVE <1>6!:
    BY <2>2, <1>1, <1>3, SentFacts
  <2> QED
    BY <2>1, <2>2
<1>7. NoTaskTwice' /\ InHand'
  BY <1>2 DEF IInv, NoTaskTwice, InHand
<1>8. NothingLost'
  <2>1. SUFFICES ASSUME NEW u \in Task, u \notin inbox', u \notin lost', begun'[u] = 0
                 PROVE  Contains(orphaned', u) \/ \E v \in pool' : u \in Queued(v)'
    BY DEF NothingLost
  <2>2. CASE u = t
    <3>1. PICK w \in Slot : Sent(t, w, ws)
      BY <2>1, <2>2 DEF Dropped
    <3>2. Queued(w)' = Queued(w) \cup {t}
      BY <3>1, <1>1, <1>3, SentFacts
    <3> QED
      BY <2>2, <3>1, <3>2 DEF Sent
  <2>3. CASE u # t
    <3>1. Contains(orphaned, u) \/ \E v \in pool : u \in Queued(v)
      BY <2>1, <2>3, <1>2, <1>5 DEF IInv, NothingLost, Moves
    <3>2. CASE Contains(orphaned, u)
      BY <3>2, <2>3 DEF Moves
    <3>3. CASE \E v \in pool : u \in Queued(v)
      BY <3>3, <1>6
    <3> QED
      BY <3>1, <3>2, <3>3
  <2> QED
    BY <2>2, <2>3
<1>9. WorkIsManaged'
  <2>1. SUFFICES ASSUME NEW v \in Slot, NEW u \in Queued(v)' \cup ({cur'[v]} \ {None})
                 PROVE  v \in pool' /\ Contains(managed'[v], u)
    BY DEF WorkIsManaged
  <2>2. CASE u \in Queued(v) \cup ({cur[v]} \ {None})
    <3>1. v \in pool /\ Contains(managed[v], u)
      BY <2>2 DEF IInv, WorkIsManaged
    <3> QED
      BY <3>1, <1>1, RegisterFacts
  <2>3. CASE u \notin Queued(v) \cup ({cur[v]} \ {None})
    <3>1. u = t /\ u \in Queued(v)'
      BY <2>1, <2>3, <1>2, <1>6
    <3>2. ~Dropped(t)
      BY <3>1, <1>3 DEF Dropped, Queued
    <3>3. PICK w \in Slot : Sent(t, w, ws)
      BY <3>2
    <3>4. v = w
      BY <3>1, <3>3, <1>1, <1>3, SentFacts
    <3>5. Contains(Register(t, ws)[w], t) /\ w \in pool'
      BY <3>3, <1>1, RegisterFacts DEF Sent
    <3> QED
      BY <3>1, <3>4, <3>5
  <2> QED
    BY <2>2, <2>3
<1>10. NothingAbandoned'
  BY <1>2, <1>5 DEF IInv, NothingAbandoned
<1>11. NoCopies'
  <2>1. IsInjective(orphaned')
    BY DEF Moves
  <2>2. ASSUME NEW v \in Slot, NEW i \in DOMAIN orphaned' PROVE orphaned'[i] \notin Queued(v)'
    <3>1. Contains(orphaned', orphaned'[i])
      BY ContainsFacts DEF Moves
    <3>2. Contains(orphaned, orphaned'[i]) /\ orphaned'[i] # t
      BY <3>1 DEF Moves
    <3>3. orphaned'[i] \notin Queued(v)
      BY <3>2, <1>1, ContainsFacts DEF NoCopies, TypeOK
    <3> QED
      BY <3>2, <3>3, <1>6
  <2>3. \A v \in Slot : IsInjective(managed'[v])
    BY <1>1, RegisterFacts DEF NoCopies
  <2> QED
    BY <2>1, <2>2, <2>3, <1>6 DEF NoCopies
<1>12. Fresh'
  <2>1. ASSUME NEW u \in Task, Waiting(u)'
        PROVE  begun'[u] = 0 /\ u \notin inbox' /\ u \notin lost'
    <3>1. CASE Waiting(u) /\ u # t
      <4>1. begun[u] = 0 /\ u \notin inbox /\ u \notin lost
        BY <3>1 DEF IInv, Fresh
      <4> QED
        BY <3>1, <4>1, <1>2 DEF Moves, Dropped, Sent
    <3>2. CASE ~Waiting(u) \/ u = t
      <4>1. ~Contains(orphaned', u)
        BY <3>2 DEF Waiting, Moves
      <4>2. PICK v \in Slot : u \in Queued(v)'
        BY <2>1, <4>1 DEF Waiting
      <4>3. u = t
        BY <3>2, <4>2, <1>6 DEF Waiting
      <4>4. ~Dropped(t)
        BY <4>2, <4>3, <1>3 DEF Dropped, Queued
      <4>5. lost' = lost
        BY <4>4 DEF Sent
      <4> QED
        BY <4>3, <4>5, <1>2 DEF Moves
    <3> QED
      BY <3>1, <3>2
  <2>2. (\A u \in inbox' \cup lost' : begun'[u] = 0) /\ inbox' \cap lost' = {}
    BY <1>2 DEF IInv, Fresh, Moves, Dropped, Sent
  <2> QED
    BY <2>1, <2>2 DEF Fresh
<1>13. Ordered'
  <2>1. SUFFICES ASSUME refused' = {}, NEW v \in Slot PROVE Orderly(v)'
    BY DEF Ordered
  <2>2. refused = {}
    BY <2>1, <1>5
  <2>3. PICK w \in Slot : Sent(t, w, ws) /\ ws = {w}
    BY <2>1 DEF Dropped, Sent
  <2>4. Orderly(v) /\ Orderly(w)
    BY <2>2 DEF IInv, Ordered
  <2>5. CASE v # w
    <3>1. queue'[v] = queue[v] /\ Queued(v)' = Queued(v)
      BY <2>3, <2>5, <1>1, <1>3, SentFacts
    <3>2. managed'[v] = managed[v]
      BY <2>3, <2>5, <1>1, RegisterFacts
    <3> QED
      BY <3>1, <3>2, <2>4, <1>2 DEF Orderly
  <2>6. CASE v = w
    <3> DEFINE m == managed[w]
               n == managed'[w]
    <3>1. m \in Seq(Task) /\ \A k \in DOMAIN m : m[k] # t
      <4>1. cur[w] # t
        <5>1. t # None
          BY PoolAssumption
        <5>2. cur[w] # None => begun[cur[w]] > 0
          BY DEF IInv, InHand
        <5> QED
          BY <1>2, <5>1, <5>2
      <4> QED
        BY <4>1, <2>4, <1>1, <1>3 DEF Orderly, TypeOK
    <3>2. n = Append(m, t)
      <4>1. ~Contains(m, t)
        BY <3>1, ContainsFacts
      <4> QED
        BY <4>1, <2>3 DEF Register
    <3>3. /\ DOMAIN n = DOMAIN m \cup {Len(m) + 1} /\ Len(m) + 1 \notin DOMAIN m
          /\ \A k \in DOMAIN m : n[k] = m[k] /\ k < Len(m) + 1
          /\ n[Len(m) + 1] = t
          /\ m # <<>> => 1 \in DOMAIN m
          /\ n # <<>>
      BY <3>1, <3>2, AppendFacts
    <3>4. /\ Queued(w)' = Queued(w) \cup {t}
          /\ \A i \in DOMAIN queue'[w] :
                 \/ i \in DOMAIN queue[w] /\ queue'[w][i] = queue[w][i] /\ i < Len(queue[w]) + 1
                 \/ i = Len(queue[w]) + 1 /\ queue'[w][i] = t
      BY <2>3, <1>1, <1>3, SentFacts
    <3>5. \A k \in DOMAIN n : n[k] = cur'[w] \/ n[k] \in Queued(w)'
      BY <2>4, <3>3, <3>4, <1>2 DEF Orderly
    <3>6. cur'[w] # None => n # <<>> /\ n[1] = cur'[w]
      BY <2>4, <3>3, <1>2 DEF Orderly
    <3>7. ASSUME NEW i \in DOMAIN queue'[w], NEW j \in DOMAIN queue'[w],
                 NEW k \in DOMAIN n, NEW l \in DOMAIN n,
                 i < j, n[k] = queue'[w][i], n[l] = queue'[w][j]
          PROVE  k < l
      <4>1. i \in DOMAIN queue[w] /\ queue'[w][i] = queue[w][i]
        <5>1. j \in Int /\ Len(queue[w]) + 1 \in Int /\ i \in Int
          BY <1>1, <1>6 DEF TypeOK
        <5>2. j <= Len(queue[w]) + 1
          BY <3>4, <5>1
        <5> QED
          BY <3>4, <3>7, <5>1, <5>2
      <4>2. queue[w][i] # t
        BY <1>3, PoolAssumption, <4>1 DEF Queued
      <4>3. k \in DOMAIN m /\ n[k] = m[k] /\ k < Len(m) + 1
        BY <3>3, <3>7, <4>1, <4>2
      <4>4. CASE l = Len(m) + 1
        BY <4>3, <4>4
      <4>5. CASE l \in DOMAIN m
        <5>1. n[l] = m[l] /\ m[l] # t
          BY <4>5, <3>1, <3>3
        <5>2. j \in DOMAIN queue[w] /\ queue'[w][j] = queue[w][j]
          BY <5>1, <3>4, <3>7
        <5> QED
          BY <5>1, <5>2, <4>1, <4>3, <4>5, <3>7, <2>4 DEF Orderly
      <4> QED
        BY <4>4, <4>5, <3>3
    <3> QED
      BY <2>6, <3>5, <3>6, <3>7 DEF Orderly
  <2> QED
    BY <2>5, <2>6
<1> QED
  BY <1>4, <1>5, <1>6, <1>7, <1>8, <1>9, <1>10, <1>11, <1>12, <1>13

LEMMA ReceiveKeeps ==
    ASSUME IInv, NEW t \in Task, Receive(t)
    PROVE  IInv'
<1>1. TypeOK
  BY DEF IInv
<1>2. /\ t \in inbox /\ inbox' = inbox \ {t} /\ Write(t, pool)
      /\ UNCHANGED <<cur, orphaned, cancel, begun, done, reaped, budget>>
  BY DEF Receive
<1>3. Moves(t)
  <2>1. begun[t] = 0 /\ ~Waiting(t) /\ t \notin lost
    BY <1>2 DEF IInv, Fresh
  <2> QED
    BY <1>1, <1>2, <2>1 DEF Moves, Waiting, IInv, NoCopies, TypeOK
<1>4. PICK ws \in SUBSET Slot : managed' = Register(t, ws) /\ (Dropped(t) \/ \E w \in Slot : Sent(t, w, ws))
  BY <1>1, <1>2, WriteFacts DEF TypeOK
<1>5. /\ pool \subseteq pool' /\ pool' \subseteq Slot
      /\ proc' \in [Slot -> {"none", "up", "gone"}]
  BY <1>1, <1>2, WriteFacts DEF TypeOK
<1>6. TypeOK'
  BY <1>1, <1>2, <1>3, <1>4, <1>5, SendKeeps DEF TypeOK
<1> QED
  BY <1>3, <1>4, <1>5, <1>6, SendKeeps DEF IInv

LEMMA RequeueKeeps ==
    ASSUME IInv, Requeue
    PROVE  IInv'
<1> DEFINE t == Head(orphaned)
<1>1. TypeOK /\ orphaned \in Seq(Task)
  BY DEF IInv, TypeOK
<1>2. /\ orphaned # <<>> /\ orphaned' = Tail(orphaned)
      /\ UNCHANGED <<cur, inbox, cancel, begun, done, reaped, budget>>
      /\ \E base \in IF pool = {} THEN Up(pool) ELSE {pool} : Write(t, base)
  BY DEF Requeue
<1>3. /\ t \in Task /\ 1 \in DOMAIN orphaned /\ t = orphaned[1]
      /\ orphaned' \in Seq(Task)
      /\ \A i \in DOMAIN orphaned' : i + 1 \in DOMAIN orphaned /\ i + 1 # 1 /\ orphaned'[i] = orphaned[i + 1]
      /\ \A i \in DOMAIN orphaned : i # 1 => i - 1 \in DOMAIN orphaned' /\ orphaned'[i - 1] = orphaned[i]
      /\ DOMAIN orphaned' \subseteq Nat \ {0}
  BY <1>1, <1>2, TailFacts
<1>4. PICK base \in SUBSET Slot : pool \subseteq base /\ Write(t, base)
  <2>1. PICK base \in IF pool = {} THEN Up(pool) ELSE {pool} : Write(t, base)
    BY <1>2
  <2>2. pool \in SUBSET Slot
    BY <1>1 DEF TypeOK
  <2>3. base \in SUBSET Slot /\ pool \subseteq base
    BY <2>2 DEF Up, Free
  <2> QED
    BY <2>1, <2>3
<1> HIDE DEF t
<1>5. \A i, j \in DOMAIN orphaned : orphaned[i] = orphaned[j] => i = j
  BY DEF IInv, NoCopies, IsInjective
<1>6. Moves(t)
  <2>1. Contains(orphaned, t)
    BY <1>1, <1>3, ContainsFacts
  <2>2. begun[t] = 0 /\ t \notin inbox /\ t \notin lost /\ \A w \in Slot : t \notin Queued(w)
    BY <1>3, <2>1 DEF IInv, Fresh, NoCopies, Waiting
  <2>3. IsInjective(orphaned')
    <3>1. SUFFICES ASSUME NEW i \in DOMAIN orphaned', NEW j \in DOMAIN orphaned', orphaned'[i] = orphaned'[j]
                   PROVE  i = j
      BY DEF IsInjective
    <3>2. i + 1 = j + 1 /\ i \in Nat /\ j \in Nat
      BY <3>1, <1>3, <1>5
    <3> QED
      BY <3>2
  <2>4. ~Contains(orphaned', t)
    BY <1>3, <1>5, ContainsFacts
  <2>5. \A u : Contains(orphaned', u) => Contains(orphaned, u)
    BY <1>1, <1>3, ContainsFacts
  <2>6. \A u : Contains(orphaned, u) => u = t \/ Contains(orphaned', u)
    BY <1>1, <1>3, ContainsFacts
  <2> QED
    BY <1>2, <1>3, <2>2, <2>3, <2>4, <2>5, <2>6 DEF Moves
<1>7. PICK ws \in SUBSET Slot : managed' = Register(t, ws) /\ (Dropped(t) \/ \E w \in Slot : Sent(t, w, ws))
  BY <1>1, <1>3, <1>4, WriteFacts
<1>8. /\ pool \subseteq pool' /\ pool' \subseteq Slot
      /\ proc' \in [Slot -> {"none", "up", "gone"}]
  BY <1>1, <1>3, <1>4, WriteFacts
<1>9. TypeOK'
  BY <1>1, <1>2, <1>3, <1>6, <1>7, <1>8, SendKeeps DEF TypeOK
<1> QED
  BY <1>3, <1>6, <1>7, <1>8, <1>9, SendKeeps DEF IInv

-----------------------------------------------------------------------------
(***************************************************************************)
(* Steps that leave every message where it is.                             *)
(***************************************************************************)
(* What is left in the queues is there by d places later than before. *)
Shifted(d) ==
    /\ queue' \in [Slot -> Seq(Task \cup {Quit})]
    /\ \A v \in Slot : \A i \in DOMAIN queue'[v] :
          queue'[v][i] # Quit => i + d[v] \in DOMAIN queue[v] /\ queue'[v][i] = queue[v][i + d[v]]

LEMMA ShiftedFacts ==
    ASSUME IInv, NEW d \in [Slot -> Int], Shifted(d)
    PROVE  /\ \A v \in Slot : Queued(v)' \subseteq Queued(v)
           /\ \A u, v \in Slot : \A i \in DOMAIN queue'[u], j \in DOMAIN queue'[v] :
                 queue'[u][i] = queue'[v][j] /\ queue'[u][i] # Quit => u = v /\ i = j
<1>1. ASSUME NEW v \in Slot, NEW t \in Queued(v)' PROVE t \in Queued(v)
  BY DEF Shifted, Queued
<1>2. ASSUME NEW u \in Slot, NEW v \in Slot, NEW i \in DOMAIN queue'[u], NEW j \in DOMAIN queue'[v],
             queue'[u][i] = queue'[v][j], queue'[u][i] # Quit
      PROVE  u = v /\ i = j
  <2>3. /\ i + d[u] \in DOMAIN queue[u] /\ queue'[u][i] = queue[u][i + d[u]]
        /\ j + d[v] \in DOMAIN queue[v] /\ queue'[v][j] = queue[v][j + d[v]]
    BY <1>2 DEF Shifted
  <2>4. \A x, y \in Slot : \A k \in DOMAIN queue[x], l \in DOMAIN queue[y] :
           queue[x][k] = queue[y][l] /\ queue[x][k] # Quit => x = y /\ k = l
    BY DEF IInv, NoCopies
  <2>5. queue[u][i + d[u]] = queue[v][j + d[v]] /\ queue[u][i + d[u]] # Quit
    BY <1>2, <2>3
  <2>1. u = v /\ i + d[u] = j + d[v]
    BY <2>3, <2>4, <2>5
  <2>2. i \in Int /\ j \in Int /\ d[u] \in Int
    BY DEF Shifted
  <2>6. i + d[u] = j + d[u]
    BY <2>1
  <2>7. ASSUME NEW a \in Int, NEW b \in Int, NEW c \in Int, a + c = b + c PROVE a = b
    BY <2>7
  <2>8. i = j
    BY <2>2, <2>6, <2>7
  <2> QED
    BY <2>1, <2>8
<1> QED
  BY <1>1, <1>2

LEMMA OrderlyShifted ==
    ASSUME IInv, NEW d \in [Slot -> Int], Shifted(d), NEW w \in Slot, Orderly(w),
           managed'[w] = managed[w], cur'[w] = cur[w], Queued(w)' = Queued(w)
    PROVE  Orderly(w)'
<1>1. ASSUME NEW i \in DOMAIN queue'[w], NEW j \in DOMAIN queue'[w],
             NEW k \in DOMAIN managed[w], NEW l \in DOMAIN managed[w],
             i < j, managed[w][k] = queue'[w][i], managed[w][l] = queue'[w][j]
      PROVE  k < l
  <2>1. managed[w][k] \in Task /\ managed[w][l] \in Task
    <3>1. managed[w] \in Seq(Task)
      BY DEF IInv, TypeOK
    <3> QED
      BY <3>1
  <2>2. managed[w][k] # Quit /\ managed[w][l] # Quit
    BY <2>1, PoolAssumption
  <2>3. /\ i + d[w] \in DOMAIN queue[w] /\ queue'[w][i] = queue[w][i + d[w]]
        /\ j + d[w] \in DOMAIN queue[w] /\ queue'[w][j] = queue[w][j + d[w]]
    BY <1>1, <2>2 DEF Shifted
  <2>4. i \in Int /\ j \in Int /\ d[w] \in Int
    BY DEF Shifted
  <2>5. i + d[w] < j + d[w]
    BY <1>1, <2>4
  <2> QED
    BY <1>1, <2>3, <2>5 DEF Orderly
<1> QED
  BY <1>1 DEF Orderly

LEMMA SameMessages ==
    ASSUME IInv, NEW d \in [Slot -> Int], Shifted(d),
           \A v \in Slot : Queued(v) \subseteq Queued(v)',
           UNCHANGED <<pool, managed, cur, inbox, orphaned, begun, done, refused, lost, reaped>>
    PROVE  /\ (NoTaskTwice /\ NothingLost /\ WorkIsManaged /\ NothingAbandoned)'
           /\ (NoCopies /\ Fresh /\ InHand /\ Ordered)'
<1>1. \A v \in Slot : Queued(v)' = Queued(v)
  BY ShiftedFacts
<1>2. /\ NoTaskTwice /\ NothingLost /\ WorkIsManaged /\ NothingAbandoned
      /\ NoCopies /\ Fresh /\ InHand /\ Ordered /\ pool \subseteq Slot
  BY DEF IInv, TypeOK
<1>3. NoTaskTwice' /\ NothingAbandoned' /\ InHand'
  BY <1>2 DEF NoTaskTwice, NothingAbandoned, InHand
<1>4. NothingLost'
  BY <1>1, <1>2 DEF NothingLost
<1>5. WorkIsManaged'
  BY <1>1, <1>2 DEF WorkIsManaged
<1>6. NoCopies'
  <2>1. \A w \in Slot : \A i \in DOMAIN orphaned' : orphaned'[i] \notin Queued(w)'
    BY <1>1, <1>2 DEF NoCopies
  <2> QED
    BY <2>1, <1>2, ShiftedFacts DEF NoCopies
<1>7. Fresh'
  <2>1. \A t : Waiting(t)' <=> Waiting(t)
    BY <1>1 DEF Waiting
  <2> QED
    BY <2>1, <1>2 DEF Fresh
<1>8. Ordered'
  BY <1>1, <1>2, OrderlyShifted DEF Ordered
<1> QED
  BY <1>3, <1>4, <1>5, <1>6, <1>7, <1>8

(* Exit drops nothing but QUIT: a worker that the pool has dropped has no  *)
(* message left.                                                           *)
LEMMA ExitFacts ==
    ASSUME IInv, NEW w \in Slot, NEW q, Exit(w, q),
           q = queue[w] \/ (queue[w] # <<>> /\ Head(queue[w]) = Quit /\ q = Tail(queue[w]))
    PROVE  \E d \in [Slot -> Int] : Shifted(d) /\ \A v \in Slot : Queued(v) \subseteq Queued(v)'
<1>1. queue \in [Slot -> Seq(Task \cup {Quit})] /\ queue[w] \in Seq(Task \cup {Quit})
  BY DEF IInv, TypeOK
<1>2. queue' = [queue EXCEPT ![w] = IF w \in pool THEN q ELSE <<>>]
  BY DEF Exit
<1>3. \A v \in Slot : \A i \in DOMAIN queue[v] : i \in Int /\ i + 0 = i
  BY <1>1
<1>4. CASE w \notin pool
  <2> DEFINE d == [v \in Slot |-> 0]
  <2>1. queue'[w] = <<>> /\ \A v \in Slot : v # w => queue'[v] = queue[v]
    BY <1>1, <1>2, <1>4
  <2>2. Shifted(d)
    <3>1. \A v \in Slot : \A i \in DOMAIN queue'[v] : i \in DOMAIN queue[v] /\ queue'[v][i] = queue[v][i] /\ i + d[v] = i
      BY <1>3, <2>1
    <3>2. queue' \in [Slot -> Seq(Task \cup {Quit})]
      BY <1>1, <1>2, <1>4
    <3> QED
      BY <3>1, <3>2 DEF Shifted
  <2>3. Queued(w) = {}
    BY <1>4 DEF IInv, WorkIsManaged
  <2>4. \A v \in Slot : Queued(v) \subseteq Queued(v)'
    BY <2>1, <2>3 DEF Queued
  <2> QED
    BY <2>2, <2>4
<1>5. CASE w \in pool /\ q = queue[w]
  <2> DEFINE d == [v \in Slot |-> 0]
  <2>1. queue' = queue
    BY <1>1, <1>2, <1>5
  <2>2. Shifted(d)
    BY <1>1, <1>3, <2>1 DEF Shifted
  <2>3. \A v \in Slot : Queued(v) \subseteq Queued(v)'
    BY <2>1 DEF Queued
  <2> QED
    BY <2>2, <2>3
<1>6. CASE w \in pool /\ queue[w] # <<>> /\ Head(queue[w]) = Quit /\ q = Tail(queue[w])
  <2> DEFINE d == [v \in Slot |-> IF v = w THEN 1 ELSE 0]
  <2>1. queue'[w] = q /\ \A v \in Slot : v # w => queue'[v] = queue[v]
    BY <1>1, <1>2, <1>6
  <2>2. /\ q \in Seq(Task \cup {Quit}) /\ queue[w][1] = Quit
        /\ \A i \in DOMAIN q : i + 1 \in DOMAIN queue[w] /\ q[i] = queue[w][i + 1]
        /\ \A i \in DOMAIN queue[w] : i # 1 => i - 1 \in DOMAIN q /\ q[i - 1] = queue[w][i]
    BY <1>1, <1>6, TailFacts
  <2>3. queue' \in [Slot -> Seq(Task \cup {Quit})]
    BY <1>1, <1>2, <1>6, <2>2
  <2>4. Shifted(d)
    <3>1. ASSUME NEW v \in Slot, NEW i \in DOMAIN queue'[v]
          PROVE  i + d[v] \in DOMAIN queue[v] /\ queue'[v][i] = queue[v][i + d[v]]
      <4>1. CASE v = w
        BY <4>1, <2>1, <2>2
      <4>2. CASE v # w
        <5>1. d[v] = 0 /\ i \in DOMAIN queue[v] /\ i + 0 = i
          BY <4>2, <2>1, <1>3
        <5> QED
          BY <5>1, <4>2, <2>1
      <4> QED
        BY <4>1, <4>2
    <3> HIDE DEF d
    <3> QED
      BY <3>1, <2>3 DEF Shifted
  <2>5. Queued(w) \subseteq Queued(w)'
    BY <2>1, <2>2 DEF Queued
  <2>6. \A v \in Slot : Queued(v) \subseteq Queued(v)'
    BY <2>1, <2>5 DEF Queued
  <2> QED
    BY <2>4, <2>6
<1> QED
  BY <1>4, <1>5, <1>6

LEMMA BudgetFacts ==
    ASSUME TypeOK,
           \/ UNCHANGED budget
           \/ budget.deaths > 0 /\ budget' = [budget EXCEPT !.deaths = @ - 1]
           \/ budget.cancels > 0 /\ budget' = [budget EXCEPT !.cancels = @ - 1]
           \/ budget.reloads > 0 /\ budget' = [budget EXCEPT !.reloads = @ - 1]
    PROVE  budget' \in [deaths : 0..MaxDeaths, cancels : 0..MaxCancels, reloads : 0..MaxReloads]
<1>1. /\ budget = [deaths |-> budget.deaths, cancels |-> budget.cancels, reloads |-> budget.reloads]
      /\ budget.deaths \in 0..MaxDeaths /\ budget.cancels \in 0..MaxCancels
      /\ budget.reloads \in 0..MaxReloads
  BY DEF TypeOK
<1>2. MaxDeaths \in Nat /\ MaxCancels \in Nat /\ MaxReloads \in Nat
  BY PoolAssumption
<1>3. CASE budget.deaths > 0 /\ budget' = [budget EXCEPT !.deaths = @ - 1]
  <2>1. budget.deaths - 1 \in 0..MaxDeaths
    BY <1>1, <1>2, <1>3
  <2>2. budget' = [deaths |-> budget.deaths - 1, cancels |-> budget.cancels, reloads |-> budget.reloads]
    BY <1>1, <1>3
  <2> QED
    BY <1>1, <2>1, <2>2
<1>4. CASE budget.cancels > 0 /\ budget' = [budget EXCEPT !.cancels = @ - 1]
  <2>1. budget.cancels - 1 \in 0..MaxCancels
    BY <1>1, <1>2, <1>4
  <2>2. budget' = [deaths |-> budget.deaths, cancels |-> budget.cancels - 1, reloads |-> budget.reloads]
    BY <1>1, <1>4
  <2> QED
    BY <1>1, <2>1, <2>2
<1>5. CASE budget.reloads > 0 /\ budget' = [budget EXCEPT !.reloads = @ - 1]
  <2>1. budget.reloads - 1 \in 0..MaxReloads
    BY <1>1, <1>2, <1>5
  <2>2. budget' = [deaths |-> budget.deaths, cancels |-> budget.cancels, reloads |-> budget.reloads - 1]
    BY <1>1, <1>5
  <2> QED
    BY <1>1, <2>1, <2>2
<1> QED
  BY <1>3, <1>4, <1>5 DEF TypeOK

LEMMA QuitKeeps ==
    ASSUME IInv, NEW w \in Slot, WorkerQuit(w) \/ WorkerDie(w)
    PROVE  IInv'
<1>1. PICK q : /\ Exit(w, q)
               /\ q = queue[w] \/ (queue[w] # <<>> /\ Head(queue[w]) = Quit /\ q = Tail(queue[w]))
  BY DEF WorkerQuit, WorkerDie
<1>2. PICK d \in [Slot -> Int] : Shifted(d) /\ \A v \in Slot : Queued(v) \subseteq Queued(v)'
  BY <1>1, ExitFacts
<1>3. UNCHANGED <<pool, managed, cur, inbox, orphaned, cancel, begun, done, refused, lost, reaped>>
  BY DEF WorkerQuit, WorkerDie
<1>4. budget' \in [deaths : 0..MaxDeaths, cancels : 0..MaxCancels, reloads : 0..MaxReloads]
  BY BudgetFacts DEF WorkerQuit, WorkerDie, IInv
<1>5. proc' \in [Slot -> {"none", "up", "gone"}]
  BY <1>1 DEF Exit, IInv, TypeOK
<1>6. TypeOK'
  BY <1>2, <1>3, <1>4, <1>5 DEF IInv, TypeOK, Shifted
<1> QED
  BY <1>2, <1>3, <1>6, SameMessages DEF IInv

LEMMA ReloadKeeps ==
    ASSUME IInv, Reload
    PROVE  IInv'
<1> DEFINE d == [v \in Slot |-> 0]
<1>1. /\ queue \in [Slot -> Seq(Task \cup {Quit})]
      /\ queue' = [w \in Slot |-> IF w \in pool THEN Append(queue[w], Quit) ELSE queue[w]]
  BY DEF IInv, TypeOK, Reload
<1>2. ASSUME NEW v \in Slot
      PROVE  /\ queue'[v] \in Seq(Task \cup {Quit})
             /\ \A i \in DOMAIN queue'[v] : queue'[v][i] # Quit => i \in DOMAIN queue[v] /\ queue'[v][i] = queue[v][i]
             /\ \A i \in DOMAIN queue[v] : i \in DOMAIN queue'[v] /\ queue'[v][i] = queue[v][i]
  <2>1. queue[v] \in Seq(Task \cup {Quit})
    BY <1>1
  <2>2. CASE queue'[v] = queue[v]
    BY <2>1, <2>2
  <2>3. CASE queue'[v] = Append(queue[v], Quit)
    BY <2>1, <2>3, AppendFacts
  <2> QED
    BY <1>1, <2>2, <2>3
<1>3. Shifted(d)
  <2>1. \A v \in Slot : \A i \in DOMAIN queue[v] : i + d[v] = i
    BY <1>1
  <2>2. queue' \in [Slot -> Seq(Task \cup {Quit})]
    BY <1>1, <1>2
  <2> HIDE DEF d
  <2> QED
    BY <1>2, <2>1, <2>2 DEF Shifted
<1>4. \A v \in Slot : Queued(v) \subseteq Queued(v)'
  BY <1>2 DEF Queued
<1>5. UNCHANGED <<pool, proc, managed, cur, inbox, orphaned, cancel, begun, done, refused, lost, reaped>>
  BY DEF Reload
<1>6. budget' \in [deaths : 0..MaxDeaths, cancels : 0..MaxCancels, reloads : 0..MaxReloads]
  BY BudgetFacts DEF Reload, IInv
<1>7. TypeOK'
  BY <1>3, <1>5, <1>6 DEF IInv, TypeOK, Shifted
<1> QED
  BY <1>3, <1>4, <1>5, <1>7, SameMessages DEF IInv

LEMMA CancelKeeps ==
    ASSUME IInv, \/ \E t \in Task : CancelStart(t)
                 \/ \E w \in Slot : CancelLook(w)
                 \/ CancelKill
    PROVE  IInv'
<1>1. UNCHANGED <<pool, managed, cur, inbox, orphaned, begun, done, refused, lost, reaped>>
  BY DEF CancelStart, CancelLook, CancelKill
<1>2. budget' \in [deaths : 0..MaxDeaths, cancels : 0..MaxCancels, reloads : 0..MaxReloads]
  BY BudgetFacts DEF CancelStart, CancelLook, CancelKill, IInv
<1>3. cancel' \in [task : Task \cup {None}, todo : SUBSET Slot, at : Slot \cup {None}]
  <2>1. /\ cancel.task \in Task \cup {None} /\ cancel.todo \in SUBSET Slot
        /\ cancel \in [task : Task \cup {None}, todo : SUBSET Slot, at : Slot \cup {None}]
        /\ pool \in SUBSET Slot
    BY DEF IInv, TypeOK
  <2>2. \A t \in Task \cup {None}, todo \in SUBSET Slot :
           Looking(t, todo) \in [task : Task \cup {None}, todo : SUBSET Slot, at : Slot \cup {None}]
    BY DEF Looking, NoCancel
  <2>3. CASE \E t \in Task : CancelStart(t)
    BY <2>1, <2>2, <2>3 DEF CancelStart
  <2>4. ASSUME NEW w \in Slot, CancelLook(w)
        PROVE  cancel' \in [task : Task \cup {None}, todo : SUBSET Slot, at : Slot \cup {None}]
    BY <2>1, <2>2, <2>4 DEF CancelLook
  <2>5. CASE CancelKill
    BY <2>1, <2>2, <2>5 DEF CancelKill
  <2> QED
    BY <2>3, <2>4, <2>5
<1>4. UNCHANGED <<proc, queue>> \/ \E w \in Slot : Exit(w, queue[w])
  <2>1. cancel.at \in Slot \cup {None}
    BY DEF IInv, TypeOK
  <2> QED
    BY <2>1 DEF CancelStart, CancelLook, CancelKill
<1>5. \E d \in [Slot -> Int] : Shifted(d) /\ \A v \in Slot : Queued(v) \subseteq Queued(v)'
  <2>1. CASE UNCHANGED <<proc, queue>>
    <3> DEFINE d == [v \in Slot |-> 0]
    <3>1. queue \in [Slot -> Seq(Task \cup {Quit})]
      BY DEF IInv, TypeOK
    <3>2. \A v \in Slot : \A i \in DOMAIN queue[v] : i + d[v] = i
      BY <3>1
    <3>3. Shifted(d) /\ \A v \in Slot : Queued(v) \subseteq Queued(v)'
      BY <2>1, <3>1, <3>2 DEF Shifted, Queued
    <3> QED
      BY <3>3
  <2>2. CASE \E w \in Slot : Exit(w, queue[w])
    BY <2>2, ExitFacts
  <2> QED
    BY <1>4, <2>1, <2>2
<1>6. proc' \in [Slot -> {"none", "up", "gone"}]
  BY <1>4 DEF Exit, IInv, TypeOK
<1>7. TypeOK'
  BY <1>1, <1>2, <1>3, <1>5, <1>6 DEF IInv, TypeOK, Shifted
<1> QED
  BY <1>1, <1>5, <1>7, SameMessages DEF IInv

-----------------------------------------------------------------------------
(***************************************************************************)
(* A task is begun and ends; a cleanup.                                    *)
(***************************************************************************)
LEMMA TakeKeeps ==
    ASSUME IInv, NEW w \in Slot, WorkerTake(w)
    PROVE  IInv'
<1> DEFINE q == queue[w]
           h == Head(queue[w])
           d == [v \in Slot |-> IF v = w THEN 1 ELSE 0]
<1>1. /\ TypeOK /\ NoTaskTwice /\ NothingLost /\ WorkIsManaged /\ NothingAbandoned
      /\ NoCopies /\ Fresh /\ InHand /\ Ordered
  BY DEF IInv
<1>2. /\ cur[w] = None /\ q # <<>> /\ h # Quit
      /\ cur' = [cur EXCEPT ![w] = h]
      /\ begun' = [begun EXCEPT ![h] = @ + 1]
      /\ queue' = [queue EXCEPT ![w] = Tail(q)]
      /\ UNCHANGED <<pool, proc, managed, inbox, orphaned, cancel, done, refused, lost, reaped, budget>>
  BY DEF WorkerTake
<1>3. /\ q \in Seq(Task \cup {Quit})
      /\ h = q[1] /\ 1 \in DOMAIN q /\ Tail(q) \in Seq(Task \cup {Quit})
      /\ \A i \in DOMAIN Tail(q) : i + 1 \in DOMAIN q /\ i + 1 # 1 /\ Tail(q)[i] = q[i + 1]
      /\ \A i \in DOMAIN q : i # 1 => i - 1 \in DOMAIN Tail(q) /\ Tail(q)[i - 1] = q[i]
      /\ DOMAIN q \subseteq Nat \ {0}
  BY <1>1, <1>2, TailFacts DEF TypeOK
<1>4. h \in Task /\ h \in Queued(w)
  BY <1>2, <1>3 DEF Queued
<1>5. begun[h] = 0 /\ h \notin inbox /\ h \notin lost
  BY <1>1, <1>4 DEF Fresh, Waiting
<1>6. w \in pool /\ Contains(managed[w], h)
  BY <1>1, <1>4 DEF WorkIsManaged
<1>7. /\ queue'[w] = Tail(q) /\ \A v \in Slot : v # w => queue'[v] = queue[v]
      /\ cur'[w] = h /\ \A v \in Slot : v # w => cur'[v] = cur[v]
      /\ begun'[h] = 1 /\ \A u \in Task : u # h => begun'[u] = begun[u]
      /\ h # None
  BY <1>1, <1>2, <1>4, <1>5, PoolAssumption DEF TypeOK
<1>8. TypeOK'
  BY <1>1, <1>2, <1>3, <1>4 DEF TypeOK
<1>9. Shifted(d)
  <2>1. ASSUME NEW v \in Slot, NEW i \in DOMAIN queue'[v]
        PROVE  i + d[v] \in DOMAIN queue[v] /\ queue'[v][i] = queue[v][i + d[v]]
    <3>1. CASE v = w
      BY <3>1, <1>3, <1>7
    <3>2. CASE v # w
      <4>1. d[v] = 0 /\ i \in DOMAIN queue[v] /\ i + 0 = i
        BY <3>2, <1>1, <1>7 DEF TypeOK
      <4> QED
        BY <4>1, <3>2, <1>7
    <3> QED
      BY <3>1, <3>2
  <2>2. queue' \in [Slot -> Seq(Task \cup {Quit})]
    BY <1>8 DEF TypeOK
  <2> HIDE DEF d
  <2> QED
    BY <2>1, <2>2 DEF Shifted
<1> HIDE DEF d
<1>10. /\ \A v \in Slot : Queued(v)' \subseteq Queued(v)
       /\ \A u, v \in Slot : \A i \in DOMAIN queue'[u], j \in DOMAIN queue'[v] :
             queue'[u][i] = queue'[v][j] /\ queue'[u][i] # Quit => u = v /\ i = j
  <2>1. d \in [Slot -> Int]
    BY DEF d
  <2> QED
    BY <2>1, <1>9, ShiftedFacts
<1>11. \A v \in Slot : h \notin Queued(v)'
  <2>1. SUFFICES ASSUME NEW v \in Slot, h \in Queued(v)' PROVE FALSE
    OBVIOUS
  <2>2. h \in Queued(v)
    BY <2>1, <1>10
  <2>3. v = w
    BY <2>2, <1>1, <1>2, <1>3 DEF NoCopies, Queued
  <2>4. PICK i \in DOMAIN Tail(q) : Tail(q)[i] = h
    BY <2>1, <2>3, <1>7 DEF Queued
  <2>5. i + 1 \in DOMAIN q /\ i + 1 # 1 /\ q[i + 1] = q[1]
    BY <2>4, <1>3
  <2> QED
    BY <2>5, <1>1, <1>2, <1>3 DEF NoCopies
<1>12. \A v \in Slot : \A u \in Queued(v) : u = h \/ u \in Queued(v)'
  <2>1. \A u \in Queued(w) : u = h \/ u \in Queued(w)'
    <3>1. SUFFICES ASSUME NEW u \in Queued(w), u # h PROVE u \in Queued(w)'
      OBVIOUS
    <3>2. PICK i \in DOMAIN q : q[i] = u /\ u # Quit
      BY DEF Queued
    <3>3. i # 1
      BY <3>1, <3>2, <1>3
    <3>4. i - 1 \in DOMAIN Tail(q) /\ Tail(q)[i - 1] = u
      BY <3>2, <3>3, <1>3
    <3> HIDE DEF h, q
    <3>5. Queued(w)' = {queue'[w][k] : k \in DOMAIN queue'[w]} \ {Quit}
      BY DEF Queued
    <3> QED
      BY <3>2, <3>4, <3>5, <1>7
  <2>2. ASSUME NEW v \in Slot, v # w PROVE Queued(v)' = Queued(v)
    BY <2>2, <1>7 DEF Queued
  <2> HIDE DEF h
  <2> QED
    BY <2>1, <2>2
<1>13. NoTaskTwice' /\ InHand'
  <2>1. \A u \in Task : begun[u] \in Nat /\ begun'[u] \in {begun[u], 1}
    BY <1>1, <1>7 DEF TypeOK
  <2>2. \A v \in Slot : cur[v] \in Task \cup {None} /\ (cur[v] # None => cur[v] \in Task)
    BY <1>1 DEF TypeOK
  <2>3. NoTaskTwice'
    BY <2>1, <1>1 DEF NoTaskTwice
  <2>4. \A v \in Slot : cur'[v] # None => begun'[cur'[v]] > 0
    BY <2>1, <2>2, <1>1, <1>7 DEF InHand
  <2> QED
    BY <2>3, <2>4 DEF InHand
<1>14. NothingLost'
  <2>1. SUFFICES ASSUME NEW u \in Task, u \notin inbox, u \notin lost, begun'[u] = 0
                 PROVE  Contains(orphaned, u) \/ \E v \in pool : u \in Queued(v)'
    BY <1>2 DEF NothingLost
  <2>2. u # h /\ begun[u] = 0
    <3> HIDE DEF h
    <3> QED
      BY <2>1, <1>7
  <2>3. Contains(orphaned, u) \/ \E v \in pool : u \in Queued(v)
    BY <2>1, <2>2, <1>1 DEF NothingLost
  <2>4. pool \subseteq Slot
    BY <1>1 DEF TypeOK
  <2> HIDE DEF h
  <2> QED
    BY <2>2, <2>3, <2>4, <1>12
<1>15. WorkIsManaged'
  <2>1. SUFFICES ASSUME NEW v \in Slot, NEW u \in Queued(v)' \cup ({cur'[v]} \ {None})
                 PROVE  v \in pool /\ Contains(managed[v], u)
    BY <1>2 DEF WorkIsManaged
  <2>2. u \in Queued(v) \cup ({cur[v]} \ {None})
    BY <2>1, <1>4, <1>7, <1>10
  <2> QED
    BY <2>2, <1>1 DEF WorkIsManaged
<1>16. NothingAbandoned'
  <2>1. SUFFICES ASSUME refused = {}, NEW u \in Task, begun'[u] > 0
                 PROVE  u \in done \cup reaped \/ \E v \in pool : cur'[v] = u
    BY <1>2 DEF NothingAbandoned
  <2>2. CASE u = h
    BY <2>2, <1>6, <1>7
  <2>3. CASE u # h
    <3>1. u \in done \cup reaped \/ \E v \in pool : cur[v] = u
      BY <2>1, <2>3, <1>1, <1>7 DEF NothingAbandoned
    <3>2. \A v \in pool : cur[v] = u => cur'[v] = u
      BY <1>1, <1>2, <1>7, PoolAssumption DEF TypeOK
    <3> QED
      BY <3>1, <3>2
  <2> QED
    BY <2>2, <2>3
<1>17. NoCopies'
  BY <1>1, <1>2, <1>10 DEF NoCopies
<1>18. Fresh'
  <2>1. ASSUME NEW u \in Task, Waiting(u)' PROVE begun'[u] = 0 /\ u \notin inbox /\ u \notin lost
    <3>1. Waiting(u)
      BY <2>1, <1>2, <1>10 DEF Waiting
    <3>2. ~Contains(orphaned, h)
      BY <1>1, <1>4, ContainsFacts DEF NoCopies, TypeOK
    <3>3. u # h
      BY <2>1, <3>2, <1>2, <1>11 DEF Waiting
    <3> QED
      BY <3>1, <3>3, <1>1, <1>7 DEF Fresh
  <2>2. \A u \in inbox \cup lost : begun'[u] = 0
    BY <1>1, <1>5, <1>7 DEF Fresh, TypeOK
  <2> QED
    BY <2>1, <2>2, <1>1, <1>2 DEF Fresh
<1>19. Ordered'
  <2>1. SUFFICES ASSUME refused = {}, NEW v \in Slot PROVE Orderly(v)'
    BY <1>2 DEF Ordered
  <2>2. Orderly(v) /\ Orderly(w)
    BY <2>1, <1>1 DEF Ordered
  <2>3. CASE v # w
    <3>1. queue'[v] = queue[v] /\ cur'[v] = cur[v] /\ managed'[v] = managed[v]
      BY <2>3, <1>2, <1>7
    <3>2. Queued(v)' = Queued(v)
      BY <3>1 DEF Queued
    <3> QED
      BY <3>1, <3>2, <2>2 DEF Orderly
  <2>4. CASE v = w
    <3> DEFINE m == managed[w]
    <3>1. m \in Seq(Task) /\ \A k \in DOMAIN m : m[k] \in Queued(w)
      <4>1. m \in Seq(Task)
        BY <1>1 DEF TypeOK
      <4>2. \A k \in DOMAIN m : m[k] \in Task
        BY <4>1
      <4>3. None \notin Task
        BY PoolAssumption
      <4> QED
        BY <4>1, <4>2, <4>3, <2>2, <1>2 DEF Orderly
    <3>2. m # <<>> /\ m[1] = h
      <4>1. PICK k \in DOMAIN m : m[k] = h
        BY <3>1, <1>6, ContainsFacts
      <4>2. 1 \in DOMAIN m /\ m # <<>> /\ k \in Nat /\ ~(k < 1)
        BY <3>1, <4>1
      <4>3. PICK i \in DOMAIN q : m[1] = q[i]
        BY <3>1, <4>2 DEF Queued
      <4>4. ~(1 < i)
        BY <4>1, <4>2, <4>3, <1>3, <2>2 DEF Orderly
      <4>5. i = 1
        BY <4>4, <1>3
      <4> QED
        BY <4>2, <4>3, <4>5, <1>3
    <3>3. \A k \in DOMAIN m : m[k] = h \/ m[k] \in Queued(w)'
      BY <3>1, <1>12
    <3>4. ASSUME NEW i \in DOMAIN Tail(q), NEW j \in DOMAIN Tail(q), NEW k \in DOMAIN m, NEW l \in DOMAIN m,
                 i < j, m[k] = Tail(q)[i], m[l] = Tail(q)[j]
          PROVE  k < l
      <4>1. /\ i + 1 \in DOMAIN q /\ Tail(q)[i] = q[i + 1]
            /\ j + 1 \in DOMAIN q /\ Tail(q)[j] = q[j + 1]
        BY <1>3
      <4>2. i + 1 < j + 1
        <5>1. i \in Int /\ j \in Int
          BY <1>3
        <5> QED
          BY <5>1, <3>4
      <4> QED
        BY <4>1, <4>2, <3>4, <2>2 DEF Orderly
    <3>5. managed'[w] = m /\ cur'[w] = h /\ queue'[w] = Tail(q)
      BY <1>2, <1>7
    <3> HIDE DEF h, q, m
    <3>6. Orderly(w)'
      BY <3>2, <3>3, <3>4, <3>5 DEF Orderly
    <3> QED
      BY <2>4, <3>6
  <2> QED
    BY <2>3, <2>4
<1> QED
  BY <1>8, <1>13, <1>14, <1>15, <1>16, <1>17, <1>18, <1>19 DEF IInv

LEMMA FinishKeeps ==
    ASSUME IInv, NEW w \in Slot, WorkerFinish(w)
    PROVE  IInv'
<1> DEFINE t == cur[w]
           m == managed[w]
           n == managed'[w]
<1>1. /\ TypeOK /\ NoTaskTwice /\ NothingLost /\ WorkIsManaged /\ NothingAbandoned
      /\ NoCopies /\ Fresh /\ InHand /\ Ordered
  BY DEF IInv
<1>2. /\ cur[w] # None
      /\ managed' = [managed EXCEPT ![w] = Without(@, cur[w])]
      /\ done' = done \cup {cur[w]}
      /\ cur' = [cur EXCEPT ![w] = None]
      /\ UNCHANGED <<pool, proc, queue, inbox, orphaned, cancel, begun, refused, lost, reaped, budget>>
  BY DEF WorkerFinish
<1>3. /\ t \in Task /\ begun[t] > 0
      /\ cur'[w] = None /\ \A v \in Slot : v # w => cur'[v] = cur[v]
      /\ n = Without(m, t) /\ \A v \in Slot : v # w => managed'[v] = managed[v]
      /\ m \in Seq(Task) /\ IsInjective(m)
  BY <1>1, <1>2 DEF TypeOK, InHand, NoCopies
<1>4. /\ n \in Seq(Task) /\ IsInjective(n)
      /\ \A u : Contains(m, u) /\ u # t => Contains(n, u)
      /\ m # <<>> /\ m[1] = t => \A k \in DOMAIN n :
            k \in Nat /\ k + 1 \in DOMAIN m /\ k + 1 # 1 /\ n[k] = m[k + 1]
  <2> HIDE DEF t, m, n
  <2> QED
    BY <1>3, WithoutFacts
<1>5. managed' \in [Slot -> Seq(Task)]
  BY <1>1, <1>2, <1>4, <1>3 DEF TypeOK
<1>6. \A v \in Slot : Queued(v)' = Queued(v)
  BY <1>2 DEF Queued
<1>7. \A v \in Slot : t \notin Queued(v)
  BY <1>1, <1>3 DEF Fresh, Waiting
<1>8. TypeOK'
  BY <1>1, <1>2, <1>3, <1>5 DEF TypeOK
<1>9. NoTaskTwice' /\ NothingLost' /\ InHand'
  <2>1. NoTaskTwice'
    BY <1>1, <1>2 DEF NoTaskTwice
  <2>2. NothingLost'
    BY <1>1, <1>2, <1>6 DEF NothingLost, TypeOK
  <2>3. InHand'
    BY <1>1, <1>2, <1>3 DEF InHand
  <2> QED
    BY <2>1, <2>2, <2>3
<1>10. Fresh'
  <2>1. \A u : Waiting(u)' <=> Waiting(u)
    BY <1>2, <1>6 DEF Waiting
  <2> QED
    BY <2>1, <1>1, <1>2 DEF Fresh
<1>11. NoCopies'
  <2>1. \A v \in Slot : IsInjective(managed'[v])
    BY <1>1, <1>3, <1>4 DEF NoCopies
  <2> QED
    BY <2>1, <1>1, <1>2, <1>6 DEF NoCopies
<1>12. WorkIsManaged'
  <2>1. SUFFICES ASSUME NEW v \in Slot, NEW u \in Queued(v) \cup ({cur'[v]} \ {None})
                 PROVE  v \in pool /\ Contains(managed'[v], u)
    BY <1>2, <1>6 DEF WorkIsManaged
  <2>2. u \in Queued(v) \cup ({cur[v]} \ {None})
    BY <2>1, <1>3
  <2>3. v \in pool /\ Contains(managed[v], u)
    BY <2>2, <1>1 DEF WorkIsManaged
  <2>4. v = w => u # t
    BY <2>1, <1>3, <1>7
  <2> HIDE DEF t, m, n
  <2> QED
    BY <2>3, <2>4, <1>3, <1>4 DEF m, n
<1>13. NothingAbandoned'
  <2>1. SUFFICES ASSUME refused = {}, NEW u \in Task, begun[u] > 0
                 PROVE  u \in done' \cup reaped \/ \E v \in pool : cur'[v] = u
    BY <1>2 DEF NothingAbandoned
  <2>2. u \in done \cup reaped \/ \E v \in pool : cur[v] = u
    BY <2>1, <1>1 DEF NothingAbandoned
  <2>3. \A v \in pool : cur[v] = u => u \in done' \/ cur'[v] = u
    BY <1>1, <1>2, <1>3 DEF TypeOK
  <2> QED
    BY <2>2, <2>3, <1>2
<1>14. Ordered'
  <2>1. SUFFICES ASSUME refused = {}, NEW v \in Slot PROVE Orderly(v)'
    BY <1>2 DEF Ordered
  <2>2. Orderly(v) /\ Orderly(w)
    BY <2>1, <1>1 DEF Ordered
  <2>3. CASE v # w
    <3>1. queue'[v] = queue[v] /\ cur'[v] = cur[v] /\ managed'[v] = managed[v]
      BY <2>3, <1>2, <1>3
    <3> QED
      BY <3>1, <2>2, <1>6 DEF Orderly
  <2>4. CASE v = w
    <3>1. m # <<>> /\ m[1] = t
      BY <2>2, <1>2 DEF Orderly
    <3>2. 1 \in DOMAIN m /\ \A k \in DOMAIN n : k \in Nat /\ k + 1 \in DOMAIN m /\ k + 1 # 1 /\ n[k] = m[k + 1]
      <4>1. 1 \in DOMAIN m
        <5> HIDE DEF m
        <5> QED
          BY <3>1, <1>3
      <4> QED
        BY <4>1, <3>1, <1>4
    <3>3. \A k \in DOMAIN n : n[k] \in Queued(w)
      <4>1. ASSUME NEW k \in DOMAIN n PROVE n[k] \in Queued(w)
        <5>1. n[k] = m[k + 1] /\ k + 1 \in DOMAIN m /\ k + 1 # 1
          BY <3>2
        <5>2. m[k + 1] # t
          <6> HIDE DEF m, n, t
          <6> QED
            BY <5>1, <3>1, <3>2, <1>3 DEF IsInjective
        <5> QED
          BY <5>1, <5>2, <2>2 DEF Orderly
      <4> QED
        BY <4>1
    <3>4. ASSUME NEW i \in DOMAIN queue[w], NEW j \in DOMAIN queue[w], NEW k \in DOMAIN n, NEW l \in DOMAIN n,
                 i < j, n[k] = queue[w][i], n[l] = queue[w][j]
          PROVE  k < l
      <4>1. /\ k \in Nat /\ k + 1 \in DOMAIN m /\ n[k] = m[k + 1]
            /\ l \in Nat /\ l + 1 \in DOMAIN m /\ n[l] = m[l + 1]
        BY <3>2
      <4>2. k + 1 < l + 1
        BY <4>1, <3>4, <2>2 DEF Orderly
      <4> QED
        BY <4>1, <4>2
    <3>5. queue' = queue /\ cur'[w] = None
      BY <1>2, <1>3
    <3>6. Orderly(w)'
      BY <3>3, <3>4, <3>5, <1>6 DEF Orderly
    <3> QED
      BY <2>4, <3>6
  <2> QED
    BY <2>3, <2>4
<1> QED
  BY <1>8, <1>9, <1>10, <1>11, <1>12, <1>13, <1>14 DEF IInv

LEMMA CleanupKeeps ==
    ASSUME IInv, Cleanup
    PROVE  IInv'
<1> DEFINE d == [v \in Slot |-> 0]
<1>1. /\ TypeOK /\ NoTaskTwice /\ NothingLost /\ WorkIsManaged /\ NothingAbandoned
      /\ NoCopies /\ Fresh /\ InHand /\ Ordered
  BY DEF IInv
<1>2. PICK r \in SUBSET Idle :
          /\ pool' = pool \ (Gone \cup r)
          /\ queue' = [w \in Slot |-> IF w \in Gone THEN <<>>
                                      ELSE IF w \in r THEN Append(queue[w], Quit)
                                      ELSE queue[w]]
  BY DEF Cleanup
<1>3. /\ orphaned = <<>>
      /\ proc' = [w \in Slot |-> IF w \in Gone THEN "none" ELSE proc[w]]
      /\ cur' = [w \in Slot |-> IF w \in Gone THEN None ELSE cur[w]]
      /\ managed' = [w \in Slot |-> IF w \in Gone THEN <<>> ELSE managed[w]]
      /\ reaped' = reaped \cup UNION {CurrentTask(w) : w \in Gone}
      /\ UNCHANGED <<inbox, cancel, begun, done, refused, lost, budget>>
  BY DEF Cleanup, MainFree
<1>4. PICK order \in SetToSeqs(Gone) :
          orphaned' = FlattenSeq([i \in DOMAIN order |-> Messages(order[i])])
  BY DEF Cleanup
<1>5. /\ orphaned' \in Seq(Task) /\ IsInjective(orphaned')
      /\ \A k \in DOMAIN orphaned' : \E w \in Gone : orphaned'[k] \in Queued(w)
      /\ \A w \in Gone : \A t \in Queued(w) : \E k \in DOMAIN orphaned' : orphaned'[k] = t
  BY <1>1, <1>4, OrphansFacts
<1>6. Gone \subseteq Slot /\ r \subseteq Slot /\ pool \subseteq Slot /\ Gone \cap r = {}
  BY <1>1 DEF Gone, Idle, TypeOK
<1>7. \A w \in r : managed[w] = <<>> /\ Queued(w) = {} /\ cur[w] = None
  <2>1. SUFFICES ASSUME NEW w \in r PROVE managed[w] = <<>> /\ Queued(w) = {} /\ cur[w] = None
    OBVIOUS
  <2>2. managed[w] = <<>>
    BY DEF Idle, Busy
  <2>3. \A t : ~Contains(managed[w], t)
    BY <2>2 DEF Contains
  <2> QED
    BY <2>2, <2>3, <1>1, <1>6 DEF WorkIsManaged
<1>8. ASSUME NEW v \in Slot
      PROVE  /\ queue'[v] \in Seq(Task \cup {Quit})
             /\ \A i \in DOMAIN queue'[v] : queue'[v][i] # Quit =>
                   v \notin Gone /\ i \in DOMAIN queue[v] /\ queue'[v][i] = queue[v][i]
             /\ v \notin Gone => \A i \in DOMAIN queue[v] : i \in DOMAIN queue'[v] /\ queue'[v][i] = queue[v][i]
  <2>1. queue[v] \in Seq(Task \cup {Quit})
    BY <1>1 DEF TypeOK
  <2>2. CASE v \in Gone
    BY <2>2, <1>2
  <2>3. CASE v \notin Gone /\ queue'[v] = queue[v]
    BY <2>1, <2>3
  <2>4. CASE v \notin Gone /\ queue'[v] = Append(queue[v], Quit)
    BY <2>1, <2>4, AppendFacts
  <2> QED
    BY <1>2, <2>2, <2>3, <2>4
<1>9. queue' \in [Slot -> Seq(Task \cup {Quit})]
  BY <1>2, <1>8
<1>10. Shifted(d)
  <2>1. \A v \in Slot : \A i \in DOMAIN queue[v] : i + d[v] = i
    BY <1>1 DEF TypeOK
  <2> HIDE DEF d
  <2> QED
    BY <2>1, <1>8, <1>9 DEF Shifted
<1>11. \A v \in Slot : Queued(v)' = IF v \in Gone THEN {} ELSE Queued(v)
  BY <1>8 DEF Queued
<1>12. \A t : Contains(orphaned', t) <=> \E w \in Gone : t \in Queued(w)
  BY <1>5, ContainsFacts
<1>13. TypeOK'
  <2>1. UNION {CurrentTask(w) : w \in Gone} \subseteq Task
    <3>1. ASSUME NEW w \in Gone PROVE CurrentTask(w) \subseteq Task
      <4>1. managed[w] \in Seq(Task)
        BY <1>1, <1>6 DEF TypeOK
      <4> QED
        BY <4>1 DEF CurrentTask, Busy
    <3> QED
      BY <3>1
  <2>2. managed' \in [Slot -> Seq(Task)]
    BY <1>1, <1>3 DEF TypeOK
  <2>3. pool' \subseteq Slot /\ reaped' \subseteq Task
    BY <1>1, <1>2, <1>3, <1>6, <2>1 DEF TypeOK
  <2>4. proc' \in [Slot -> {"none", "up", "gone"}] /\ cur' \in [Slot -> Task \cup {None}]
    BY <1>1, <1>3 DEF TypeOK
  <2> QED
    BY <1>1, <1>3, <1>5, <1>9, <2>2, <2>3, <2>4 DEF TypeOK
<1>14. NoTaskTwice' /\ InHand'
  BY <1>1, <1>3 DEF NoTaskTwice, InHand
<1>15. NothingLost'
  <2>1. SUFFICES ASSUME NEW t \in Task, t \notin inbox, t \notin lost, begun[t] = 0
                 PROVE  Contains(orphaned', t) \/ \E w \in pool' : t \in Queued(w)'
    BY <1>3 DEF NothingLost
  <2>2. ~Contains(orphaned, t)
    BY <1>3 DEF Contains
  <2>3. PICK w \in pool : t \in Queued(w)
    BY <2>1, <2>2, <1>1 DEF NothingLost
  <2>4. w \notin r
    BY <2>3, <1>7
  <2> QED
    BY <2>3, <2>4, <1>2, <1>6, <1>11, <1>12
<1>16. WorkIsManaged'
  <2>1. SUFFICES ASSUME NEW w \in Slot, NEW t \in Queued(w)' \cup ({cur'[w]} \ {None})
                 PROVE  w \in pool' /\ Contains(managed'[w], t)
    BY DEF WorkIsManaged
  <2>2. w \notin Gone /\ t \in Queued(w) \cup ({cur[w]} \ {None})
    BY <2>1, <1>3, <1>11
  <2>3. w \notin r
    BY <2>2, <1>7
  <2> QED
    BY <2>2, <2>3, <1>1, <1>2, <1>3 DEF WorkIsManaged
<1>17. NothingAbandoned'
  <2>1. SUFFICES ASSUME refused = {}, NEW t \in Task, begun[t] > 0, t \notin done \cup reaped'
                 PROVE  \E w \in pool' : cur'[w] = t
    BY <1>3 DEF NothingAbandoned
  <2>2. PICK w \in pool : cur[w] = t
    BY <2>1, <1>1, <1>3 DEF NothingAbandoned
  <2>3. cur[w] # None /\ w \in Slot
    BY <2>2, <1>6, PoolAssumption
  <2>4. w \notin r
    BY <2>3, <1>7
  <2>5. w \notin Gone
    <3>1. managed[w] # <<>> /\ managed[w][1] = t
      BY <2>1, <2>2, <2>3, <1>1 DEF Ordered, Orderly
    <3>2. CurrentTask(w) = {t}
      <4>1. managed[w] \in Seq(Task)
        BY <2>3, <1>1 DEF TypeOK
      <4>2. Head(managed[w]) = t
        BY <4>1, <3>1, TailFacts
      <4> QED
        BY <4>2, <3>1 DEF CurrentTask, Busy
    <3> QED
      BY <2>1, <3>2, <1>3
  <2> QED
    BY <2>2, <2>3, <2>4, <2>5, <1>2, <1>3
<1>18. NoCopies'
  <2>1. \A u, v \in Slot : \A i \in DOMAIN queue'[u], j \in DOMAIN queue'[v] :
           queue'[u][i] = queue'[v][j] /\ queue'[u][i] # Quit => u = v /\ i = j
    <3>1. d \in [Slot -> Int]
      OBVIOUS
    <3> HIDE DEF d
    <3> QED
      BY <3>1, <1>10, ShiftedFacts
  <2>2. ASSUME NEW v \in Slot, NEW i \in DOMAIN orphaned', orphaned'[i] \in Queued(v)' PROVE FALSE
    <3>1. PICK w \in Gone : orphaned'[i] \in Queued(w)
      BY <1>5
    <3>2. v \notin Gone /\ orphaned'[i] \in Queued(v)
      BY <2>2, <1>11
    <3>3. v = w
      BY <3>1, <3>2, <1>1, <1>6 DEF NoCopies, Queued
    <3> QED
      BY <3>1, <3>2, <3>3
  <2>3. \A v \in Slot : IsInjective(managed'[v])
    <3>1. IsInjective(<<>>)
      BY DEF IsInjective
    <3> QED
      BY <3>1, <1>1, <1>3 DEF NoCopies
  <2> QED
    BY <2>1, <2>2, <2>3, <1>5 DEF NoCopies
<1>19. Fresh'
  <2>1. \A t : Waiting(t)' => Waiting(t)
    BY <1>6, <1>11, <1>12 DEF Waiting
  <2> QED
    BY <2>1, <1>1, <1>3 DEF Fresh
<1>20. Ordered'
  <2>1. SUFFICES ASSUME refused = {}, NEW w \in Slot PROVE Orderly(w)'
    BY <1>3 DEF Ordered
  <2>2. Orderly(w)
    BY <2>1, <1>1 DEF Ordered
  <2>3. CASE w \in Gone
    <3>1. managed'[w] = <<>> /\ cur'[w] = None
      BY <2>3, <1>3
    <3> QED
      BY <3>1 DEF Orderly
  <2>4. CASE w \notin Gone
    <3>1. managed'[w] = managed[w] /\ cur'[w] = cur[w] /\ Queued(w)' = Queued(w)
      BY <2>4, <1>3, <1>11
    <3>2. d \in [Slot -> Int]
      OBVIOUS
    <3> HIDE DEF d
    <3> QED
      BY <3>1, <3>2, <2>2, <1>10, OrderlyShifted
  <2> QED
    BY <2>3, <2>4
<1> QED
  BY <1>13, <1>14, <1>15, <1>16, <1>17, <1>18, <1>19, <1>20 DEF IInv

-----------------------------------------------------------------------------
LEMMA InitHolds == Init => IInv
<1> SUFFICES ASSUME Init PROVE IInv
  OBVIOUS
<1>1. /\ pool \in SUBSET Slot
      /\ proc = [w \in Slot |-> IF w \in pool THEN "up" ELSE "none"]
      /\ queue = [w \in Slot |-> <<>>] /\ managed = [w \in Slot |-> <<>>]
      /\ cur = [w \in Slot |-> None]
      /\ inbox = Task /\ orphaned = <<>> /\ cancel = NoCancel
      /\ begun = [t \in Task |-> 0]
      /\ done = {} /\ refused = {} /\ lost = {} /\ reaped = {}
      /\ budget = [deaths |-> MaxDeaths, cancels |-> MaxCancels, reloads |-> MaxReloads]
  BY DEF Init
<1>2. TypeOK
  <2>1. budget \in [deaths : 0..MaxDeaths, cancels : 0..MaxCancels, reloads : 0..MaxReloads]
    BY <1>1, PoolAssumption
  <2>2. cancel \in [task : Task \cup {None}, todo : SUBSET Slot, at : Slot \cup {None}]
    BY <1>1 DEF NoCancel
  <2> QED
    BY <1>1, <2>1, <2>2 DEF TypeOK
<1>3. (\A w \in Slot : Queued(w) = {}) /\ \A t : ~Contains(orphaned, t)
  BY <1>1 DEF Queued, Contains
<1>4. NoTaskTwice /\ NothingLost /\ WorkIsManaged /\ NothingAbandoned
  BY <1>1, <1>3 DEF NoTaskTwice, NothingLost, WorkIsManaged, NothingAbandoned
<1>5. NoCopies /\ Fresh /\ InHand
  BY <1>1, <1>3 DEF NoCopies, Fresh, InHand, Waiting, IsInjective
<1>6. Ordered
  BY <1>1 DEF Ordered, Orderly
<1> QED
  BY <1>2, <1>4, <1>5, <1>6 DEF IInv

LEMMA NextKeeps == IInv /\ [Next]_vars => IInv'
<1> SUFFICES ASSUME IInv, [Next]_vars PROVE IInv'
  OBVIOUS
<1>1. CASE \E t \in Task : Receive(t)
  BY <1>1, ReceiveKeeps
<1>2. CASE Requeue
  BY <1>2, RequeueKeeps
<1>3. CASE (\E t \in Task : CancelStart(t)) \/ (\E w \in Slot : CancelLook(w)) \/ CancelKill
  BY <1>3, CancelKeeps
<1>4. CASE Reload
  BY <1>4, ReloadKeeps
<1>5. CASE Cleanup
  BY <1>5, CleanupKeeps
<1>6. CASE \E w \in Slot : WorkerTake(w)
  BY <1>6, TakeKeeps
<1>7. CASE \E w \in Slot : WorkerQuit(w) \/ WorkerDie(w)
  BY <1>7, QuitKeeps
<1>8. CASE \E w \in Slot : WorkerFinish(w)
  BY <1>8, FinishKeeps
<1>9. CASE UNCHANGED vars
  BY <1>9 DEF vars, IInv, TypeOK, NoTaskTwice, NothingLost, WorkIsManaged, NothingAbandoned,
              NoCopies, Fresh, InHand, Ordered, Orderly, Waiting, Queued
<1> QED
  BY <1>1, <1>2, <1>3, <1>4, <1>5, <1>6, <1>7, <1>8, <1>9 DEF Next

(* IInv is inductive: the positions of the messages determine everything   *)
(* the pool does with them.                                                *)
THEOREM PoolInvariant == Spec => []IInv
<1>1. Init => IInv
  BY InitHolds
<1>2. IInv /\ [Next]_vars => IInv'
  BY NextKeeps
<1> QED
  BY <1>1, <1>2, PTL DEF Spec

(* The types of the pool's state. *)
THEOREM PoolTypes == Spec => []TypeOK
<1>1. IInv => TypeOK
  BY DEF IInv
<1> QED
  BY <1>1, PoolInvariant, PTL

(* However many workers die, are cancelled or reloaded, and however small  *)
(* the queues are, AutoscalePool hands no task to a worker a second time.  *)
THEOREM BegunAtMostOnce == Spec => []NoTaskTwice
<1>1. IInv => NoTaskTwice
  BY DEF IInv
<1> QED
  BY <1>1, PoolInvariant, PTL

(* No task disappears without a full queue: cleanup puts back all that     *)
(* waited in the queues of dead workers, and retires only empty ones.      *)
THEOREM WaitsUntilBegun == Spec => []NothingLost
<1>1. IInv => NothingLost
  BY DEF IInv
<1> QED
  BY <1>1, PoolInvariant, PTL

(* managed_tasks covers all a worker has, so that the reapers spare it. *)
THEOREM AllWorkIsManaged == Spec => []WorkIsManaged
<1>1. IInv => WorkIsManaged
  BY DEF IInv
<1> QED
  BY <1>1, PoolInvariant, PTL

(* While no full queue refused a message, the first managed task of a dead *)
(* worker is the one it had in hand, and cleanup fails no other instead.   *)
THEOREM DeadWorkersTaskIsReaped == Spec => []NothingAbandoned
<1>1. IInv => NothingAbandoned
  BY DEF IInv
<1> QED
  BY <1>1, PoolInvariant, PTL
=============================================================================
