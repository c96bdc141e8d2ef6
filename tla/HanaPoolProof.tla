-------------------------- MODULE HanaPoolProof ---------------------------
(***************************************************************************)
(* The connection pool of cf-hana and the transactions that use it, for any*)
(* number of calls and any pool size.  The pool: no connection has two     *)
(* borrowers, the count of its connections is exact and never exceeds the  *)
(* maximum, and a drained pool keeps nothing open; nothing is assumed about*)
(* failing opens or lost connections.  Transactions: they use the pool as  *)
(* every call does, no work is left in a session its transaction has ended,*)
(* and what transaction() tells its caller is what the database did - for a*)
(* work that waits for its statements (Stray is empty).                    *)
(***************************************************************************)
EXTENDS HanaTransactions, FiniteSetTheorems, SequenceTheorems, TLAPS

IdleSet == {idle[i] : i \in 1..Len(idle)}

\* Everything TypeOK says but for the count.
Shapes ==
    /\ idle \in Seq(Task)
    /\ busy \subseteq Task
    /\ waiters \in Seq(Task)
    /\ draining \in BOOLEAN
    /\ alive \subseteq Task
    /\ pc \in [Task -> Stages]
    /\ held \in [Task -> Task \cup {NoConn}]

\* A queue w whose tasks all wait, each once, p being pc.
InOrder(w, p) ==
    \A i \in 1..Len(w) :
        /\ p[w[i]] = "queued"
        /\ \A j \in 1..Len(w) : w[i] = w[j] => i = j
QueueInOrder == InOrder(waiters, pc)

\* A connection is there only once its open has succeeded.
OpenedOnce == \A c \in busy \cup IdleSet \cup alive : pc[c] \in {"working", "done"}

\* What is open is lent or idle, and a draining pool has neither queue nor idle ones.
Kept ==
    /\ alive \subseteq busy \cup IdleSet
    /\ draining => idle = <<>> /\ waiters = <<>>

Lending == Shapes /\ SoleBorrower /\ QueueInOrder /\ OpenedOnce /\ Kept
-----------------------------------------------------------------------------
\* servePendingWaiters takes from the head of the queue only, and marks whom it takes.
LEMMA ServeTakesFromQueue ==
    ASSUME NEW c \in Int, NEW w \in Seq(Task), NEW p \in [Task -> Stages],
           c <= MaxSize, InOrder(w, p), ServePendingWaiters(c, w, p)
    PROVE  /\ waiters' \in Seq(Task)
           /\ pc' \in [Task -> Stages]
           /\ \A t \in Task : pc'[t] = p[t] \/ (p[t] = "queued" /\ pc'[t] = "served")
           /\ InOrder(waiters', pc')
           /\ w = <<>> => waiters' = <<>>
<1> DEFINE n == Smaller(Len(w), MaxSize - c)
           first == {w[i] : i \in 1..n}
<1>1. Len(w) \in Nat /\ n \in 0..Len(w)
    BY LenProperties, PoolAssumption DEF Smaller
<1>2. /\ waiters' = SubSeq(w, n + 1, Len(w))
      /\ pc' = [t \in Task |-> IF t \in first THEN "served" ELSE p[t]]
    BY DEF ServePendingWaiters
<1>3. \A i \in 1..Len(w) : w[i] \in Task
    BY ElementOfSeq
<1>4. \A t \in first : p[t] = "queued"
    BY <1>1 DEF InOrder
<1>5. /\ SubSeq(w, n + 1, Len(w)) \in Seq(Task)
      /\ Len(SubSeq(w, n + 1, Len(w))) = Len(w) - n
      /\ \A i \in 1..(Len(w) - n) : SubSeq(w, n + 1, Len(w))[i] = w[n + i]
  <2>1. \A i \in (n + 1)..Len(w) : w[i] \in Task
      BY <1>1, <1>3
  <2>2. n + 1 \in Int /\ Len(w) \in Int
      BY <1>1
  <2>3. /\ SubSeq(w, n + 1, Len(w)) \in Seq(Task)
        /\ Len(SubSeq(w, n + 1, Len(w))) =
              IF n + 1 <= Len(w) THEN Len(w) - (n + 1) + 1 ELSE 0
        /\ \A i \in 1..(Len(w) - (n + 1) + 1) :
              SubSeq(w, n + 1, Len(w))[i] = w[n + 1 + i - 1]
      BY <2>1, <2>2, SubSeqProperties
  <2> QED
      BY <1>1, <2>3
<1>6. InOrder(waiters', pc')
  <2> SUFFICES ASSUME NEW i \in 1..(Len(w) - n)
               PROVE  /\ pc'[w[n + i]] = "queued"
                      /\ \A j \in 1..(Len(w) - n) : w[n + i] = w[n + j] => i = j
    <3>1. Len(waiters') = Len(w) - n /\ \A i \in 1..(Len(w) - n) : waiters'[i] = w[n + i]
        BY <1>2, <1>5
    <3> HIDE DEF n
    <3> QED
        BY <3>1 DEF InOrder
  <2>1. n + i \in 1..Len(w) /\ \A j \in 1..(Len(w) - n) : n + j \in 1..Len(w)
      BY <1>1
  <2>2. \A j \in 1..(Len(w) - n) : w[n + i] = w[n + j] => i = j
    <3> TAKE j \in 1..(Len(w) - n)
    <3>1. w[n + i] = w[n + j] => n + i = n + j
        BY <2>1 DEF InOrder
    <3> QED
        BY <1>1, <3>1
  <2>3. \A j \in 1..n : w[j] # w[n + i]
    <3> TAKE j \in 1..n
    <3>1. j \in 1..Len(w) /\ j # n + i
        BY <1>1
    <3> QED
        BY <2>1, <3>1 DEF InOrder
  <2>4. w[n + i] \in Task /\ w[n + i] \notin first /\ p[w[n + i]] = "queued"
      BY <1>3, <2>1, <2>3 DEF InOrder
  <2> QED
      BY <1>2, <2>2, <2>4
<1>7. pc' \in [Task -> Stages]
    BY <1>2 DEF Stages
<1>8. w = <<>> => waiters' = <<>>
    BY <1>1, <1>2, <1>5, EmptySeq
<1> QED
    BY <1>2, <1>4, <1>5, <1>6, <1>7, <1>8

\* As many tasks are marked as the count grows by.
LEMMA ServeCounts ==
    ASSUME NEW c \in Int, NEW w \in Seq(Task), NEW p \in [Task -> Stages],
           c <= MaxSize, InOrder(w, p), ServePendingWaiters(c, w, p)
    PROVE  /\ created' <= MaxSize
           /\ created' \in Int
           /\ created' - c =
                Cardinality(Opening')
                - Cardinality({t \in Task : p[t] \in {"opening", "served"}})
<1> DEFINE n == Smaller(Len(w), MaxSize - c)
           first == {w[i] : i \in 1..n}
           before == {t \in Task : p[t] \in {"opening", "served"}}
           take == [i \in 1..n |-> w[i]]
<1>1. Len(w) \in Nat /\ n \in 0..Len(w) /\ n <= MaxSize - c
    BY LenProperties, PoolAssumption DEF Smaller
<1>2. created' = c + n /\ pc' = [t \in Task |-> IF t \in first THEN "served" ELSE p[t]]
    BY DEF ServePendingWaiters
<1>3. \A i \in 1..n : i \in 1..Len(w) /\ w[i] \in Task
    BY <1>1, ElementOfSeq
<1>4. take \in Surjection(1..n, first) /\ take \in Injection(1..n, first)
  <2>1. take \in [1..n -> first]
      OBVIOUS
  <2>2. \A i, j \in 1..n : take[i] = take[j] => i = j
      BY <1>3 DEF InOrder
  <2> QED
      BY <2>1, <2>2 DEF Surjection, Injection, IsInjective
<1>5. IsFiniteSet(first) /\ Cardinality(first) = n
  <2>1. IsFiniteSet(1..n) /\ Cardinality(1..n) = n
      BY <1>1, FS_Interval
  <2> QED
      BY <1>4, <2>1, FS_Surjection
<1>6. IsFiniteSet(before)
    BY PoolAssumption, FS_Subset
<1>7. first \cap before = {}
    BY <1>3 DEF InOrder
<1>8. Opening' = before \cup first
    BY <1>2, <1>3 DEF Opening
<1>9. /\ Cardinality(before \cup first) =
            Cardinality(before) + Cardinality(first) - Cardinality({})
      /\ Cardinality({}) = 0 /\ Cardinality(before) \in Nat
  <2>1. before \cap first = {}
      BY <1>7
  <2> HIDE DEF before, first
  <2> QED
      BY <1>5, <1>6, <2>1, FS_Union, FS_EmptySet, FS_CardinalityType
<1>10. /\ created' <= MaxSize
       /\ created' \in Int
       /\ created' - c = Cardinality(Opening') - Cardinality(before)
    BY <1>1, <1>2, <1>5, <1>8, <1>9, PoolAssumption
<1> QED
    BY <1>10
-----------------------------------------------------------------------------
\* The queue is untouched and so are the tasks in it.
LEMMA QueueStays ==
    ASSUME Shapes, QueueInOrder, waiters' = waiters,
           \A u \in Task : pc[u] = "queued" => pc'[u] = "queued"
    PROVE  QueueInOrder'
<1>1. \A i \in 1..Len(waiters) : waiters[i] \in Task
    BY ElementOfSeq DEF Shapes
<1> QED
    BY <1>1 DEF QueueInOrder, InOrder

LEMMA IdleTyped == Shapes => IdleSet \subseteq Task /\ Len(idle) \in Nat
    BY ElementOfSeq, LenProperties DEF Shapes, IdleSet

LEMMA LendingInit == Init => Lending
<1> SUFFICES ASSUME Init PROVE Lending
    OBVIOUS
<1>1. Shapes
    BY EmptySeq DEF Init, Shapes, Stages
<1>2. Len(idle) = 0 /\ Len(waiters) = 0
    BY EmptySeq DEF Init
<1>3. SoleBorrower /\ QueueInOrder /\ OpenedOnce /\ Kept
    BY <1>2, PoolAssumption
       DEF Init, SoleBorrower, QueueInOrder, InOrder, OpenedOnce, Kept, IdleSet
<1> QED
    BY <1>1, <1>3 DEF Lending

LEMMA LendingReuses ==
    ASSUME Lending, NEW t \in Task, Reuses(t)
    PROVE  Lending'
<1> USE DEF Lending
<1>1. PICK i \in TakeIdle \ {0} :
        /\ busy' = busy \cup {idle[i]}
        /\ held' = [held EXCEPT ![t] = idle[i]]
        /\ idle' = SubSeq(idle, 1, i - 1)
        /\ created' = created - (Len(idle) - i)
        /\ alive' = alive \ Dropped(i)
    BY DEF Reuses
<1>2. /\ pc[t] = "new" /\ ~draining
      /\ pc' = [pc EXCEPT ![t] = "working"]
      /\ waiters' = waiters /\ draining' = draining
    BY DEF Reuses
<1>3. i \in 1..Len(idle) /\ idle[i] \in alive /\ Len(idle) \in Nat
    BY IdleTyped DEF TakeIdle, Usable
<1>4. \A j \in 1..Len(idle) : idle[j] \in Task
    BY ElementOfSeq DEF Shapes
<1>5. /\ idle' \in Seq(Task) /\ Len(idle') = i - 1
      /\ \A j \in 1..(i - 1) : idle'[j] = idle[j]
  <2>1. \A j \in 1..(i - 1) : idle[j] \in Task
      BY <1>3, <1>4
  <2>2. 1 \in Int /\ i - 1 \in Int
      BY <1>3
  <2>3. /\ SubSeq(idle, 1, i - 1) \in Seq(Task)
        /\ Len(SubSeq(idle, 1, i - 1)) = IF 1 <= i - 1 THEN i - 1 - 1 + 1 ELSE 0
        /\ \A j \in 1..(i - 1 - 1 + 1) : SubSeq(idle, 1, i - 1)[j] = idle[1 + j - 1]
      BY <2>1, <2>2, SubSeqProperties
  <2> QED
      BY <1>1, <1>3, <2>3
<1>6. /\ IdleSet' = {idle[j] : j \in 1..(i - 1)}
      /\ IdleSet' \subseteq IdleSet
    BY <1>3, <1>5 DEF IdleSet
<1>7. Shapes'
    BY <1>1, <1>2, <1>3, <1>4, <1>5 DEF Shapes, Stages
<1>8. idle[i] \notin busy /\ held[t] = NoConn
    BY <1>2, <1>3 DEF SoleBorrower
<1>9. SoleBorrower'
  <2>1. \A u \in Task : held'[u] = IF u = t THEN idle[i] ELSE held[u]
      BY <1>1 DEF Shapes
  <2>2. \A u \in Task : pc'[u] = IF u = t THEN "working" ELSE pc[u]
      BY <1>2 DEF Shapes
  <2>3. \A u \in Task : held[u] # idle[i]
      BY <1>3, <1>4, <1>8, PoolAssumption DEF SoleBorrower
  <2>4. \A u, v \in Task : held'[u] = held'[v] /\ held'[u] # NoConn => u = v
      BY <2>1, <2>3 DEF SoleBorrower
  <2>5. \A u \in Task : pc'[u] = "working" <=> held'[u] # NoConn
      BY <1>3, <1>4, <2>1, <2>2, PoolAssumption DEF SoleBorrower
  <2>6. busy' = {held'[u] : u \in Task} \ {NoConn}
      BY <1>1, <1>3, <1>4, <1>8, <2>1, PoolAssumption DEF SoleBorrower
  <2>7. \A j, k \in 1..Len(idle') :
          idle'[j] \notin busy' /\ (idle'[j] = idle'[k] => j = k)
    <3> TAKE j, k \in 1..Len(idle')
    <3>1. j \in 1..Len(idle) /\ k \in 1..Len(idle) /\ j # i
        BY <1>3, <1>5
    <3>2. idle'[j] = idle[j] /\ idle'[k] = idle[k]
        BY <1>5
    <3> QED
        BY <1>1, <1>3, <3>1, <3>2 DEF SoleBorrower
  <2> QED
      BY <2>4, <2>5, <2>6, <2>7 DEF SoleBorrower
<1>10. QueueInOrder'
    BY <1>2, QueueStays DEF Shapes
<1>11. OpenedOnce'
  <2>1. idle[i] \in IdleSet
      BY <1>3 DEF IdleSet
  <2>2. \A c \in busy' \cup IdleSet' \cup alive' : c \in busy \cup IdleSet \cup alive
      BY <1>1, <1>6, <2>1
  <2>3. \A c \in busy \cup IdleSet \cup alive : c \in Task
      BY IdleTyped DEF Shapes
  <2> QED
      BY <1>2, <2>2, <2>3 DEF OpenedOnce, Shapes
<1>12. Kept'
  <2>1. ASSUME NEW c \in IdleSet
        PROVE  c \in IdleSet' \/ c = idle[i] \/ c \in Dropped(i)
    <3>1. PICK j \in 1..Len(idle) : c = idle[j]
        BY DEF IdleSet
    <3>2. CASE j < i
      <4>1. j \in 1..(i - 1)
          BY <1>3, <3>2
      <4> QED
          BY <1>6, <3>1, <4>1
    <3>3. CASE j = i
        BY <3>1, <3>3
    <3>4. CASE j > i
      <4>1. j \in (i + 1)..Len(idle)
          BY <1>3, <3>4
      <4> QED
          BY <3>1, <4>1 DEF Dropped
    <3> QED
        BY <1>3, <3>2, <3>3, <3>4
  <2> QED
      BY <1>1, <1>2, <2>1 DEF Kept
<1> QED
    BY <1>7, <1>9, <1>10, <1>11, <1>12

\* A step that moves no loan: at most it empties the stack of idle connections.
LEMMA LendingUntouched ==
    ASSUME Lending, busy' = busy, held' = held,
           \/ (idle' = idle /\ alive' \subseteq alive)
           \/ (idle' = <<>> /\ alive' = alive \ Dropped(0)),
           waiters' \in Seq(Task), draining' \in BOOLEAN,
           pc' \in [Task -> Stages], InOrder(waiters', pc'),
           \A u \in Task : pc[u] \in {"working", "done"} => pc'[u] = pc[u],
           \A u \in Task : pc'[u] = "working" => pc[u] = "working",
           draining' => idle' = <<>> /\ waiters' = <<>>
    PROVE  Lending'
<1> USE DEF Lending
<1>1. idle' \in Seq(Task) /\ (idle' = idle \/ idle' = <<>>)
    BY EmptySeq DEF Shapes
<1>2. alive' \subseteq alive
    OBVIOUS
<1>3. Shapes'
    BY <1>1, <1>2 DEF Shapes
<1>4. IdleSet' = {} \/ (IdleSet' = IdleSet /\ idle' = idle)
  <2>1. CASE idle' = idle
      BY <2>1 DEF IdleSet
  <2>2. CASE idle' = <<>>
    <3>1. IdleSet' = {}
        BY <2>2, EmptySeq DEF IdleSet
    <3> QED
        BY <3>1
  <2> QED
      BY <1>1, <2>1, <2>2
<1>5. SoleBorrower'
  <2>1. Len(idle') = 0 \/ idle' = idle
      BY <1>1, EmptySeq
  <2>2. \A i, j \in 1..Len(idle') :
          idle'[i] \notin busy' /\ (idle'[i] = idle'[j] => i = j)
      BY <2>1 DEF SoleBorrower
  <2>3. \A u \in Task : pc'[u] = "working" <=> held'[u] # NoConn
      BY DEF SoleBorrower
  <2> QED
      BY <2>2, <2>3 DEF SoleBorrower
<1>6. QueueInOrder'
    BY DEF QueueInOrder
<1>7. OpenedOnce'
  <2>1. \A c \in busy \cup IdleSet \cup alive : c \in Task
      BY IdleTyped DEF Shapes
  <2>2. \A c \in busy' \cup IdleSet' \cup alive' : c \in busy \cup IdleSet \cup alive
      BY <1>2, <1>4
  <2> QED
      BY <2>1, <2>2 DEF OpenedOnce
<1>8. Kept'
  <2>1. Dropped(0) = IdleSet
      BY DEF Dropped, IdleSet
  <2>2. alive' \subseteq busy' \cup IdleSet'
    <3>1. CASE idle' = idle /\ alive' \subseteq alive
        BY <3>1 DEF Kept, IdleSet
    <3>2. CASE idle' = <<>> /\ alive' = alive \ Dropped(0)
        BY <2>1, <3>2 DEF Kept
    <3> QED
        BY <3>1, <3>2
  <2> QED
      BY <2>2 DEF Kept
<1> QED
    BY <1>3, <1>5, <1>6, <1>7, <1>8

LEMMA LendingOpens ==
    ASSUME Lending, NEW t \in Task, Opens(t)
    PROVE  Lending'
<1> USE DEF Lending
<1>1. /\ pc[t] \in {"opening", "served"}
      /\ busy' = busy \cup {t} /\ alive' = alive \cup {t}
      /\ held' = [held EXCEPT ![t] = t]
      /\ pc' = [pc EXCEPT ![t] = "working"]
      /\ idle' = idle /\ waiters' = waiters /\ draining' = draining
    BY DEF Opens
<1>2. Shapes'
    BY <1>1 DEF Shapes, Stages
<1>3. t \notin busy /\ t \notin IdleSet /\ t \notin alive
    BY <1>1 DEF OpenedOnce
<1>4. \A u \in Task : /\ held'[u] = IF u = t THEN t ELSE held[u]
                      /\ pc'[u] = IF u = t THEN "working" ELSE pc[u]
    BY <1>1 DEF Shapes
<1>5. SoleBorrower'
  <2>1. \A u \in Task : held[u] # t
      BY <1>3, PoolAssumption DEF SoleBorrower
  <2>2. \A u, v \in Task : held'[u] = held'[v] /\ held'[u] # NoConn => u = v
      BY <1>4, <2>1 DEF SoleBorrower
  <2>3. \A u \in Task : pc'[u] = "working" <=> held'[u] # NoConn
      BY <1>4, PoolAssumption DEF SoleBorrower
  <2>4. held[t] = NoConn
      BY <1>1 DEF SoleBorrower
  <2>5. busy' = {held'[u] : u \in Task} \ {NoConn}
      BY <1>1, <1>4, <2>4, PoolAssumption DEF SoleBorrower
  <2>6. \A i, j \in 1..Len(idle') :
          idle'[i] \notin busy' /\ (idle'[i] = idle'[j] => i = j)
      BY <1>1, <1>3 DEF SoleBorrower, IdleSet
  <2> QED
      BY <2>2, <2>3, <2>5, <2>6 DEF SoleBorrower
<1>6. QueueInOrder'
    BY <1>1, <1>4, QueueStays
<1>7. IdleSet' = IdleSet
    BY <1>1 DEF IdleSet
<1>8. OpenedOnce'
  <2>1. \A c \in busy \cup IdleSet \cup alive : c \in Task
      BY IdleTyped DEF Shapes
  <2> QED
      BY <1>1, <1>4, <1>7, <2>1 DEF OpenedOnce
<1>9. Kept'
    BY <1>1, <1>7 DEF Kept
<1> QED
    BY <1>2, <1>5, <1>6, <1>8, <1>9

\* What release leaves of the loans when it hands the connection to nobody.
LEMMA LoanEnds ==
    ASSUME Lending, NEW t \in Task, GivesBack(t),
           busy' = busy \ {held[t]}, held' = [held EXCEPT ![t] = NoConn],
           idle' = idle \/ idle' = Append(idle, held[t]),
           alive' \subseteq alive,
           pc' \in [Task -> Stages], pc'[t] = "done",
           \A u \in Task : pc[u] = "done" => pc'[u] = "done",
           \A u \in Task \ {t} : pc'[u] = "working" <=> pc[u] = "working"
    PROVE  /\ idle' \in Seq(Task)
           /\ IdleSet' = IF idle' = idle THEN IdleSet ELSE IdleSet \cup {held[t]}
           /\ SoleBorrower'
           /\ OpenedOnce'
<1> USE DEF Lending
<1>1. held[t] \in busy /\ held[t] \in Task /\ held[t] # NoConn
    BY PoolAssumption DEF GivesBack, Shapes
<1>2. Len(idle) \in Nat
    BY IdleTyped
<1>3. \A u \in Task : held'[u] = IF u = t THEN NoConn ELSE held[u]
    BY DEF Shapes
<1>4. /\ idle' \in Seq(Task)
      /\ IdleSet' = IF idle' = idle THEN IdleSet ELSE IdleSet \cup {held[t]}
      /\ \A i, j \in 1..Len(idle') :
            idle'[i] \notin busy' /\ (idle'[i] = idle'[j] => i = j)
  <2>1. CASE idle' = idle
      BY <2>1 DEF IdleSet, Shapes, SoleBorrower
  <2>2. CASE idle' = Append(idle, held[t]) /\ idle' # idle
    <3>1. /\ idle' \in Seq(Task) /\ Len(idle') = Len(idle) + 1
          /\ \A i \in 1..Len(idle) : idle'[i] = idle[i]
          /\ idle'[Len(idle) + 1] = held[t]
        BY <1>1, <2>2, AppendProperties DEF Shapes
    <3>2. \A i \in 1..(Len(idle) + 1) : i \in 1..Len(idle) \/ i = Len(idle) + 1
        BY <1>2
    <3>3. \A i \in 1..Len(idle) : i \in 1..(Len(idle) + 1)
        BY <1>2
    <3>4. Len(idle) + 1 \in 1..(Len(idle) + 1) /\ Len(idle) + 1 \notin 1..Len(idle)
        BY <1>2
    <3>5. IdleSet' = IdleSet \cup {held[t]}
        BY <3>1, <3>2, <3>3, <3>4 DEF IdleSet
    <3>6. \A i, j \in 1..Len(idle') :
            idle'[i] \notin busy' /\ (idle'[i] = idle'[j] => i = j)
      <4> SUFFICES ASSUME NEW i \in 1..(Len(idle) + 1), NEW j \in 1..(Len(idle) + 1)
                   PROVE  idle'[i] \notin busy' /\ (idle'[i] = idle'[j] => i = j)
          BY <3>1
      <4>1. \A k \in 1..Len(idle) : idle'[k] \notin busy
          BY <3>1 DEF SoleBorrower
      <4>2. idle'[i] \notin busy'
          BY <3>1, <3>2, <4>1
      <4>3. idle'[i] = idle'[j] => i = j
          BY <1>1, <3>1, <3>2, <4>1 DEF SoleBorrower
      <4> QED
          BY <4>2, <4>3
    <3> QED
        BY <2>2, <3>1, <3>5, <3>6
  <2> QED
      BY <2>1, <2>2
<1>5. SoleBorrower'
  <2>1. \A u, v \in Task : held'[u] = held'[v] /\ held'[u] # NoConn => u = v
      BY <1>3 DEF SoleBorrower
  <2>2. \A u \in Task : pc'[u] = "working" <=> held'[u] # NoConn
      BY <1>3 DEF SoleBorrower
  <2>3. \A u \in Task : held[u] = held[t] => u = t
      BY <1>1 DEF SoleBorrower
  <2>4. busy' = {held'[u] : u \in Task} \ {NoConn}
      BY <1>1, <1>3, <2>3 DEF SoleBorrower
  <2> QED
      BY <1>4, <2>1, <2>2, <2>4 DEF SoleBorrower
<1>6. OpenedOnce'
  <2>1. \A c \in busy \cup IdleSet \cup alive : c \in Task
      BY IdleTyped DEF Shapes
  <2>2. \A c \in busy' \cup IdleSet' \cup alive' : c \in busy \cup IdleSet \cup alive
      BY <1>1, <1>4
  <2>3. \A u \in Task : pc[u] \in {"working", "done"} => pc'[u] \in {"working", "done"}
      OBVIOUS
  <2> QED
      BY <2>1, <2>2, <2>3 DEF OpenedOnce
<1> QED
    BY <1>4, <1>5, <1>6

LEMMA LendingReleasesClosed ==
    ASSUME Lending, created <= MaxSize, created \in Int, NEW t \in Task, ReleasesClosed(t)
    PROVE  Lending'
<1> USE DEF Lending
<1> DEFINE p == [pc EXCEPT ![t] = "done"]
<1>1. /\ GivesBack(t) /\ held[t] \notin alive
      /\ busy' = busy \ {held[t]} /\ held' = [held EXCEPT ![t] = NoConn]
      /\ ServePendingWaiters(created - 1, waiters, p)
      /\ idle' = idle /\ draining' = draining /\ alive' = alive
    BY DEF ReleasesClosed
<1>2. pc[t] = "working"
    BY <1>1 DEF GivesBack
<1>3. p \in [Task -> Stages] /\ \A u \in Task : p[u] = IF u = t THEN "done" ELSE pc[u]
    BY DEF Shapes, Stages
<1>4. InOrder(waiters, p)
    BY <1>2, <1>3, ElementOfSeq DEF QueueInOrder, InOrder, Shapes
<1>5. /\ waiters' \in Seq(Task)
      /\ pc' \in [Task -> Stages]
      /\ \A u \in Task : pc'[u] = p[u] \/ (p[u] = "queued" /\ pc'[u] = "served")
      /\ InOrder(waiters', pc')
      /\ waiters = <<>> => waiters' = <<>>
  <2>1. created - 1 \in Int /\ created - 1 <= MaxSize
      BY PoolAssumption
  <2> HIDE DEF p
  <2> QED
      BY <1>1, <1>3, <1>4, <2>1, ServeTakesFromQueue DEF Shapes
<1>6. SoleBorrower' /\ OpenedOnce' /\ IdleSet' = IdleSet /\ idle' \in Seq(Task)
  <2>1. pc'[t] = "done"
      BY <1>3, <1>5
  <2>2. \A u \in Task : pc[u] = "done" => pc'[u] = "done"
      BY <1>3, <1>5
  <2>3. \A u \in Task \ {t} : pc'[u] = "working" <=> pc[u] = "working"
      BY <1>3, <1>5
  <2> QED
      BY <1>1, <1>5, <2>1, <2>2, <2>3, LoanEnds
<1>7. Shapes'
    BY <1>1, <1>5 DEF Shapes
<1>8. QueueInOrder'
    BY <1>5 DEF QueueInOrder
<1>9. Kept'
    BY <1>1, <1>5, <1>6 DEF Kept
<1> QED
    BY <1>6, <1>7, <1>8, <1>9

LEMMA LendingHandsOver ==
    ASSUME Lending, NEW t \in Task, HandsOver(t)
    PROVE  Lending'
<1> USE DEF Lending
<1> DEFINE next == Head(waiters)
<1>1. /\ pc[t] = "working" /\ held[t] \in busy /\ held[t] \in alive
      /\ waiters # <<>> /\ waiters' = Tail(waiters)
      /\ held' = [held EXCEPT ![t] = NoConn, ![next] = held[t]]
      /\ pc' = [pc EXCEPT ![t] = "done", ![next] = "working"]
      /\ idle' = idle /\ busy' = busy /\ draining' = draining /\ alive' = alive
    BY DEF HandsOver, GivesBack
<1>2. /\ Len(waiters) \in Nat /\ Len(waiters) >= 1
      /\ next = waiters[1] /\ next \in Task /\ pc[next] = "queued"
  <2>1. Len(waiters) \in Nat /\ Len(waiters) # 0
      BY <1>1, EmptySeq, LenProperties DEF Shapes
  <2>2. next = waiters[1] /\ 1 \in 1..Len(waiters)
      BY <1>1, <2>1, HeadTailProperties DEF Shapes
  <2> QED
      BY <2>1, <2>2, ElementOfSeq DEF Shapes, QueueInOrder, InOrder
<1> HIDE DEF next
<1>3. next # t
    BY <1>1, <1>2
<1>4. \A u \in Task : /\ held'[u] = IF u = next THEN held[t]
                                   ELSE IF u = t THEN NoConn ELSE held[u]
                      /\ pc'[u] = IF u = next THEN "working"
                                   ELSE IF u = t THEN "done" ELSE pc[u]
    BY <1>1, <1>2, <1>3 DEF Shapes
<1>5. /\ Len(waiters') = Len(waiters) - 1 /\ waiters' \in Seq(Task)
      /\ \A i \in 1..(Len(waiters) - 1) : waiters'[i] = waiters[i + 1]
    BY <1>1, HeadTailProperties DEF Shapes
<1>6. Shapes'
    BY <1>1, <1>2, <1>5 DEF Shapes, Stages
<1>7. held[t] \in Task /\ held[t] # NoConn /\ held[next] = NoConn
    BY <1>1, <1>2, PoolAssumption DEF SoleBorrower, Shapes
<1>8. SoleBorrower'
  <2>1. \A u \in Task : held[u] = held[t] => u = t
      BY <1>7 DEF SoleBorrower
  <2>2. \A u, v \in Task : held'[u] = held'[v] /\ held'[u] # NoConn => u = v
      BY <1>4, <2>1 DEF SoleBorrower
  <2>3. \A u \in Task : pc'[u] = "working" <=> held'[u] # NoConn
      BY <1>4, <1>7 DEF SoleBorrower
  <2>4. busy' = {held'[u] : u \in Task} \ {NoConn}
    <3>1. \A u \in Task : held[u] # NoConn => \E v \in Task : held'[v] = held[u]
        BY <1>2, <1>4, <1>7
    <3>2. \A u \in Task : held'[u] # NoConn => \E v \in Task : held[v] = held'[u]
        BY <1>4
    <3>3. busy = {held[u] : u \in Task} \ {NoConn}
        BY DEF SoleBorrower
    <3>4. busy \subseteq {held'[u] : u \in Task} \ {NoConn}
        BY <3>1, <3>3
    <3>5. {held'[u] : u \in Task} \ {NoConn} \subseteq busy
        BY <3>2, <3>3
    <3> QED
        BY <1>1, <3>4, <3>5
  <2>5. \A i, j \in 1..Len(idle') :
          idle'[i] \notin busy' /\ (idle'[i] = idle'[j] => i = j)
      BY <1>1 DEF SoleBorrower
  <2> QED
      BY <2>2, <2>3, <2>4, <2>5 DEF SoleBorrower
<1>9. QueueInOrder'
  <2> SUFFICES ASSUME NEW i \in 1..(Len(waiters) - 1)
               PROVE  /\ pc'[waiters[i + 1]] = "queued"
                      /\ \A j \in 1..(Len(waiters) - 1) :
                            waiters[i + 1] = waiters[j + 1] => i = j
      BY <1>5 DEF QueueInOrder, InOrder
  <2>1. \A j \in 1..(Len(waiters) - 1) : j + 1 \in 1..Len(waiters) /\ j + 1 # 1
      BY <1>2
  <2>2. 1 \in 1..Len(waiters)
      BY <1>2
  <2>3. waiters[i + 1] \in Task /\ pc[waiters[i + 1]] = "queued" /\ waiters[i + 1] # next
      BY <1>2, <2>1, <2>2, ElementOfSeq DEF Shapes, QueueInOrder, InOrder
  <2>4. pc'[waiters[i + 1]] = "queued"
      BY <1>1, <1>4, <2>3
  <2>5. \A j \in 1..(Len(waiters) - 1) : waiters[i + 1] = waiters[j + 1] => i = j
    <3> TAKE j \in 1..(Len(waiters) - 1)
    <3>1. waiters[i + 1] = waiters[j + 1] => i + 1 = j + 1
        BY <2>1 DEF QueueInOrder, InOrder
    <3> QED
        BY <1>2, <3>1
  <2> QED
      BY <2>4, <2>5
<1>10. IdleSet' = IdleSet
    BY <1>1 DEF IdleSet
<1>11. OpenedOnce'
  <2>1. \A c \in busy \cup IdleSet \cup alive : c \in Task
      BY IdleTyped DEF Shapes
  <2>2. \A c \in busy \cup IdleSet \cup alive : pc[c] \in {"working", "done"}
      BY DEF OpenedOnce
  <2> QED
      BY <1>1, <1>4, <1>10, <2>1, <2>2 DEF OpenedOnce
<1>12. Kept'
    BY <1>1, <1>10 DEF Kept
<1> QED
    BY <1>6, <1>8, <1>9, <1>11, <1>12

LEMMA LendingClosesOnRelease ==
    ASSUME Lending, NEW t \in Task, ClosesOnRelease(t)
    PROVE  Lending'
<1> USE DEF Lending
<1>1. /\ GivesBack(t)
      /\ busy' = busy \ {held[t]} /\ alive' = alive \ {held[t]}
      /\ held' = [held EXCEPT ![t] = NoConn]
      /\ pc' = [pc EXCEPT ![t] = "done"]
      /\ idle' = idle /\ waiters' = waiters /\ draining' = draining
    BY DEF ClosesOnRelease
<1>2. \A u \in Task : pc'[u] = IF u = t THEN "done" ELSE pc[u]
    BY <1>1 DEF Shapes
<1>3. pc' \in [Task -> Stages] /\ pc[t] = "working"
    BY <1>1 DEF Shapes, Stages, GivesBack
<1>4. SoleBorrower' /\ OpenedOnce' /\ IdleSet' = IdleSet /\ idle' \in Seq(Task)
    BY <1>1, <1>2, <1>3, LoanEnds
<1>5. Shapes'
    BY <1>1, <1>3 DEF Shapes
<1>6. QueueInOrder'
    BY <1>1, <1>2, <1>3, QueueStays
<1>7. Kept'
    BY <1>1, <1>4 DEF Kept
<1> QED
    BY <1>4, <1>5, <1>6, <1>7

LEMMA LendingKeepsIdle ==
    ASSUME Lending, NEW t \in Task, KeepsIdle(t)
    PROVE  Lending'
<1> USE DEF Lending
<1>1. /\ GivesBack(t) /\ ~draining
      /\ busy' = busy \ {held[t]} /\ alive' = alive
      /\ held' = [held EXCEPT ![t] = NoConn]
      /\ pc' = [pc EXCEPT ![t] = "done"]
      /\ idle' = Append(idle, held[t]) /\ waiters' = waiters /\ draining' = draining
    BY DEF KeepsIdle
<1>2. \A u \in Task : pc'[u] = IF u = t THEN "done" ELSE pc[u]
    BY <1>1 DEF Shapes
<1>3. pc' \in [Task -> Stages] /\ pc[t] = "working"
    BY <1>1 DEF Shapes, Stages, GivesBack
<1>4. held[t] \in Task
    BY <1>1 DEF GivesBack, Shapes
<1>5. idle' # idle
    BY <1>1, <1>4, IdleTyped, AppendProperties DEF Shapes
<1>6. /\ SoleBorrower' /\ OpenedOnce' /\ idle' \in Seq(Task)
      /\ IdleSet' = IdleSet \cup {held[t]}
    BY <1>1, <1>2, <1>3, <1>5, LoanEnds
<1>7. Shapes'
    BY <1>1, <1>3, <1>6 DEF Shapes
<1>8. QueueInOrder'
    BY <1>1, <1>2, <1>3, QueueStays
<1>9. Kept'
    BY <1>1, <1>6 DEF Kept
<1> QED
    BY <1>6, <1>7, <1>8, <1>9

\* Every step preserves Lending, given a count within the maximum.
LEMMA LendingNext ==
    ASSUME Lending, created \in Int, created <= MaxSize, [Next]_vars
    PROVE  Lending'
<1> USE DEF Lending
<1>0. \A i \in 1..Len(waiters) : waiters[i] \in Task /\ pc[waiters[i]] = "queued"
    BY ElementOfSeq DEF Shapes, QueueInOrder, InOrder
<1>1. ASSUME NEW t \in Task, Refused(t) PROVE Lending'
  <2>1. \A u \in Task : pc'[u] = IF u = t THEN "refused" ELSE pc[u]
      BY <1>1 DEF Refused, Shapes
  <2>2. pc' \in [Task -> Stages] /\ pc[t] = "new"
      BY <1>1 DEF Refused, Shapes, Stages
  <2>3. InOrder(waiters', pc')
      BY <1>0, <1>1, <2>1, <2>2 DEF Refused, QueueInOrder, InOrder
  <2> QED
      BY <1>1, <2>1, <2>2, <2>3, LendingUntouched DEF Refused, Shapes, Kept
<1>2. ASSUME NEW t \in Task, Reuses(t) PROVE Lending'
    BY <1>2, LendingReuses
<1>3. ASSUME NEW t \in Task, BeginsOpen(t) PROVE Lending'
  <2>1. /\ idle' = <<>> /\ alive' = alive \ Dropped(0) /\ busy' = busy /\ held' = held
        /\ draining' = draining /\ ~draining /\ waiters' = waiters
        /\ pc[t] = "new" /\ pc' = [pc EXCEPT ![t] = "opening"]
      BY <1>3 DEF BeginsOpen, FindsNoneIdle
  <2>2. \A u \in Task : pc'[u] = IF u = t THEN "opening" ELSE pc[u]
      BY <2>1 DEF Shapes
  <2>3. pc' \in [Task -> Stages]
      BY <2>1 DEF Shapes, Stages
  <2>4. InOrder(waiters', pc')
      BY <1>0, <2>1, <2>2 DEF QueueInOrder, InOrder
  <2> QED
      BY <2>1, <2>2, <2>3, <2>4, LendingUntouched DEF Shapes
<1>4. ASSUME NEW t \in Task, Queues(t) PROVE Lending'
  <2>1. /\ idle' = <<>> /\ alive' = alive \ Dropped(0) /\ busy' = busy /\ held' = held
        /\ draining' = draining /\ ~draining /\ waiters' = Append(waiters, t)
        /\ pc[t] = "new" /\ pc' = [pc EXCEPT ![t] = "queued"]
      BY <1>4 DEF Queues, FindsNoneIdle
  <2>2. \A u \in Task : pc'[u] = IF u = t THEN "queued" ELSE pc[u]
      BY <2>1 DEF Shapes
  <2>3. pc' \in [Task -> Stages]
      BY <2>1 DEF Shapes, Stages
  <2>4. /\ waiters' \in Seq(Task) /\ Len(waiters) \in Nat
        /\ Len(waiters') = Len(waiters) + 1
        /\ \A i \in 1..Len(waiters) : waiters'[i] = waiters[i]
        /\ waiters'[Len(waiters) + 1] = t
      BY <2>1, AppendProperties, LenProperties DEF Shapes
  <2>5. InOrder(waiters', pc')
    <3> SUFFICES ASSUME NEW i \in 1..(Len(waiters) + 1), NEW j \in 1..(Len(waiters) + 1)
                 PROVE  /\ pc'[waiters'[i]] = "queued"
                        /\ waiters'[i] = waiters'[j] => i = j
        BY <2>4 DEF InOrder
    <3>1. (i \in 1..Len(waiters) \/ i = Len(waiters) + 1)
          /\ (j \in 1..Len(waiters) \/ j = Len(waiters) + 1)
        BY <2>4
    <3>2. \A k \in 1..Len(waiters) : waiters'[k] # t
        BY <1>0, <2>1, <2>4
    <3>3. pc'[waiters'[i]] = "queued"
        BY <1>0, <2>2, <2>4, <3>1
    <3>4. waiters'[i] = waiters'[j] => i = j
        BY <2>4, <3>1, <3>2 DEF QueueInOrder, InOrder
    <3> QED
        BY <3>3, <3>4
  <2> QED
      BY <2>1, <2>2, <2>3, <2>4, <2>5, LendingUntouched DEF Shapes
<1>5. ASSUME NEW t \in Task, Opens(t) PROVE Lending'
    BY <1>5, LendingOpens
<1>6. ASSUME NEW t \in Task, OpenFails(t) PROVE Lending'
  <2>1. \A u \in Task : pc'[u] = IF u = t THEN "unopened" ELSE pc[u]
      BY <1>6 DEF OpenFails, Shapes
  <2>2. pc' \in [Task -> Stages] /\ pc[t] = "opening"
      BY <1>6 DEF OpenFails, Shapes, Stages
  <2>3. InOrder(waiters', pc')
      BY <1>0, <1>6, <2>1, <2>2 DEF OpenFails, QueueInOrder, InOrder
  <2> QED
      BY <1>6, <2>1, <2>2, <2>3, LendingUntouched DEF OpenFails, Shapes, Kept
<1>7. ASSUME NEW t \in Task, ServingFails(t) PROVE Lending'
  <2> DEFINE p == [pc EXCEPT ![t] = "unserved"]
  <2>1. /\ pc[t] = "served" /\ ServePendingWaiters(created - 1, waiters, p)
        /\ idle' = idle /\ busy' = busy /\ draining' = draining
        /\ alive' = alive /\ held' = held
      BY <1>7 DEF ServingFails
  <2>2. p \in [Task -> Stages] /\ \A u \in Task : p[u] = IF u = t THEN "unserved" ELSE pc[u]
      BY DEF Shapes, Stages
  <2>3. InOrder(waiters, p)
      BY <1>0, <2>1, <2>2 DEF QueueInOrder, InOrder
  <2>4. /\ waiters' \in Seq(Task)
        /\ pc' \in [Task -> Stages]
        /\ \A u \in Task : pc'[u] = p[u] \/ (p[u] = "queued" /\ pc'[u] = "served")
        /\ InOrder(waiters', pc')
        /\ waiters = <<>> => waiters' = <<>>
    <3>1. created - 1 \in Int /\ created - 1 <= MaxSize
        BY PoolAssumption
    <3> HIDE DEF p
    <3> QED
        BY <2>1, <2>2, <2>3, <3>1, ServeTakesFromQueue DEF Shapes
  <2>5. \A u \in Task : /\ pc[u] \in {"working", "done"} => pc'[u] = pc[u]
                        /\ pc'[u] = "working" => pc[u] = "working"
      BY <2>1, <2>2, <2>4
  <2> QED
      BY <2>1, <2>4, <2>5, LendingUntouched DEF Shapes, Kept
<1>8. ASSUME NEW t \in Task, Release(t) PROVE Lending'
    BY <1>8, LendingReleasesClosed, LendingHandsOver, LendingClosesOnRelease,
       LendingKeepsIdle DEF Release
<1>9. CASE Drain
  <2>1. /\ idle' = <<>> /\ waiters' = <<>> /\ draining' = TRUE
        /\ alive' = alive \ Dropped(0) /\ busy' = busy /\ held' = held
        /\ pc' = [u \in Task |-> IF pc[u] = "queued" THEN "refused" ELSE pc[u]]
      BY <1>9 DEF Drain
  <2>2. pc' \in [Task -> Stages]
      BY <2>1 DEF Shapes, Stages
  <2>3. waiters' \in Seq(Task) /\ Len(waiters') = 0
      BY <2>1, EmptySeq
  <2>4. InOrder(waiters', pc')
      BY <2>3 DEF InOrder
  <2>5. \A u \in Task : /\ pc[u] \in {"working", "done"} => pc'[u] = pc[u]
                        /\ pc'[u] = "working" => pc[u] = "working"
      BY <2>1
  <2> QED
      BY <2>1, <2>2, <2>3, <2>4, <2>5, LendingUntouched
<1>10. ASSUME NEW c \in Task, GoesDown(c) PROVE Lending'
  <2>1. /\ idle' = idle /\ busy' = busy /\ waiters' = waiters /\ draining' = draining
        /\ pc' = pc /\ held' = held /\ alive' \subseteq alive
      BY <1>10 DEF GoesDown
  <2> QED
      BY <2>1, LendingUntouched DEF Shapes, Kept, QueueInOrder
<1>11. CASE UNCHANGED vars
  <2>1. /\ idle' = idle /\ busy' = busy /\ waiters' = waiters /\ draining' = draining
        /\ pc' = pc /\ held' = held /\ alive' = alive
      BY <1>11 DEF vars
  <2> QED
      BY <2>1, LendingUntouched DEF Shapes, Kept, QueueInOrder
<1> QED
    BY <1>1, <1>2, <1>3, <1>4, <1>5, <1>6, <1>7, <1>8, <1>9, <1>10, <1>11
       DEF Next, Acquire, OpenSettles
-----------------------------------------------------------------------------
\* The invariant of the proofs: the count is exact because of who holds what.
PoolInv ==
    /\ Lending
    /\ created \in 0..MaxSize
    /\ CountExact

LEMMA PoolInvInit == Init => PoolInv
<1> SUFFICES ASSUME Init PROVE PoolInv
    OBVIOUS
<1>1. Len(idle) = 0 /\ busy = {} /\ Opening = {} /\ created = 0
    BY EmptySeq DEF Init, Opening
<1>2. CountExact
    BY <1>1, FS_EmptySet DEF CountExact
<1> QED
    BY <1>1, <1>2, LendingInit, PoolAssumption DEF PoolInv

\* The sets counted are finite.
LEMMA FiniteSets ==
    ASSUME Shapes
    PROVE  /\ IsFiniteSet(busy) /\ Cardinality(busy) \in Nat
           /\ IsFiniteSet(Opening) /\ Cardinality(Opening) \in Nat
           /\ Len(idle) \in Nat
    BY PoolAssumption, FS_Subset, FS_CardinalityType, LenProperties DEF Shapes, Opening

\* A set of tasks grows or shrinks by one.
LEMMA OneMore ==
    ASSUME NEW S, NEW x, IsFiniteSet(S), x \notin S
    PROVE  Cardinality(S \cup {x}) = Cardinality(S) + 1
    BY FS_AddElement

LEMMA OneLess ==
    ASSUME NEW S, NEW x, IsFiniteSet(S), x \in S
    PROVE  Cardinality(S \ {x}) = Cardinality(S) - 1
    BY FS_RemoveElement

\* The count a step leaves is exact and within the maximum.
LEMMA CountNext ==
    ASSUME PoolInv, Lending', [Next]_vars
    PROVE  CountExact' /\ created' \in 0..MaxSize
<1> USE DEF PoolInv, Lending
<1>0. /\ MaxSize \in Nat /\ created \in Int /\ created <= MaxSize
      /\ created = Len(idle) + Cardinality(busy) + Cardinality(Opening)
    BY PoolAssumption DEF CountExact
<1>f. /\ IsFiniteSet(busy) /\ Cardinality(busy) \in Nat
      /\ IsFiniteSet(Opening) /\ Cardinality(Opening) \in Nat
      /\ Len(idle) \in Nat
    BY FiniteSets
<1>g. /\ IsFiniteSet(busy') /\ Cardinality(busy') \in Nat
      /\ IsFiniteSet(Opening') /\ Cardinality(Opening') \in Nat
      /\ Len(idle') \in Nat
    BY PoolAssumption, FS_Subset, FS_CardinalityType, LenProperties DEF Shapes, Opening
<1> DEFINE Exact == /\ created' = Len(idle') + Cardinality(busy') + Cardinality(Opening')
                    /\ created' <= MaxSize
<1> SUFFICES Exact
    BY <1>g, <1>0 DEF CountExact
<1>1. ASSUME NEW t \in Task, Refused(t) PROVE Exact
  <2>1. Opening' = Opening
      BY <1>1 DEF Refused, Shapes, Opening
  <2> QED
      BY <1>0, <1>1, <2>1 DEF Refused
<1>2. ASSUME NEW t \in Task, Reuses(t) PROVE Exact
  <2>1. PICK i \in TakeIdle \ {0} :
          /\ busy' = busy \cup {idle[i]}
          /\ idle' = SubSeq(idle, 1, i - 1)
          /\ created' = created - (Len(idle) - i)
      BY <1>2 DEF Reuses
  <2>2. i \in 1..Len(idle) /\ idle[i] \notin busy
      BY DEF TakeIdle, Usable, SoleBorrower
  <2>3. Len(idle') = i - 1
    <3>1. \A j \in 1..(i - 1) : idle[j] \in Task
        BY <1>f, <2>2, ElementOfSeq DEF Shapes
    <3>2. 1 \in Int /\ i - 1 \in Int
        BY <1>f, <2>2
    <3>3. Len(SubSeq(idle, 1, i - 1)) = IF 1 <= i - 1 THEN i - 1 - 1 + 1 ELSE 0
        BY <3>1, <3>2, SubSeqProperties
    <3> QED
        BY <1>f, <2>1, <2>2, <3>3
  <2>4. Cardinality(busy') = Cardinality(busy) + 1
      BY <1>f, <2>1, <2>2, OneMore
  <2>5. Opening' = Opening
      BY <1>2 DEF Reuses, Shapes, Opening
  <2>6. i \in Int /\ i <= Len(idle)
      BY <1>f, <2>2
  <2>7. created' = created - (Len(idle) - i)
      BY <2>1
  <2>8. created' = (i - 1) + (Cardinality(busy) + 1) + Cardinality(Opening)
      BY <1>0, <1>f, <2>6, <2>7
  <2>9. created' <= MaxSize
      BY <1>0, <1>f, <2>6, <2>7
  <2> QED
      BY <2>3, <2>4, <2>5, <2>8, <2>9
<1>3. ASSUME NEW t \in Task, BeginsOpen(t) PROVE Exact
  <2>1. /\ idle' = <<>> /\ busy' = busy
        /\ created - Len(idle) < MaxSize
        /\ created' = created - Len(idle) + 1
        /\ pc[t] = "new" /\ pc' = [pc EXCEPT ![t] = "opening"]
      BY <1>3 DEF BeginsOpen, FindsNoneIdle
  <2>2. Opening' = Opening \cup {t} /\ t \notin Opening
      BY <2>1 DEF Shapes, Opening
  <2>3. Cardinality(Opening') = Cardinality(Opening) + 1
      BY <1>f, <2>2, OneMore
  <2>4. Len(idle') = 0
      BY <2>1, EmptySeq
  <2> QED
      BY <1>0, <1>f, <2>1, <2>3, <2>4
<1>4. ASSUME NEW t \in Task, Queues(t) PROVE Exact
  <2>1. /\ idle' = <<>> /\ busy' = busy
        /\ created' = created - Len(idle)
        /\ pc[t] = "new" /\ pc' = [pc EXCEPT ![t] = "queued"]
      BY <1>4 DEF Queues, FindsNoneIdle
  <2>2. Opening' = Opening
      BY <2>1 DEF Shapes, Opening
  <2>3. Len(idle') = 0
      BY <2>1, EmptySeq
  <2> QED
      BY <1>0, <1>f, <2>1, <2>2, <2>3
<1>5. ASSUME NEW t \in Task, Opens(t) PROVE Exact
  <2>1. /\ pc[t] \in {"opening", "served"} /\ idle' = idle /\ created' = created
        /\ busy' = busy \cup {t} /\ pc' = [pc EXCEPT ![t] = "working"]
      BY <1>5 DEF Opens
  <2>2. t \notin busy /\ Opening' = Opening \ {t} /\ t \in Opening
      BY <2>1 DEF OpenedOnce, Shapes, Opening
  <2>3. Cardinality(busy') = Cardinality(busy) + 1
      BY <1>f, <2>1, <2>2, OneMore
  <2>4. Cardinality(Opening') = Cardinality(Opening) - 1
      BY <1>f, <2>2, OneLess
  <2> QED
      BY <1>0, <1>f, <2>1, <2>3, <2>4
<1>6. ASSUME NEW t \in Task, OpenFails(t) PROVE Exact
  <2>1. /\ pc[t] = "opening" /\ idle' = idle /\ created' = created - 1
        /\ busy' = busy /\ pc' = [pc EXCEPT ![t] = "unopened"]
      BY <1>6 DEF OpenFails
  <2>2. Opening' = Opening \ {t} /\ t \in Opening
      BY <2>1 DEF Shapes, Opening
  <2>3. Cardinality(Opening') = Cardinality(Opening) - 1
      BY <1>f, <2>2, OneLess
  <2> QED
      BY <1>0, <1>f, <2>1, <2>3
<1>7. ASSUME NEW t \in Task, ServingFails(t) PROVE Exact
  <2> DEFINE p == [pc EXCEPT ![t] = "unserved"]
  <2>1. /\ pc[t] = "served" /\ ServePendingWaiters(created - 1, waiters, p)
        /\ idle' = idle /\ busy' = busy
      BY <1>7 DEF ServingFails
  <2>2. p \in [Task -> Stages] /\ \A u \in Task : p[u] = IF u = t THEN "unserved" ELSE pc[u]
      BY DEF Shapes, Stages
  <2>3. /\ Opening \ {t} = {u \in Task : p[u] \in {"opening", "served"}}
        /\ t \in Opening
      BY <2>1, <2>2 DEF Opening
  <2>4. Cardinality(Opening \ {t}) = Cardinality(Opening) - 1
      BY <1>f, <2>3, OneLess
  <2>5. InOrder(waiters, p)
      BY <2>1, <2>2, ElementOfSeq DEF QueueInOrder, InOrder, Shapes
  <2>6. created - 1 \in Int /\ created - 1 <= MaxSize
      BY <1>0
  <2>7. /\ created' <= MaxSize /\ created' \in Int
        /\ created' - (created - 1) = Cardinality(Opening') - Cardinality(Opening \ {t})
    <3>1. /\ created' <= MaxSize /\ created' \in Int
          /\ created' - (created - 1) =
               Cardinality(Opening')
               - Cardinality({u \in Task : p[u] \in {"opening", "served"}})
      <4>1. p \in [Task -> Stages] /\ waiters \in Seq(Task)
          BY <2>2 DEF Shapes
      <4>2. ServePendingWaiters(created - 1, waiters, p)
          BY <2>1
      <4> HIDE DEF p, Lending, PoolInv
      <4> QED
          BY <2>5, <2>6, <4>1, <4>2, ServeCounts
    <3> QED
        BY <2>3, <3>1
  <2> QED
      BY <1>0, <1>f, <1>g, <2>1, <2>4, <2>7
<1>8. ASSUME NEW t \in Task, Release(t) PROVE Exact
  <2>0. CASE HandsOver(t)
    <3>1. /\ idle' = idle /\ busy' = busy /\ created' = created
          /\ pc[t] = "working" /\ waiters # <<>>
          /\ pc' = [pc EXCEPT ![t] = "done", ![Head(waiters)] = "working"]
        BY <2>0 DEF HandsOver, GivesBack
    <3>2. Head(waiters) \in Task /\ pc[Head(waiters)] = "queued"
      <4>1. Len(waiters) \in Nat /\ Len(waiters) # 0
          BY <3>1, EmptySeq, LenProperties DEF Shapes
      <4>2. Head(waiters) = waiters[1] /\ 1 \in 1..Len(waiters)
          BY <3>1, <4>1, HeadTailProperties DEF Shapes
      <4> QED
          BY <4>2, ElementOfSeq DEF Shapes, QueueInOrder, InOrder
    <3>3. Opening' = Opening
        BY <3>1, <3>2 DEF Shapes, Opening
    <3> QED
        BY <1>0, <3>1, <3>3
  <2>1. ASSUME GivesBack(t), busy' = busy \ {held[t]}
        PROVE  /\ Cardinality(busy') = Cardinality(busy) - 1
               /\ pc[t] = "working"
      BY <1>f, <2>1, OneLess DEF GivesBack
  <2>2. CASE ReleasesClosed(t)
    <3> DEFINE p == [pc EXCEPT ![t] = "done"]
    <3>1. /\ GivesBack(t) /\ busy' = busy \ {held[t]} /\ idle' = idle
          /\ ServePendingWaiters(created - 1, waiters, p)
        BY <2>2 DEF ReleasesClosed
    <3>2. p \in [Task -> Stages] /\ \A u \in Task : p[u] = IF u = t THEN "done" ELSE pc[u]
        BY DEF Shapes, Stages
    <3>3. Opening = {u \in Task : p[u] \in {"opening", "served"}}
        BY <2>1, <3>1, <3>2 DEF Opening
    <3>4. InOrder(waiters, p)
        BY <2>1, <3>1, <3>2, ElementOfSeq DEF QueueInOrder, InOrder, Shapes
    <3>5. created - 1 \in Int /\ created - 1 <= MaxSize
        BY <1>0
    <3>6. /\ created' <= MaxSize /\ created' \in Int
          /\ created' - (created - 1) = Cardinality(Opening') - Cardinality(Opening)
      <4>1. /\ created' <= MaxSize /\ created' \in Int
            /\ created' - (created - 1) =
                 Cardinality(Opening')
                 - Cardinality({u \in Task : p[u] \in {"opening", "served"}})
        <5>1. p \in [Task -> Stages] /\ waiters \in Seq(Task)
            BY <3>2 DEF Shapes
        <5>2. ServePendingWaiters(created - 1, waiters, p)
            BY <3>1
        <5> HIDE DEF p, Lending, PoolInv
        <5> QED
            BY <3>4, <3>5, <5>1, <5>2, ServeCounts
      <4> QED
          BY <3>3, <4>1
    <3>7. Cardinality(busy') = Cardinality(busy) - 1
        BY <2>1, <3>1
    <3>8. Len(idle') = Len(idle)
        BY <3>1
    <3>9. created' = Len(idle) + (Cardinality(busy) - 1) + Cardinality(Opening')
      <4>1. created' = (created - 1) + (Cardinality(Opening') - Cardinality(Opening))
          BY <1>0, <1>f, <1>g, <3>6
      <4> QED
          BY <1>0, <1>f, <1>g, <4>1
    <3> QED
        BY <3>6, <3>7, <3>8, <3>9
  <2>3. CASE ClosesOnRelease(t)
    <3>1. /\ GivesBack(t) /\ busy' = busy \ {held[t]} /\ idle' = idle
          /\ created' = created - 1 /\ pc' = [pc EXCEPT ![t] = "done"]
        BY <2>3 DEF ClosesOnRelease
    <3>2. Opening' = Opening
        BY <2>1, <3>1 DEF Shapes, Opening
    <3> QED
        BY <1>0, <1>f, <2>1, <3>1, <3>2
  <2>4. CASE KeepsIdle(t)
    <3>1. /\ GivesBack(t) /\ busy' = busy \ {held[t]} /\ idle' = Append(idle, held[t])
          /\ created' = created /\ pc' = [pc EXCEPT ![t] = "done"]
        BY <2>4 DEF KeepsIdle
    <3>2. Opening' = Opening
        BY <2>1, <3>1 DEF Shapes, Opening
    <3>3. Len(idle') = Len(idle) + 1
        BY <3>1, AppendProperties DEF GivesBack, Shapes
    <3> QED
        BY <1>0, <1>f, <2>1, <3>1, <3>2, <3>3
  <2> QED
      BY <1>8, <2>0, <2>2, <2>3, <2>4 DEF Release
<1>9. CASE Drain
  <2>1. /\ idle' = <<>> /\ busy' = busy /\ created' = created - Len(idle)
        /\ pc' = [u \in Task |-> IF pc[u] = "queued" THEN "refused" ELSE pc[u]]
      BY <1>9 DEF Drain
  <2>2. Opening' = Opening
      BY <2>1 DEF Opening
  <2>3. Len(idle') = 0
      BY <2>1, EmptySeq
  <2> QED
      BY <1>0, <1>f, <2>1, <2>2, <2>3
<1>10. ASSUME NEW c \in Task, GoesDown(c) PROVE Exact
    BY <1>0, <1>10 DEF GoesDown, Opening
<1>11. CASE UNCHANGED vars
    BY <1>0, <1>11 DEF vars, Opening
<1> QED
    BY <1>1, <1>2, <1>3, <1>4, <1>5, <1>6, <1>7, <1>8, <1>9, <1>10, <1>11
       DEF Next, Acquire, OpenSettles

LEMMA PoolInvNext == PoolInv /\ [Next]_vars => PoolInv'
<1> SUFFICES ASSUME PoolInv, [Next]_vars PROVE PoolInv'
    OBVIOUS
<1>1. Lending'
    BY LendingNext, PoolAssumption DEF PoolInv
<1>2. CountExact' /\ created' \in 0..MaxSize
    BY <1>1, CountNext
<1> QED
    BY <1>1, <1>2, PoolAssumption DEF PoolInv

\* Every reachable state of the pool satisfies the inductive invariant.
LEMMA PoolInvAlways == Spec => []PoolInv
    BY PoolInvInit, PoolInvNext, PTL DEF Spec
-----------------------------------------------------------------------------
\* Every variable of the pool keeps its type, and the count its bounds: the
\* pool never owns more connections than its maximum.
THEOREM TypeCorrect == Spec => []TypeOK
<1>1. PoolInv => TypeOK
    BY DEF PoolInv, Lending, Shapes, TypeOK
<1> QED
    BY <1>1, PoolInvAlways, PTL

\* The count acquire compares with the maximum is, on every path of acquire,
\* release and drain, the number of connections idle, lent or being opened.
THEOREM CountStaysExact == Spec => []CountExact
<1>1. PoolInv => CountExact
    BY DEF PoolInv
<1> QED
    BY <1>1, PoolInvAlways, PTL

\* withConnection lends a connection to one call at a time, and none that is idle.
THEOREM LoansStaySole == Spec => []SoleBorrower
<1>1. PoolInv => SoleBorrower
    BY DEF PoolInv, Lending
<1> QED
    BY <1>1, PoolInvAlways, PTL

\* After drain whatever is open is lent, and release closes it.
THEOREM DrainLeavesNothing == Spec => []DrainClosesAll
<1>1. PoolInv => DrainClosesAll
  <2>1. idle = <<>> => Len(idle) = 0
      BY EmptySeq
  <2> QED
      BY <2>1 DEF PoolInv, Lending, Kept, IdleSet, DrainClosesAll
<1> QED
    BY <1>1, PoolInvAlways, PTL

-----------------------------------------------------------------------------
(***************************************************************************)
(* The queue.  The count is at its maximum while anyone waits, so every    *)
(* connection is lent or being opened; an open that fails outside the queue*)
(* is the one thing that takes a connection away without serving it.       *)
(***************************************************************************)
Unopened == \E u \in Task : pc[u] = "unopened"
QueueAtMax == waiters # <<>> => idle = <<>> /\ (created = MaxSize \/ Unopened)

\* Who is still queued after the queue was served waits for a full pool.
LEMMA ServeFillsPool ==
    ASSUME NEW c \in Int, NEW w \in Seq(Task), NEW p \in [Task -> Stages],
           c <= MaxSize, InOrder(w, p), ServePendingWaiters(c, w, p), waiters' # <<>>
    PROVE  created' = MaxSize
<1> DEFINE n == Smaller(Len(w), MaxSize - c)
<1>1. Len(w) \in Nat /\ MaxSize \in Nat
    BY LenProperties, PoolAssumption
<1>2. waiters' = SubSeq(w, n + 1, Len(w)) /\ created' = c + n
    BY DEF ServePendingWaiters
<1>3. n # Len(w)
  <2> SUFFICES ASSUME n = Len(w) PROVE FALSE
      OBVIOUS
  <2> HIDE DEF n
  <2>1. /\ \A i \in (n + 1)..Len(w) : w[i] \in Task
        /\ n + 1 \in Int /\ Len(w) \in Int
      BY <1>1
  <2>2. /\ SubSeq(w, n + 1, Len(w)) \in Seq(Task)
        /\ Len(SubSeq(w, n + 1, Len(w))) = IF n + 1 <= Len(w) THEN Len(w) - (n + 1) + 1 ELSE 0
      BY <2>1, SubSeqProperties
  <2>3. Len(waiters') = 0 /\ waiters' \in Seq(Task)
      BY <1>1, <1>2, <2>2
  <2> QED
      BY <2>3, EmptySeq
<1> QED
    BY <1>1, <1>2, <1>3 DEF Smaller

LEMMA QueueAtMaxNext ==
    ASSUME PoolInv, created' \in 0..MaxSize, QueueAtMax, [Next]_vars
    PROVE  QueueAtMax'
<1> USE DEF PoolInv, Lending
<1>0. MaxSize \in Nat /\ created \in Int /\ created <= MaxSize /\ Len(idle) \in Nat
    BY PoolAssumption, IdleTyped
<1>e. Len(<<>>) = 0
    BY EmptySeq
\* A task that failed to open stays so.
<1>a. ASSUME \A u \in Task : pc[u] = "unopened" => pc'[u] = "unopened"
      PROVE  Unopened => Unopened'
    BY <1>a DEF Unopened
<1>b. ASSUME idle' = idle, created' = created, waiters' # <<>> => waiters # <<>>,
             \A u \in Task : pc[u] = "unopened" => pc'[u] = "unopened"
      PROVE  QueueAtMax'
    BY <1>a, <1>b DEF QueueAtMax
<1>c. ASSUME NEW t \in Task, NEW stage \in Stages, pc[t] # "unopened",
             pc' = [pc EXCEPT ![t] = stage]
      PROVE  \A u \in Task : pc[u] = "unopened" => pc'[u] = "unopened"
    BY <1>c DEF Shapes
<1>1. ASSUME NEW t \in Task, Refused(t) PROVE QueueAtMax'
    BY <1>1, <1>b, <1>c DEF Refused, Stages
<1>2. ASSUME NEW t \in Task, Reuses(t) PROVE QueueAtMax'
  <2>1. waiters' = waiters /\ \E i \in TakeIdle : i # 0
      BY <1>2 DEF Reuses
  <2>2. Len(idle) # 0
      BY <2>1, <1>0 DEF TakeIdle, Usable
  <2> QED
      BY <1>e, <2>1, <2>2 DEF QueueAtMax
<1>3. ASSUME NEW t \in Task, BeginsOpen(t) PROVE QueueAtMax'
  <2>1. /\ waiters' = waiters /\ idle' = <<>> /\ created - Len(idle) < MaxSize
        /\ Unopened => Unopened'
      BY <1>3, <1>a, <1>c DEF BeginsOpen, FindsNoneIdle, Stages
  <2> QED
      BY <1>0, <1>e, <2>1 DEF QueueAtMax
<1>4. ASSUME NEW t \in Task, Queues(t) PROVE QueueAtMax'
  <2>1. idle' = <<>> /\ created' >= MaxSize
      BY <1>4 DEF Queues, FindsNoneIdle
  <2> QED
      BY <1>0, <2>1 DEF QueueAtMax
<1>5. ASSUME NEW t \in Task, Opens(t) PROVE QueueAtMax'
    BY <1>5, <1>b, <1>c DEF Opens, Stages
<1>6. ASSUME NEW t \in Task, OpenFails(t) PROVE QueueAtMax'
  <2>1. waiters' = waiters /\ idle' = idle /\ pc'[t] = "unopened"
      BY <1>6 DEF OpenFails, Shapes
  <2> QED
      BY <2>1 DEF QueueAtMax, Unopened
\* Both that serve the queue do so with a count within the maximum.
<1>7. ASSUME NEW t \in Task, NEW stage \in {"unserved", "done"}, pc[t] \in {"served", "working"},
             ServePendingWaiters(created - 1, waiters, [pc EXCEPT ![t] = stage]), idle' = idle
      PROVE  QueueAtMax'
  <2> DEFINE p == [pc EXCEPT ![t] = stage]
  <2>1. p \in [Task -> Stages] /\ \A u \in Task : p[u] = IF u = t THEN stage ELSE pc[u]
      BY DEF Shapes, Stages
  <2>2. InOrder(waiters, p)
      BY <1>7, <2>1, ElementOfSeq DEF QueueInOrder, InOrder, Shapes
  <2>3. created - 1 \in Int /\ created - 1 <= MaxSize
      BY <1>0
  <2>4. waiters \in Seq(Task) /\ ServePendingWaiters(created - 1, waiters, p)
      BY <1>7 DEF Shapes
  <2> HIDE DEF p
  <2>5. waiters' # <<>> => waiters # <<>> /\ created' = MaxSize
      BY <2>1, <2>2, <2>3, <2>4, ServeTakesFromQueue, ServeFillsPool
  <2> QED
      BY <1>7, <2>5 DEF QueueAtMax
<1>8. ASSUME NEW t \in Task, HandsOver(t) PROVE QueueAtMax'
  <2>1. pc[t] = "working" /\ pc[Head(waiters)] = "queued" /\ Head(waiters) \in Task
    <3>1. Len(waiters) \in Nat /\ Len(waiters) # 0
        BY <1>8, EmptySeq, LenProperties DEF Shapes, HandsOver
    <3>2. Head(waiters) = waiters[1] /\ 1 \in 1..Len(waiters)
        BY <3>1, <1>8, HeadTailProperties DEF Shapes, HandsOver
    <3> QED
        BY <1>8, <3>2, ElementOfSeq DEF Shapes, QueueInOrder, InOrder, HandsOver, GivesBack
  <2>2. \A u \in Task : pc[u] = "unopened" => pc'[u] = "unopened"
      BY <1>8, <2>1 DEF HandsOver, Shapes
  <2> QED
      BY <1>8, <1>b, <2>2 DEF HandsOver
<1>9. ASSUME NEW t \in Task, Release(t) PROVE QueueAtMax'
    BY <1>7, <1>8, <1>9 DEF Release, ReleasesClosed, GivesBack, ClosesOnRelease, KeepsIdle, QueueAtMax
<1>10. ASSUME NEW t \in Task, ServingFails(t) PROVE QueueAtMax'
    BY <1>7, <1>10 DEF ServingFails
<1>11. CASE Drain
    BY <1>11 DEF Drain, QueueAtMax
<1>12. ASSUME NEW c \in Task, GoesDown(c) PROVE QueueAtMax'
    BY <1>12, <1>b DEF GoesDown
<1>13. CASE UNCHANGED vars
    BY <1>13, <1>b DEF vars
<1> QED
    BY <1>1, <1>2, <1>3, <1>4, <1>5, <1>6, <1>9, <1>10, <1>11, <1>12, <1>13
       DEF Next, Acquire, OpenSettles

\* While anyone waits no connection rests, and as many as may be are lent or being opened.
THEOREM QueueStaysFull == Spec => []QueueMeansFull
<1>1. Init => QueueAtMax
    BY DEF Init, QueueAtMax
<1>2. PoolInv /\ QueueAtMax /\ [Next]_vars /\ PoolInv' => QueueAtMax'
    BY QueueAtMaxNext DEF PoolInv
<1>3. PoolInv /\ QueueAtMax => QueueMeansFull
  <2> SUFFICES ASSUME PoolInv, QueueAtMax, waiters # <<>> PROVE QueueMeansFull
      BY DEF QueueMeansFull
  <2>1. /\ Cardinality(busy) \in Nat /\ Cardinality(Opening) \in Nat /\ Len(idle) = 0
        /\ created = Len(idle) + Cardinality(busy) + Cardinality(Opening)
      BY FiniteSets, EmptySeq DEF PoolInv, Lending, QueueAtMax, CountExact
  <2> QED
      BY <2>1 DEF QueueAtMax, QueueMeansFull, Unopened
<1> QED
    BY <1>1, <1>2, <1>3, PoolInvAlways, PTL DEF Spec
-----------------------------------------------------------------------------
(***************************************************************************)
(* The pool implements ConnectionLoans.  busy is who has a loan, so the    *)
(* count bounds the loans; the stack of idle connections is what is open   *)
(* and not lent.                                                           *)
(***************************************************************************)
LEMMA LentIsBusy == PoolInv => Loans!Lent = busy
    BY DEF PoolInv, Lending, SoleBorrower, Loans!Lent

\* The instance counts as this module does.
LEMMA CountsAlike == \A S : Loans!Cardinality(S) = Cardinality(S)
    BY DEF Loans!Cardinality, Cardinality

\* A step that moves one task, those served from the queue apart, moves one caller.
LEMMA OneCallerMoves ==
    ASSUME NEW t \in Task, pc' \in [Task -> Stages], NEW stage,
           \A u \in Task \ {t} : \/ pc'[u] = pc[u]
                                 \/ pc[u] = "queued" /\ pc'[u] = "served",
           \/ pc'[t] \in {"opening", "queued"} /\ stage = "waiting"
           \/ pc'[t] = "working" /\ stage = "lent"
           \/ pc'[t] = "done" /\ stage = "returned"
           \/ pc'[t] \in {"refused", "unopened", "unserved"} /\ stage = "denied"
    PROVE  CallStage' = [CallStage EXCEPT ![t] = stage]
<1>1. CallStage'[t] = stage
    BY DEF CallStage, Stages
<1>2. \A u \in Task \ {t} : CallStage'[u] = CallStage[u]
    BY DEF CallStage
<1> QED
    BY <1>1, <1>2 DEF CallStage

\* What takeIdleConnection drops is not lent.
LEMMA DroppedUnlent ==
    ASSUME PoolInv, NEW i \in 0..Len(idle)
    PROVE  Dropped(i) \cap busy = {} /\ (i \in 1..Len(idle) => idle[i] \notin Dropped(i))
<1>1. Len(idle) \in Nat
    BY IdleTyped DEF PoolInv, Lending
<1>2. \A j \in (i + 1)..Len(idle) : j \in 1..Len(idle) /\ j # i
    BY <1>1
<1> QED
    BY <1>2 DEF PoolInv, Lending, SoleBorrower, Dropped

LEMMA BorrowsResting ==
    ASSUME PoolInv, NEW t \in Task, Reuses(t)
    PROVE  Loans!BorrowResting(t)
<1> USE DEF PoolInv, Lending
<1>1. PICK i \in TakeIdle \ {0} :
        /\ held' = [held EXCEPT ![t] = idle[i]]
        /\ alive' = alive \ Dropped(i)
    BY DEF Reuses
<1>2. /\ pc[t] = "new" /\ ~draining /\ draining' = draining
      /\ pc' = [pc EXCEPT ![t] = "working"]
    BY DEF Reuses
<1>3. i \in 1..Len(idle) /\ idle[i] \in alive /\ Len(idle) \in Nat
    BY IdleTyped DEF TakeIdle, Usable
<1>4. Cardinality(busy) < MaxSize
    BY <1>3, FiniteSets, PoolAssumption DEF CountExact
<1>5. /\ idle[i] \notin busy /\ idle[i] \notin Dropped(i)
      /\ Dropped(i) \cap busy = {}
    BY <1>3, DroppedUnlent DEF SoleBorrower
<1>6. CallStage[t] = "outside" /\ CallStage' = [CallStage EXCEPT ![t] = "lent"]
  <2>1. pc' \in [Task -> Stages] /\ pc'[t] = "working"
        /\ \A u \in Task \ {t} : pc'[u] = pc[u]
      BY <1>2 DEF Shapes, Stages
  <2> QED
      BY <1>2, <2>1, OneCallerMoves DEF CallStage
<1>7. idle[i] \in alive \ Loans!Lent /\ idle[i] \notin Dropped(i) \cap alive
    BY <1>3, <1>5, LentIsBusy
<1>8. Loans!ClosesUnlent(Dropped(i) \cap alive)
    BY <1>1, <1>5, LentIsBusy DEF Loans!ClosesUnlent
<1>9. Dropped(i) \cap alive \in SUBSET alive
    OBVIOUS
<1> QED
    BY <1>1, <1>2, <1>4, <1>6, <1>7, <1>8, <1>9, LentIsBusy, CountsAlike
    DEF Loans!BorrowResting

LEMMA Asks ==
    ASSUME PoolInv, NEW t \in Task, BeginsOpen(t) \/ Queues(t)
    PROVE  Loans!Ask(t)
<1>1. /\ pc[t] = "new" /\ ~draining /\ draining' = draining /\ held' = held
      /\ alive' = alive \ Dropped(0)
      /\ \E stage \in {"opening", "queued"} : pc' = [pc EXCEPT ![t] = stage]
    BY DEF BeginsOpen, Queues, FindsNoneIdle
<1>2. CallStage[t] = "outside" /\ CallStage' = [CallStage EXCEPT ![t] = "waiting"]
  <2>1. pc' \in [Task -> Stages] /\ pc'[t] \in {"opening", "queued"}
        /\ \A u \in Task \ {t} : pc'[u] = pc[u]
      BY <1>1 DEF PoolInv, Lending, Shapes, Stages
  <2> QED
      BY <1>1, <2>1, OneCallerMoves DEF CallStage
<1>3. Dropped(0) \cap busy = {}
    BY DroppedUnlent, IdleTyped DEF PoolInv, Lending
<1>4. Loans!ClosesUnlent(Dropped(0) \cap alive) /\ Dropped(0) \cap alive \in SUBSET alive
    BY <1>1, <1>3, LentIsBusy DEF Loans!ClosesUnlent
<1> QED
    BY <1>1, <1>2, <1>4 DEF Loans!Ask

LEMMA BorrowsNew ==
    ASSUME PoolInv, NEW t \in Task, Opens(t)
    PROVE  Loans!BorrowNew(t)
<1> USE DEF PoolInv, Lending
<1>1. /\ pc[t] \in {"opening", "served"} /\ alive' = alive \cup {t}
      /\ held' = [held EXCEPT ![t] = t] /\ draining' = draining
      /\ pc' = [pc EXCEPT ![t] = "working"]
    BY DEF Opens
<1>2. CallStage[t] = "waiting" /\ CallStage' = [CallStage EXCEPT ![t] = "lent"]
  <2>1. pc' \in [Task -> Stages] /\ pc'[t] = "working"
        /\ \A u \in Task \ {t} : pc'[u] = pc[u]
      BY <1>1 DEF Shapes, Stages
  <2> QED
      BY <1>1, <2>1, OneCallerMoves DEF CallStage
<1>3. Cardinality(busy) < MaxSize
  <2>1. t \in Opening /\ IsFiniteSet(Opening \ {t})
      BY <1>1, FiniteSets, FS_Subset DEF Opening
  <2>2. Cardinality(Opening \ {t}) = Cardinality(Opening) - 1
        /\ Cardinality(Opening \ {t}) \in Nat
      BY <2>1, FiniteSets, OneLess, FS_CardinalityType
  <2> QED
      BY <2>2, FiniteSets, PoolAssumption DEF CountExact
<1>4. t \notin alive \cup busy
    BY <1>1 DEF OpenedOnce
<1> QED
    BY <1>1, <1>2, <1>3, <1>4, LentIsBusy, CountsAlike DEF Loans!BorrowNew

\* A task served from the queue when another ends has not been answered yet.
LEMMA ServesOthers ==
    ASSUME PoolInv, NEW t \in Task, NEW stage \in {"unserved", "done"},
           pc[t] \in {"served", "working"},
           ServePendingWaiters(created - 1, waiters, [pc EXCEPT ![t] = stage])
    PROVE  /\ pc' \in [Task -> Stages] /\ pc'[t] = stage
           /\ \A u \in Task \ {t} : pc'[u] = pc[u] \/ (pc[u] = "queued" /\ pc'[u] = "served")
<1> USE DEF PoolInv, Lending
<1> DEFINE p == [pc EXCEPT ![t] = stage]
<1>1. p \in [Task -> Stages] /\ \A u \in Task : p[u] = IF u = t THEN stage ELSE pc[u]
    BY DEF Shapes, Stages
<1>2. InOrder(waiters, p)
    BY <1>1, ElementOfSeq DEF QueueInOrder, InOrder, Shapes
<1>3. created - 1 \in Int /\ created - 1 <= MaxSize
    BY PoolAssumption
<1>4. waiters \in Seq(Task) /\ ServePendingWaiters(created - 1, waiters, p)
    BY DEF Shapes
<1> HIDE DEF p
<1>5. /\ pc' \in [Task -> Stages]
      /\ \A u \in Task : pc'[u] = p[u] \/ (p[u] = "queued" /\ pc'[u] = "served")
    BY <1>1, <1>2, <1>3, <1>4, ServeTakesFromQueue
<1> QED
    BY <1>1, <1>5

LEMMA Denies ==
    ASSUME PoolInv, NEW t \in Task, Refused(t) \/ OpenFails(t) \/ ServingFails(t)
    PROVE  Loans!Deny(t)
<1> USE DEF PoolInv, Lending
<1>1. /\ pc[t] \in {"opening", "served"} \/ (pc[t] = "new" /\ draining)
      /\ held' = held /\ alive' = alive /\ draining' = draining
    BY DEF Refused, OpenFails, ServingFails
<1>2. /\ pc' \in [Task -> Stages] /\ pc'[t] \in {"refused", "unopened", "unserved"}
      /\ \A u \in Task \ {t} : pc'[u] = pc[u] \/ (pc[u] = "queued" /\ pc'[u] = "served")
  <2>1. CASE ServingFails(t)
      BY <2>1, ServesOthers DEF ServingFails
  <2>2. CASE Refused(t) \/ OpenFails(t)
      BY <2>2 DEF Refused, OpenFails, Shapes, Stages
  <2> QED
      BY <2>1, <2>2
<1>3. CallStage' = [CallStage EXCEPT ![t] = "denied"]
    BY <1>2, OneCallerMoves
<1>4. CallStage[t] = "waiting" \/ (CallStage[t] = "outside" /\ draining)
    BY <1>1 DEF CallStage
<1> QED
    BY <1>1, <1>3, <1>4 DEF Loans!Deny

LEMMA Returned ==
    ASSUME PoolInv, NEW t \in Task, ReleasesClosed(t) \/ ClosesOnRelease(t) \/ KeepsIdle(t)
    PROVE  Loans!Return(t)
<1> USE DEF PoolInv, Lending
<1>1. /\ pc[t] = "working" /\ held' = [held EXCEPT ![t] = NoConn] /\ draining' = draining
      /\ alive' \in {alive, alive \ {held[t]}}
      /\ draining => held[t] \notin alive'
    BY DEF ReleasesClosed, ClosesOnRelease, KeepsIdle, GivesBack
<1>2. /\ pc' \in [Task -> Stages] /\ pc'[t] = "done"
      /\ \A u \in Task \ {t} : pc'[u] = pc[u] \/ (pc[u] = "queued" /\ pc'[u] = "served")
  <2>1. CASE ReleasesClosed(t)
      BY <1>1, <2>1, ServesOthers DEF ReleasesClosed
  <2>2. CASE ClosesOnRelease(t) \/ KeepsIdle(t)
      BY <2>2 DEF ClosesOnRelease, KeepsIdle, Shapes, Stages
  <2> QED
      BY <2>1, <2>2
<1>3. CallStage' = [CallStage EXCEPT ![t] = "returned"]
    BY <1>2, OneCallerMoves
<1>4. CallStage[t] = "lent"
    BY <1>1 DEF CallStage
<1> QED
    BY <1>1, <1>3, <1>4 DEF Loans!Return

LEMMA PassesOn ==
    ASSUME PoolInv, NEW t \in Task, HandsOver(t)
    PROVE  Head(waiters) \in Task /\ Loans!PassOn(t, Head(waiters))
<1> USE DEF PoolInv, Lending
<1> DEFINE next == Head(waiters)
<1>1. /\ pc[t] = "working" /\ held[t] \in alive /\ waiters # <<>>
      /\ held' = [held EXCEPT ![t] = NoConn, ![next] = held[t]]
      /\ pc' = [pc EXCEPT ![t] = "done", ![next] = "working"]
      /\ alive' = alive /\ draining' = draining
    BY DEF HandsOver, GivesBack
<1>2. next \in Task /\ pc[next] = "queued"
  <2>1. Len(waiters) \in Nat /\ Len(waiters) # 0
      BY <1>1, EmptySeq, LenProperties DEF Shapes
  <2>2. next = waiters[1] /\ 1 \in 1..Len(waiters)
      BY <1>1, <2>1, HeadTailProperties DEF Shapes
  <2> QED
      BY <2>2, ElementOfSeq DEF Shapes, QueueInOrder, InOrder
<1> HIDE DEF next
<1>3. ~draining
    BY <1>1 DEF Kept
<1>4. CallStage[t] = "lent" /\ CallStage[next] = "waiting"
    BY <1>1, <1>2 DEF CallStage
<1>5. CallStage' = [CallStage EXCEPT ![t] = "returned", ![next] = "lent"]
  <2>1. \A u \in Task : pc'[u] = IF u = next THEN "working" ELSE IF u = t THEN "done" ELSE pc[u]
      BY <1>1, <1>2 DEF Shapes
  <2>2. \A u \in Task : CallStage'[u] = IF u = next THEN "lent"
                                        ELSE IF u = t THEN "returned" ELSE CallStage[u]
      BY <2>1 DEF CallStage
  <2> QED
      BY <1>1, <1>2, <2>2 DEF CallStage
<1>6. Loans!PassOn(t, next)
    BY <1>1, <1>3, <1>4, <1>5 DEF Loans!PassOn
<1> QED
    BY <1>2, <1>6 DEF next

LEMMA Closes ==
    ASSUME PoolInv, Drain
    PROVE  Loans!Close({t \in Task : pc[t] = "queued"})
<1> USE DEF PoolInv, Lending
<1>1. /\ ~draining /\ draining' = TRUE /\ held' = held
      /\ alive' = alive \ Dropped(0)
      /\ pc' = [t \in Task |-> IF pc[t] = "queued" THEN "refused" ELSE pc[t]]
    BY DEF Drain
<1>2. \A t \in Task : pc[t] = "queued" => CallStage[t] = "waiting"
    BY DEF CallStage
<1>3. CallStage' = [t \in Task |-> IF t \in {u \in Task : pc[u] = "queued"} THEN "denied"
                                   ELSE CallStage[t]]
  <2>1. \A t \in Task : CallStage'[t] = IF pc[t] = "queued" THEN "denied" ELSE CallStage[t]
      BY <1>1 DEF CallStage
  <2> QED
      BY <2>1 DEF CallStage
<1>4. alive' = alive \cap Loans!Lent
  <2>1. Dropped(0) = IdleSet /\ Dropped(0) \cap busy = {}
      BY DroppedUnlent, IdleTyped DEF Dropped, IdleSet
  <2> QED
      BY <1>1, <2>1, LentIsBusy DEF Kept
<1> QED
    BY <1>1, <1>2, <1>3, <1>4 DEF Loans!Close

\* withConnection lends at most maxSize connections, each to one call, answers a call once,
\* and after drain lends only what was being opened and closes what comes back.
THEOREM PoolLends == Spec => ImplementsLoans
<1>1. Init => Loans!Init
    BY DEF Init, Loans!Init, CallStage
<1>2. PoolInv /\ [Next]_vars => [Loans!Next]_(Loans!loanvars)
  <2> SUFFICES ASSUME PoolInv, [Next]_vars
               PROVE  Loans!Next \/ UNCHANGED <<CallStage, held, alive, draining>>
      BY DEF Loans!loanvars
  <2>1. ASSUME NEW t \in Task, Acquire(t) PROVE Loans!Next
      BY <2>1, BorrowsResting, Asks, Denies DEF Acquire, Loans!Next
  <2>2. ASSUME NEW t \in Task, OpenSettles(t) PROVE Loans!Next
      BY <2>2, BorrowsNew, Denies DEF OpenSettles, Loans!Next
  <2>3. ASSUME NEW t \in Task, Release(t) PROVE Loans!Next
      BY <2>3, Returned, PassesOn DEF Release, Loans!Next
  <2>4. CASE Drain
    <3>1. {t \in Task : pc[t] = "queued"} \in SUBSET Task
        OBVIOUS
    <3> QED
        BY <2>4, <3>1, Closes DEF Loans!Next
  <2>5. ASSUME NEW c \in Task, GoesDown(c) PROVE Loans!Next
    <3>1. Loans!GoDown(c)
        BY <2>5 DEF GoesDown, Loans!GoDown, CallStage
    <3> QED
        BY <3>1 DEF Loans!Next
  <2>6. CASE UNCHANGED vars
      BY <2>6 DEF vars, CallStage
  <2> QED
      BY <2>1, <2>2, <2>3, <2>4, <2>5, <2>6 DEF Next
<1> QED
    BY <1>1, <1>2, PoolInvAlways, PTL DEF Spec, ImplementsLoans, Loans!Spec

----------------------------------------------------------------------------
(***************************************************************************)
(* Transactions.                                                           *)
(***************************************************************************)
Running(t) == tx[t] \in {"active", "committing", "rollingBack", "finished"}
Unsettled(t) == tx[t] \in {"active", "committing", "rollingBack"}

TxTypeOK ==
    /\ tx \in [Transactional -> {"none", "active", "committing", "rollingBack", "finished", "ended"}]
    /\ own \in [Transactional -> BOOLEAN]
    /\ outcome \in [Transactional -> {"none", "resolved", "rejected"}]
    /\ statement \in [Transactional -> Task \cup {NoConn}]
    /\ manual \subseteq Task
    /\ pending \in [Task -> SUBSET Transactional]

\* A transaction that runs has a connection, with autocommit off.
RunningHolds ==
    \A t \in Transactional : Running(t) => pc[t] = "working" /\ held[t] \in manual

\* A statement is in flight on the connection of a transaction whose work goes on.
StatementIsOwn ==
    \A t \in Transactional : statement[t] # NoConn => statement[t] = held[t] /\ tx[t] = "active"

\* Until a transaction settles nothing of it is committed, and something of it is rolled back
\* only with its connection.
UnsettledIsOpen ==
    \A t \in Transactional :
        /\ tx[t] = "none" => t \notin undone
        /\ tx[t] = "none" \/ Unsettled(t) => t \notin kept
        /\ Unsettled(t) /\ t \in undone => held[t] \notin alive
        /\ outcome[t] # "none" => tx[t] = "ended"
        /\ tx[t] = "finished" => own[t]

TxInv == /\ TxTypeOK /\ RunningHolds /\ StatementIsOwn /\ UnsettledIsOpen
         /\ SessionIsBorrowers /\ OutcomeIsTrue

USE PoolAssumption, TransactionAssumption

-----------------------------------------------------------------------------
\* Every step is a step of the pool, or does not concern it.
LEMMA PoolStepsOnly == PoolInv /\ [TxNext]_txvars => [Next]_vars
<1> SUFFICES ASSUME PoolInv, [TxNext]_txvars PROVE [Next]_vars
    OBVIOUS
<1>0. alive \subseteq Task
    BY DEF PoolInv, Lending, Shapes
<1>1. CASE PoolStep
    BY <1>1 DEF PoolStep, Next
<1>2. ASSUME NEW t \in Task, Returns(t) PROVE [Next]_vars
    BY <1>2 DEF Returns, Next
<1>3. ASSUME NEW t \in Transactional, TransactionStep(t) PROVE [Next]_vars
  <2>1. ASSUME NEW c, GoesDown(c) PROVE [Next]_vars
      BY <1>0, <2>1 DEF Next, GoesDown
  <2>2. CASE UNCHANGED vars
      BY <2>2
  <2> QED
      BY <1>3, <2>1, <2>2 DEF TransactionStep, Begins, Sends, StatementSettles, Executes,
         StatementFails, TimesOut, WorkEnds, WorkReturns, WorkThrows, CommitsItself, RollsBackItself,
         Finishes, RestEnds, EndSettles, CommitSucceeds, CommitFails, CommitLost, RollbackSettles
<1>4. CASE UNCHANGED txvars
    BY <1>4 DEF txvars
<1> QED
    BY <1>1, <1>2, <1>3, <1>4 DEF TxNext

LEMMA PoolInvHere == TxSpec => []PoolInv
<1>1. TxInit => PoolInv
    BY PoolInvInit DEF TxInit
<1>2. PoolInv /\ [TxNext]_txvars => PoolInv'
    BY PoolStepsOnly, PoolInvNext
<1> QED
    BY <1>1, <1>2, PTL DEF TxSpec

\* Whatever transactions do, the pool sees calls that borrow and give back.
THEOREM TransactionsUsePool == TxSpec => Spec
<1>1. TxInit => Init
    BY DEF TxInit
<1> QED
    BY <1>1, PoolStepsOnly, PoolInvHere, PTL DEF TxSpec, Spec

LEMMA TxBegins == TxInit => TxInv
<1> SUFFICES ASSUME TxInit PROVE TxInv
    OBVIOUS
<1> USE DEF TxInit
<1>1. TxTypeOK
    BY DEF TxTypeOK
<1>2. RunningHolds /\ StatementIsOwn /\ UnsettledIsOpen /\ SessionIsBorrowers /\ OutcomeIsTrue
    BY DEF RunningHolds, Running, StatementIsOwn, UnsettledIsOpen, Unsettled, SessionIsBorrowers,
           OutcomeIsTrue
<1> QED
    BY <1>1, <1>2 DEF TxInv
-----------------------------------------------------------------------------
\* A borrower's connection is lent, so no open under way is for it.
LEMMA BorrowedIsOpened ==
    ASSUME Lending, NEW t \in Task, pc[t] = "working"
    PROVE  /\ held[t] \in busy /\ held[t] \in Task /\ held[t] # NoConn
           /\ pc[held[t]] \in {"working", "done"}
<1>1. held[t] # NoConn /\ held[t] \in Task /\ held[t] \in busy
    BY DEF Lending, SoleBorrower, Shapes
<1> QED
    BY <1>1 DEF Lending, OpenedOnce

\* Serving the queue takes nothing from a task that works.
LEMMA ServingSparesWork ==
    ASSUME NEW c \in Int, c <= MaxSize, NEW p \in [Task -> Stages], InOrder(waiters, p),
           waiters \in Seq(Task), ServePendingWaiters(c, waiters, p), NEW t \in Task, p[t] = "working"
    PROVE  pc'[t] = "working"
BY ServeTakesFromQueue

\* A step of the pool that is not its own release leaves a borrower what it has, and revives
\* no connection.
LEMMA BorrowersKeep ==
    ASSUME PoolInv, NEW t \in Task, pc[t] = "working",
           \/ \E u \in Task : Acquire(u) \/ OpenSettles(u)
           \/ Drain
           \/ \E c \in Task : GoesDown(c)
           \/ \E u \in Task \ {t} : Release(u)
    PROVE  /\ pc'[t] = "working" /\ held'[t] = held[t]
           /\ held[t] \notin alive => held[t] \notin alive'
<1>t. /\ pc \in [Task -> Stages] /\ held \in [Task -> Task \cup {NoConn}] /\ waiters \in Seq(Task)
      /\ created \in Int /\ created <= MaxSize
    BY DEF PoolInv, Lending, Shapes
<1>b. held[t] \in busy /\ held[t] # NoConn /\ pc[held[t]] \in {"working", "done"}
    BY BorrowedIsOpened DEF PoolInv
<1>1. ASSUME NEW u \in Task, Acquire(u) PROVE /\ pc'[t] = "working" /\ held'[t] = held[t]
                                             /\ alive' \subseteq alive
  <2>1. pc[u] = "new"
      BY <1>1 DEF Acquire, Refused, Reuses, BeginsOpen, Queues, FindsNoneIdle
  <2> QED
      BY <1>t, <1>1, <2>1 DEF Acquire, Refused, Reuses, BeginsOpen, Queues, FindsNoneIdle
<1>2. ASSUME NEW u \in Task, Opens(u) \/ OpenFails(u)
      PROVE  /\ pc'[t] = "working" /\ held'[t] = held[t]
             /\ held[t] \notin alive => held[t] \notin alive'
    BY <1>t, <1>b, <1>2 DEF Opens, OpenFails
<1>3. ASSUME NEW u \in Task, ServingFails(u)
      PROVE  pc'[t] = "working" /\ held'[t] = held[t] /\ alive' = alive
  <2> DEFINE p == [pc EXCEPT ![u] = "unserved"]
  <2>1. pc[u] = "served" /\ u # t /\ UNCHANGED <<held, alive>>
        /\ ServePendingWaiters(created - 1, waiters, p)
      BY <1>3 DEF ServingFails
  <2>2. p \in [Task -> Stages] /\ p[t] = "working"
      BY <1>t, <2>1 DEF Stages
  <2>3. InOrder(waiters, p)
    <3>1. \A i \in 1..Len(waiters) : waiters[i] \in Task /\ pc[waiters[i]] = "queued"
        BY <1>t, ElementOfSeq DEF PoolInv, Lending, QueueInOrder, InOrder
    <3> QED
        BY <1>t, <2>1, <3>1 DEF PoolInv, Lending, QueueInOrder, InOrder
  <2> HIDE DEF p
  <2> QED
      BY <1>t, <2>1, <2>2, <2>3, ServingSparesWork
<1>4. CASE Drain
    BY <1>t, <1>4 DEF Drain
<1>5. ASSUME NEW c \in Task, GoesDown(c) PROVE pc' = pc /\ held' = held /\ alive' \subseteq alive
    BY <1>5 DEF GoesDown
<1>6. ASSUME NEW u \in Task \ {t}, ReleasesClosed(u)
      PROVE  pc'[t] = "working" /\ held'[t] = held[t] /\ alive' = alive
  <2> DEFINE p == [pc EXCEPT ![u] = "done"]
  <2>1. /\ pc[u] = "working" /\ held' = [held EXCEPT ![u] = NoConn] /\ alive' = alive
        /\ ServePendingWaiters(created - 1, waiters, p)
      BY <1>6 DEF ReleasesClosed, GivesBack
  <2>2. p \in [Task -> Stages] /\ p[t] = "working"
      BY <1>t DEF Stages
  <2>3. InOrder(waiters, p)
    <3>1. \A i \in 1..Len(waiters) : waiters[i] \in Task /\ pc[waiters[i]] = "queued"
        BY <1>t, ElementOfSeq DEF PoolInv, Lending, QueueInOrder, InOrder
    <3> QED
        BY <1>t, <2>1, <3>1 DEF PoolInv, Lending, QueueInOrder, InOrder
  <2> HIDE DEF p
  <2>4. created - 1 \in Int /\ created - 1 <= MaxSize
      BY <1>t, PoolAssumption
  <2>5. pc'[t] = "working"
      BY <1>t, <2>1, <2>2, <2>3, <2>4, ServingSparesWork
  <2> QED
      BY <1>t, <2>1, <2>5
<1>7. ASSUME NEW u \in Task \ {t}, HandsOver(u)
      PROVE  pc'[t] = "working" /\ held'[t] = held[t] /\ alive' = alive
  <2>1. waiters # <<>> /\ Head(waiters) \in Task /\ pc[Head(waiters)] = "queued"
    <3>1. waiters # <<>>
        BY <1>7 DEF HandsOver
    <3>2. Head(waiters) = waiters[1] /\ 1 \in 1..Len(waiters)
        BY <1>t, <3>1, HeadTailProperties, EmptySeq
    <3> QED
        BY <1>t, <3>1, <3>2, ElementOfSeq DEF PoolInv, Lending, QueueInOrder, InOrder
  <2> QED
      BY <1>t, <1>7, <2>1 DEF HandsOver
<1>8. ASSUME NEW u \in Task \ {t}, ClosesOnRelease(u) \/ KeepsIdle(u)
      PROVE  pc'[t] = "working" /\ held'[t] = held[t] /\ alive' \subseteq alive
    BY <1>t, <1>8 DEF ClosesOnRelease, KeepsIdle
<1> QED
    BY <1>1, <1>2, <1>3, <1>4, <1>5, <1>6, <1>7, <1>8 DEF OpenSettles, Release, Drain
-----------------------------------------------------------------------------
\* A step of the pool, with or without the answer to a statement.  Sessions whose connection
\* ends roll back; a running transaction keeps its connection.
LEMMA PoolMoves ==
    ASSUME PoolInv, TxInv, SessionsEnd, UNCHANGED <<callvars, doubtful>> \/
           (SessionsEnd /\ UNCHANGED <<tx, own, outcome, manual, doubtful>>
            /\ \E u \in Transactional : Answered(u)),
           \A t \in Transactional : Running(t) =>
              /\ pc'[t] = "working" /\ held'[t] = held[t]
              /\ held[t] \notin alive => held[t] \notin alive'
    PROVE  TxInv'
<1> USE DEF TxInv
<1>1. UNCHANGED <<tx, own, outcome, manual, doubtful>>
    BY DEF callvars
<1>2. \A t \in Transactional : statement'[t] = statement[t] \/ statement'[t] = NoConn
    BY DEF callvars, Answered, TxTypeOK
<1>3. statement' \in [Transactional -> Task \cup {NoConn}]
    BY DEF callvars, Answered, TxTypeOK
<1>4. /\ kept' = kept
      /\ \A c \in Task : pending'[c] = IF c \in alive \ alive' THEN {} ELSE pending[c]
      /\ pending' \in [Task -> SUBSET Transactional]
      /\ undone' = undone \cup UNION {pending[c] : c \in alive \ alive'}
    BY DEF SessionsEnd, TxTypeOK
<1>5. alive \subseteq Task
    BY DEF PoolInv, Lending, Shapes
<1>6. \A t \in undone' : t \in undone \/ (Unsettled(t) /\ held[t] \in alive \ alive')
    BY <1>4, <1>5 DEF SessionIsBorrowers, Unsettled
<1>7. TxTypeOK'
    BY <1>1, <1>3, <1>4 DEF TxTypeOK
<1>8. RunningHolds'
    BY <1>1 DEF RunningHolds, Running
<1>9. StatementIsOwn'
    BY <1>1, <1>2 DEF StatementIsOwn, Running
<1>10. \A t \in Transactional : Unsettled(t) => Running(t)
    BY DEF Unsettled, Running
<1>11. UnsettledIsOpen'
  <2> SUFFICES ASSUME NEW t \in Transactional
               PROVE  /\ tx[t] = "none" => t \notin undone'
                      /\ Unsettled(t) /\ t \in undone' => held'[t] \notin alive'
      BY <1>1, <1>4 DEF UnsettledIsOpen, Unsettled
  <2> QED
      BY <1>6, <1>10 DEF UnsettledIsOpen, Unsettled
<1>12. SessionIsBorrowers'
  <2>1. ASSUME NEW c \in Task, NEW t \in pending'[c]
        PROVE  held'[t] = c /\ tx[t] \in {"active", "committing", "rollingBack"}
    <3>1. t \in pending[c] /\ t \in Transactional
        BY <1>4 DEF TxTypeOK
    <3>2. held[t] = c /\ Unsettled(t)
        BY <3>1 DEF SessionIsBorrowers, Unsettled
    <3> QED
        BY <1>10, <3>1, <3>2 DEF Unsettled
  <2>2. ASSUME NEW c \in manual
        PROVE  \E t \in Transactional : held'[t] = c /\ tx[t] \notin {"none", "ended"}
    <3>1. PICK t \in Transactional : held[t] = c /\ tx[t] \notin {"none", "ended"}
        BY DEF SessionIsBorrowers
    <3> QED
        BY <3>1 DEF TxTypeOK, Running
  <2> QED
      BY <1>1, <2>1, <2>2 DEF SessionIsBorrowers
<1>13. OutcomeIsTrue'
    BY <1>1, <1>4, <1>6 DEF OutcomeIsTrue, UnsettledIsOpen, Unsettled
<1> QED
    BY <1>7, <1>8, <1>9, <1>11, <1>12, <1>13

\* No two transactions that run share a connection.
LEMMA OwnConnection ==
    ASSUME PoolInv, TxInv, NEW t \in Transactional, Running(t)
    PROVE  /\ held[t] \in Task /\ held[t] # NoConn
           /\ \A u \in Transactional : held[u] = held[t] => u = t
           /\ pending[held[t]] \subseteq {t}
<1>1. t \in Task /\ pc[t] = "working"
    BY DEF TxInv, RunningHolds
<1>2. held[t] \in Task /\ held[t] # NoConn
    BY <1>1, BorrowedIsOpened DEF PoolInv
<1>3. \A u \in Transactional : held[u] = held[t] => u = t
    BY <1>1, <1>2 DEF PoolInv, Lending, SoleBorrower
<1> QED
    BY <1>2, <1>3 DEF TxInv, SessionIsBorrowers, TxTypeOK

\* A commit or rollback settles: the session is left without work, all of it committed or all
\* of it rolled back, and the answer says which.
LEMMA SettlingKeeps ==
    ASSUME PoolInv, TxInv, NEW t \in Transactional, NEW result \in {"resolved", "rejected"},
           tx[t] \in {"committing", "rollingBack"}, Settles(t, result),
           UNCHANGED <<pc, held, own, statement>>, alive' \subseteq alive,
           pending' = [pending EXCEPT ![held[t]] = {}], doubtful \subseteq doubtful',
           \/ /\ kept' = kept \cup pending[held[t]] /\ undone' = undone
              /\ result = "resolved" => t \notin undone
              /\ result = "rejected" => t \in doubtful'
           \/ /\ undone' = undone \cup pending[held[t]] /\ kept' = kept
              /\ result = "rejected"
    PROVE  TxInv'
<1>1. Running(t) /\ Unsettled(t)
    BY DEF Running, Unsettled
<1>2. /\ held[t] \in Task /\ held[t] # NoConn
      /\ \A u \in Transactional : held[u] = held[t] => u = t
      /\ pending[held[t]] \subseteq {t}
    BY <1>1, OwnConnection
<1> USE DEF TxInv
<1>3. /\ tx' = [tx EXCEPT ![t] = IF own[t] THEN "finished" ELSE "ended"]
      /\ outcome' = IF own[t] THEN outcome ELSE [outcome EXCEPT ![t] = result]
      /\ manual' = IF own[t] THEN manual ELSE manual \ {held[t]}
    BY DEF Settles, Goes, Ends
<1>4. TxTypeOK'
  <2>1. tx' \in [Transactional -> {"none", "active", "committing", "rollingBack", "finished", "ended"}]
      BY <1>3 DEF TxTypeOK
  <2>2. outcome' \in [Transactional -> {"none", "resolved", "rejected"}]
      BY <1>3 DEF TxTypeOK
  <2>3. manual' \subseteq Task
      BY <1>3 DEF TxTypeOK
  <2>4. pending' \in [Task -> SUBSET Transactional]
      BY DEF TxTypeOK
  <2> QED
      BY <2>1, <2>2, <2>3, <2>4 DEF TxTypeOK
<1>5. /\ tx'[t] \in {"finished", "ended"} /\ (tx'[t] = "finished" => own[t])
      /\ \A u \in Transactional \ {t} :
            tx'[u] = tx[u] /\ outcome'[u] = outcome[u] /\ (u \in kept' => u \in kept)
            /\ (u \in undone' => u \in undone)
    BY <1>2, <1>3 DEF TxTypeOK
<1>6. statement[t] = NoConn
    BY DEF StatementIsOwn
<1>7. RunningHolds'
    BY <1>2, <1>3, <1>5 DEF RunningHolds, Running, TxTypeOK
<1>8. StatementIsOwn'
    BY <1>5, <1>6 DEF StatementIsOwn
<1>9. outcome[t] = "none"
    BY DEF UnsettledIsOpen, TxTypeOK
<1>10. UnsettledIsOpen'
    BY <1>3, <1>5, <1>9 DEF UnsettledIsOpen, Unsettled, TxTypeOK
<1>11. SessionIsBorrowers'
  <2>1. ASSUME NEW c \in Task, NEW u \in pending'[c]
        PROVE  held[u] = c /\ tx'[u] \in {"active", "committing", "rollingBack"}
    <3>1. c # held[t] /\ u \in pending[c] /\ u \in Transactional
        BY <1>2 DEF TxTypeOK
    <3>2. held[u] = c /\ u # t /\ tx[u] \in {"active", "committing", "rollingBack"}
        BY <3>1 DEF SessionIsBorrowers
    <3> QED
        BY <1>5, <3>1, <3>2
  <2>2. ASSUME NEW c \in manual'
        PROVE  \E u \in Transactional : held[u] = c /\ tx'[u] \notin {"none", "ended"}
    <3>1. PICK u \in Transactional : held[u] = c /\ tx[u] \notin {"none", "ended"}
        BY <1>3 DEF SessionIsBorrowers
    <3>2. u # t \/ own[t]
        BY <1>3, <3>1
    <3> QED
        BY <1>3, <1>5, <3>1, <3>2 DEF TxTypeOK
  <2> QED
      BY <2>1, <2>2 DEF SessionIsBorrowers
<1>12. OutcomeIsTrue'
  <2> SUFFICES ASSUME NEW u \in Transactional, ~own[u]
               PROVE  /\ outcome'[u] = "resolved" => u \notin undone'
                      /\ outcome'[u] = "rejected" => u \notin kept' \/ u \in doubtful'
      BY DEF OutcomeIsTrue
  <2>1. CASE u # t
      BY <1>5, <2>1 DEF OutcomeIsTrue
  <2>2. CASE u = t
    <3>1. outcome'[t] = result /\ t \notin kept
        BY <1>3, <2>2, <1>1 DEF TxTypeOK, UnsettledIsOpen
    <3> QED
        BY <2>2, <3>1
  <2> QED
      BY <2>1, <2>2
<1> QED
    BY <1>4, <1>7, <1>8, <1>10, <1>11, <1>12
-----------------------------------------------------------------------------
LEMMA BeginsKeeps ==
    ASSUME PoolInv, TxInv, NEW t \in Transactional, Begins(t)
    PROVE  TxInv'
<1> USE DEF TxInv
<1>1. /\ pc[t] = "working" /\ tx[t] = "none" /\ tx' = [tx EXCEPT ![t] = "active"]
      /\ manual' = manual \cup {held[t]}
      /\ UNCHANGED <<pc, held, alive, own, outcome, statement, pending, kept, undone, doubtful>>
    BY DEF Begins, Goes, vars, database
<1>2. held[t] \in Task /\ t \in Task
    BY <1>1, TransactionAssumption, BorrowedIsOpened DEF PoolInv
<1>3. TxTypeOK'
  <2>1. tx' \in [Transactional -> {"none", "active", "committing", "rollingBack", "finished", "ended"}]
      BY <1>1 DEF TxTypeOK
  <2>2. manual' \subseteq Task
      BY <1>1, <1>2 DEF TxTypeOK
  <2> QED
      BY <1>1, <2>1, <2>2 DEF TxTypeOK
<1>4. tx'[t] = "active" /\ \A u \in Transactional \ {t} : tx'[u] = tx[u]
    BY <1>1 DEF TxTypeOK
<1>5. RunningHolds'
    BY <1>1, <1>4 DEF RunningHolds, Running
<1>6. StatementIsOwn'
    BY <1>1, <1>4 DEF StatementIsOwn
<1>7. UnsettledIsOpen'
    BY <1>1, <1>4 DEF UnsettledIsOpen, Unsettled
<1>8. SessionIsBorrowers'
    BY <1>1, <1>4 DEF SessionIsBorrowers, TxTypeOK
<1>9. OutcomeIsTrue'
    BY <1>1 DEF OutcomeIsTrue
<1> QED
    BY <1>3, <1>5, <1>6, <1>7, <1>8, <1>9

LEMMA SendsKeeps ==
    ASSUME PoolInv, TxInv, NEW t \in Transactional, Sends(t)
    PROVE  TxInv'
<1> USE DEF TxInv
<1>1. /\ tx[t] = "active" /\ statement' = [statement EXCEPT ![t] = held[t]]
      /\ UNCHANGED <<pc, held, alive, tx, own, outcome, manual, pending, kept, undone, doubtful>>
    BY DEF Sends, vars, database
<1>2. held[t] \in Task
    BY <1>1, OwnConnection DEF Running
<1>3. TxTypeOK'
    BY <1>1, <1>2 DEF TxTypeOK
<1>4. StatementIsOwn'
    BY <1>1 DEF StatementIsOwn, TxTypeOK
<1>5. RunningHolds' /\ UnsettledIsOpen' /\ SessionIsBorrowers' /\ OutcomeIsTrue'
    BY <1>1 DEF RunningHolds, Running, UnsettledIsOpen, Unsettled, SessionIsBorrowers, OutcomeIsTrue
<1> QED
    BY <1>3, <1>4, <1>5

\* A statement runs with autocommit off: its work waits in the session.
LEMMA ExecutesKeeps ==
    ASSUME PoolInv, TxInv, NEW t \in Transactional, Executes(t)
    PROVE  TxInv'
<1> USE DEF TxInv
<1>1. statement[t] # NoConn
    BY PoolAssumption DEF Executes, PoolInv, Lending, Shapes
<1>2. statement[t] = held[t] /\ tx[t] = "active" /\ held[t] \in manual
    BY <1>1 DEF StatementIsOwn, RunningHolds, Running
<1>3. /\ statement' = [statement EXCEPT ![t] = NoConn]
      /\ pending' = [pending EXCEPT ![held[t]] = @ \cup {t}]
      /\ UNCHANGED <<pc, held, alive, tx, own, outcome, manual, kept, undone, doubtful>>
    BY <1>2 DEF Executes, Answered, vars
<1>4. TxTypeOK'
    BY <1>3 DEF TxTypeOK
<1>5. StatementIsOwn'
    BY <1>3 DEF StatementIsOwn, TxTypeOK
<1>6. SessionIsBorrowers'
    BY <1>2, <1>3 DEF SessionIsBorrowers, TxTypeOK
<1>7. RunningHolds' /\ UnsettledIsOpen' /\ OutcomeIsTrue'
    BY <1>3 DEF RunningHolds, Running, UnsettledIsOpen, Unsettled, OutcomeIsTrue
<1> QED
    BY <1>4, <1>5, <1>6, <1>7

LEMMA StatementFailsKeeps ==
    ASSUME TxInv, NEW t \in Transactional, StatementFails(t)
    PROVE  TxInv'
<1> USE DEF TxInv
<1>1. /\ statement' = [statement EXCEPT ![t] = NoConn]
      /\ UNCHANGED <<pc, held, alive, tx, own, outcome, manual, pending, kept, undone, doubtful>>
    BY DEF StatementFails, Answered, vars, database
<1>2. TxTypeOK' /\ StatementIsOwn'
    BY <1>1 DEF TxTypeOK, StatementIsOwn
<1>3. RunningHolds' /\ UnsettledIsOpen' /\ SessionIsBorrowers' /\ OutcomeIsTrue'
    BY <1>1 DEF RunningHolds, Running, UnsettledIsOpen, Unsettled, SessionIsBorrowers, OutcomeIsTrue
<1> QED
    BY <1>2, <1>3

\* The work ends once its statements have.
LEMMA FinishesKeeps ==
    ASSUME Stray = {}, TxInv, NEW t \in Transactional, NEW stage \in {"committing", "rollingBack"},
           NEW itself \in BOOLEAN, Finishes(t, stage, itself)
    PROVE  TxInv'
<1> USE DEF TxInv
<1>1. /\ tx[t] = "active" /\ statement[t] = NoConn
      /\ tx' = [tx EXCEPT ![t] = stage] /\ own' = [own EXCEPT ![t] = itself]
      /\ UNCHANGED <<pc, held, alive, outcome, statement, manual, pending, kept, undone, doubtful>>
    BY DEF Finishes, Settled, Goes, vars, database
<1>2. /\ tx'[t] = stage
      /\ \A u \in Transactional \ {t} : tx'[u] = tx[u] /\ own'[u] = own[u]
    BY <1>1 DEF TxTypeOK
<1>3. TxTypeOK'
    BY <1>1 DEF TxTypeOK
<1>4. RunningHolds'
    BY <1>1, <1>2 DEF RunningHolds, Running
<1>5. StatementIsOwn'
    BY <1>1, <1>2 DEF StatementIsOwn
<1>6. UnsettledIsOpen'
    BY <1>1, <1>2 DEF UnsettledIsOpen, Unsettled
<1>7. SessionIsBorrowers'
    BY <1>1, <1>2 DEF SessionIsBorrowers, TxTypeOK
<1>8. outcome[t] = "none"
    BY <1>1 DEF UnsettledIsOpen, TxTypeOK
<1>9. OutcomeIsTrue'
    BY <1>1, <1>2, <1>8 DEF OutcomeIsTrue
<1> QED
    BY <1>3, <1>4, <1>5, <1>6, <1>7, <1>9

LEMMA RestEndsKeeps ==
    ASSUME PoolInv, TxInv, NEW t \in Transactional, NEW result \in {"resolved", "rejected"},
           RestEnds(t, result)
    PROVE  TxInv'
<1> USE DEF TxInv
<1>1. /\ tx[t] = "finished" /\ tx' = [tx EXCEPT ![t] = "ended"]
      /\ outcome' = [outcome EXCEPT ![t] = result] /\ manual' = manual \ {held[t]}
      /\ UNCHANGED <<pc, held, alive, own, statement, pending, kept, undone, doubtful>>
    BY DEF RestEnds, Ends, Goes, vars, database
<1>2. own[t] /\ statement[t] = NoConn
    BY <1>1 DEF UnsettledIsOpen, StatementIsOwn
<1>3. \A u \in Transactional : held[u] = held[t] => u = t
    BY <1>1, OwnConnection DEF Running
<1>4. /\ tx'[t] = "ended"
      /\ \A u \in Transactional \ {t} : tx'[u] = tx[u] /\ outcome'[u] = outcome[u]
    BY <1>1 DEF TxTypeOK
<1>5. TxTypeOK'
    BY <1>1 DEF TxTypeOK
<1>6. RunningHolds'
    BY <1>1, <1>3, <1>4 DEF RunningHolds, Running
<1>7. StatementIsOwn'
    BY <1>1, <1>2, <1>4 DEF StatementIsOwn
<1>8. UnsettledIsOpen'
    BY <1>1, <1>4 DEF UnsettledIsOpen, Unsettled
<1>9. SessionIsBorrowers'
    BY <1>1, <1>4 DEF SessionIsBorrowers, TxTypeOK
<1>10. OutcomeIsTrue'
    BY <1>1, <1>2, <1>4 DEF OutcomeIsTrue
<1> QED
    BY <1>5, <1>6, <1>7, <1>8, <1>9, <1>10
-----------------------------------------------------------------------------
LEMMA TxInvNext == ASSUME Stray = {} PROVE PoolInv /\ TxInv /\ [TxNext]_txvars => TxInv'
<1> SUFFICES ASSUME Stray = {}, PoolInv, TxInv, [TxNext]_txvars PROVE TxInv'
    OBVIOUS
<1>0. /\ \A t \in Transactional : Running(t) => t \in Task /\ pc[t] = "working"
      /\ alive \subseteq Task
    BY TransactionAssumption DEF TxInv, RunningHolds, PoolInv, Lending, Shapes
<1>1. CASE PoolStep
  <2>1. \A t \in Transactional : Running(t) =>
            /\ pc'[t] = "working" /\ held'[t] = held[t]
            /\ held[t] \notin alive => held[t] \notin alive'
      BY <1>0, <1>1, BorrowersKeep DEF PoolStep
  <2> QED
      BY <1>1, <2>1, PoolMoves DEF PoolStep
<1>2. ASSUME NEW u \in Task, Returns(u) PROVE TxInv'
  <2>1. \A t \in Transactional : Running(t) => u \in Task \ {t}
      BY <1>2 DEF Returns, Running
  <2>2. \A t \in Transactional : Running(t) =>
            /\ pc'[t] = "working" /\ held'[t] = held[t]
            /\ held[t] \notin alive => held[t] \notin alive'
      BY <1>0, <1>2, <2>1, BorrowersKeep DEF Returns
  <2> QED
      BY <1>2, <2>2, PoolMoves DEF Returns
<1>3. ASSUME NEW t \in Transactional, TimesOut(t) PROVE TxInv'
  <2>1. \E c \in Task : GoesDown(c)
      BY <1>0, <1>3 DEF TimesOut, GoesDown
  <2>2. \A u \in Transactional : Running(u) =>
            /\ pc'[u] = "working" /\ held'[u] = held[u]
            /\ held[u] \notin alive => held[u] \notin alive'
      BY <1>0, <2>1, BorrowersKeep
  <2> QED
      BY <1>3, <2>2, PoolMoves DEF TimesOut
<1>4. ASSUME NEW t \in Transactional, CommitSucceeds(t) PROVE TxInv'
  <2>1. tx[t] = "committing" /\ t \notin undone
      BY <1>4 DEF CommitSucceeds, TxInv, UnsettledIsOpen, Unsettled
  <2> QED
      BY <1>4, <2>1, SettlingKeeps DEF CommitSucceeds, CommitsSession, vars
<1>5. ASSUME NEW t \in Transactional, CommitFails(t) PROVE TxInv'
    BY <1>5, SettlingKeeps DEF CommitFails, RollsBackSession, vars
<1>6. ASSUME NEW t \in Transactional, CommitLost(t) PROVE TxInv'
  <2>1. alive' \subseteq alive /\ UNCHANGED <<pc, held>>
      BY <1>6 DEF CommitLost, GoesDown
  <2> QED
      BY <1>6, <2>1, SettlingKeeps DEF CommitLost, CommitsSession
<1>7. ASSUME NEW t \in Transactional, RollbackSettles(t) PROVE TxInv'
    BY <1>7, SettlingKeeps DEF RollbackSettles, RollsBackSession, vars
<1>8. ASSUME NEW t \in Transactional, WorkEnds(t) PROVE TxInv'
    BY <1>8, FinishesKeeps, RestEndsKeeps
    DEF WorkEnds, WorkReturns, WorkThrows, CommitsItself, RollsBackItself
<1>9. ASSUME NEW t \in Transactional, TransactionStep(t) PROVE TxInv'
    BY <1>3, <1>4, <1>5, <1>6, <1>7, <1>8, <1>9, BeginsKeeps, SendsKeeps, ExecutesKeeps,
       StatementFailsKeeps
    DEF TransactionStep, StatementSettles, EndSettles
<1>10. CASE UNCHANGED txvars
    BY <1>10 DEF txvars, vars, callvars, database, TxInv, TxTypeOK, RunningHolds, Running,
       StatementIsOwn, UnsettledIsOpen, Unsettled, SessionIsBorrowers, OutcomeIsTrue
<1> QED
    BY <1>1, <1>2, <1>9, <1>10 DEF TxNext

LEMMA TxInvAlways == ASSUME Stray = {} PROVE TxSpec => []TxInv
<1>1. TxInit => TxInv
    BY TxBegins
<1>2. PoolInv /\ TxInv /\ [TxNext]_txvars => TxInv'
    BY TxInvNext
<1> QED
    BY <1>1, <1>2, PoolInvHere, PTL DEF TxSpec

-----------------------------------------------------------------------------
\* A connection is idle, or goes to the next call, with no work pending in its session and
\* with autocommit on.
THEOREM NothingLeftBehind == ASSUME Stray = {} PROVE TxSpec => []SessionIsBorrowers
<1>1. TxInv => SessionIsBorrowers
    BY DEF TxInv
<1> QED
    BY <1>1, TxInvAlways, PTL

\* transaction() resolves only when nothing of it was rolled back, and rejects only when nothing
\* of it is committed, its own ends and lost answers apart.
THEOREM OutcomeStaysTrue == ASSUME Stray = {} PROVE TxSpec => []OutcomeIsTrue
<1>1. TxInv => OutcomeIsTrue
    BY DEF TxInv
<1> QED
    BY <1>1, TxInvAlways, PTL
=============================================================================
