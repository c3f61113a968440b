------------------------ MODULE SgfxSchedulerAdvance ------------------------
(***************************************************************************)
(* NativeScheduler::advance keeps the invariant: the finished prefix of    *)
(* the queue retires, and the next chunk is the oldest one not handed      *)
(* over, with an arena nothing else uses.                                  *)
(***************************************************************************)
EXTENDS SgfxSchedulerSteps

-----------------------------------------------------------------------------
(* advance: the finished prefix.                                           *)

\* r is what is left of s without its first m elements.
Suffix(s, r, m) ==
  /\ m \in 0..Len(s) /\ r \in Seq(Jobs) /\ Len(r) = Len(s) - m
  /\ \A i \in 1..(Len(s) - m) : r[i] = s[i + m]

LEMMA SuffixFacts ==
  ASSUME NEW s \in Seq(Jobs), IsInjective(s), NEW r, NEW m, Suffix(s, r, m)
  PROVE  /\ IsInjective(r) /\ Range(r) \subseteq Range(s)
         /\ Range(s) \ Range(r) = {s[i] : i \in 1..m}
         /\ \A i \in DOMAIN r : i + m \in DOMAIN s /\ r[i] = s[i + m]
         /\ \A i, k \in DOMAIN r : i < k => i + m < k + m
         /\ \A i \in DOMAIN s : i \in 1..m \/ (i - m \in DOMAIN r /\ r[i - m] = s[i])
  <1> DEFINE n == Len(s)
  <1>1. n \in Nat /\ m \in 0..n /\ DOMAIN s = 1..n /\ DOMAIN r = 1..(n - m)
    BY DEF Suffix
  <1>2. \A i \in 1..(n - m) : r[i] = s[i + m]
    BY DEF Suffix
  <1> HIDE DEF n
  <1>3. \A i \in 1..(n - m) : i + m \in 1..n /\ i + m \notin 1..m /\ (i + m) - m = i
    BY <1>1
  <1>4. \A i \in 1..n : i \in 1..m \/ (i - m \in 1..(n - m) /\ (i - m) + m = i)
    BY <1>1
  <1>5. \A i \in 1..m : i \in 1..n
    BY <1>1
  <1>6. \A i, k \in 1..n : s[i] = s[k] => i = k
    BY <1>1 DEF IsInjective
  <1>7. IsInjective(r)
    BY <1>1, <1>2, <1>3, <1>6, Zenon DEF IsInjective
  <1>8. \A i \in 1..n : i \in 1..m \/ (i - m \in 1..(n - m) /\ r[i - m] = s[i])
    BY <1>2, <1>4
  <1>9. \A i, k \in 1..(n - m) : i < k => i + m < k + m
    BY <1>1
  <1>10. Range(r) \subseteq Range(s)
    BY <1>1, <1>2, <1>3 DEF Range
  <1>11. \A i \in 1..m : s[i] \in Range(s) /\ s[i] \notin Range(r)
    <2> SUFFICES ASSUME NEW i \in 1..m, NEW k \in 1..(n - m), s[i] = r[k]
                 PROVE  FALSE
      BY <1>1, <1>5 DEF Range
    <2>1. s[i] = s[k + m] /\ i \in 1..n /\ k + m \in 1..n /\ k + m \notin 1..m
      BY <1>2, <1>3, <1>5
    <2> QED
      BY <1>6, <2>1
  <1>12. \A x \in Range(s) \ Range(r) : \E i \in 1..m : x = s[i]
    BY <1>1, <1>8 DEF Range
  <1> QED
    BY <1>1, <1>2, <1>3, <1>7, <1>8, <1>9, <1>10, <1>11, <1>12, SMTT(40)

\* What stays is a suffix of the queue, and what goes is finished.
LEMMA PrefixGoes ==
  ASSUME QueueOK, NEW held
  PROVE  \E m \in Nat : /\ Suffix(jobs, RetirePrefix(held), m)
                        /\ \A i \in 1..m : jobs[i] \in Finished(jobs, held)
  <1> DEFINE n == Len(jobs)
             open == {i \in DOMAIN jobs : jobs[i] \notin Finished(jobs, held)}
             rest == RetirePrefix(held)
  <1>1. n \in Nat /\ DOMAIN jobs = 1..n /\ jobs \in Seq(Jobs)
    BY DEF QueueOK
  <1>2. rest = IF open = {} THEN << >> ELSE SubSeq(jobs, Min(open), n)
    BY DEF RetirePrefix
  <1>3. open \in SUBSET Nat /\ open \subseteq 1..n
    BY <1>1
  <1>4. \A i \in 1..n : i \notin open => jobs[i] \in Finished(jobs, held)
    BY <1>1
  <1> HIDE DEF open, rest
  <1>5. CASE open = {}
    <2>1. rest \in Seq(Jobs) /\ Len(rest) = 0
      BY <1>2, <1>5
    <2>2. Suffix(jobs, rest, n)
      BY <1>1, <2>1 DEF Suffix
    <2> QED
      BY <1>1, <1>4, <1>5, <2>2 DEF rest
  <1>6. CASE open # {}
    <2>1. PICK a \in open : a = Min(open) /\ \A k \in open : a <= k
      BY <1>3, <1>6, MinElement, Zenon
    <2>2. a \in 1..n /\ rest = SubSeq(jobs, a, n)
      BY <1>2, <1>3, <1>6, <2>1, Zenon
    <2>3. \A i \in 1..(a - 1) : i \in 1..n /\ i \notin open
      BY <1>1, <2>1, <2>2
    <2>4. /\ a - 1 \in 0..n /\ rest \in Seq(Jobs) /\ Len(rest) = n - (a - 1)
          /\ \A i \in 1..(n - (a - 1)) : rest[i] = jobs[i + (a - 1)]
      BY <1>1, <2>2
    <2>5. Suffix(jobs, rest, a - 1) /\ a - 1 \in Nat
      BY <1>1, <2>2, <2>4 DEF Suffix
    <2> QED
      BY <1>4, <2>3, <2>5 DEF rest
  <1> QED
    BY <1>5, <1>6

\* A finished job has all its chunks retired: its receipts were all seen.
LEMMA FinishedRetired ==
  ASSUME QueueOK, KernelOK, NEW seen \in SUBSET (Held(jobs) \cap retired),
         NEW j \in Finished(jobs, Held(jobs) \ seen)
  PROVE  AllRetired({j})
  <1> SUFFICES ASSUME NEW p \in Pieces, p[1] = j
               PROVE  p \in retired
    BY DEF AllRetired
  <1>1. j \in Range(jobs) /\ next[j] > Len(Chunks[j]) /\ p \notin Held(jobs) \ seen
    BY DEF Finished
  <1>2. p = <<j, p[2]>> /\ j \in Jobs /\ p[2] \in 1..Len(Chunks[j])
    BY PieceDef
  <1>3. next[j] = Len(Chunks[j]) + 1 /\ Len(Chunks[j]) \in Nat
    BY <1>1, <1>2, Constants, SMTT(40) DEF QueueOK
  <1>4. p[2] \in Sent(j)
    BY <1>2, <1>3 DEF Sent
  <1>5. p[2] \in receipts[j] \/ p \in retired
    BY <1>1, <1>2, <1>4 DEF KernelOK
  <1>6. p[2] \in receipts[j] => p \in Held(jobs)
    BY <1>1 DEF Held
  <1> QED
    BY <1>1, <1>5, <1>6

\* The queue after advance has signalled the finished prefix.
LEMMA AdvanceStep ==
  ASSUME SchedInv, Advance
  PROVE  SchedInv'
  <1> USE DEF waitVars, eventVars, kernelVars, arenaVars
  <1>0. ~failure /\ pc = "advance"
    BY Zenon DEF SchedInv, PcOK, Advance
  <1>1. CASE Fail
    BY <1>0, <1>1, FailStep, Zenon DEF Advance
  <1>2. CASE ~Fail
    <2>0. PICK seen \in SUBSET (Held(jobs) \cap retired) :
          LET held == Held(jobs) \ seen
              rest == RetirePrefix(held)
              over == Range(jobs) \ Range(rest)
          IN  /\ jobs' = rest
              /\ receipts' = [j \in Jobs |-> {p[2] : p \in {q \in held : q[1] = j}}]
              /\ bytes' = bytes - SumLengths(over)
              /\ signal' = [j \in Jobs |-> IF j \in over THEN "ok" ELSE signal[j]]
      BY <1>2, Zenon DEF Advance
    <2> DEFINE held == Held(jobs) \ seen
               rest == RetirePrefix(held)
               over == Range(jobs) \ Range(rest)
    <2>1. /\ jobs' = rest
          /\ receipts' = [j \in Jobs |-> {p[2] : p \in {q \in held : q[1] = j}}]
          /\ bytes' = bytes - SumLengths(over)
          /\ signal' = [j \in Jobs |-> IF j \in over THEN "ok" ELSE signal[j]]
      BY <2>0, Zenon
    <2>2. /\ unseen' = {} /\ pc' = "dispatch" /\ UNCHANGED <<next, failure, gpuq, retired>>
          /\ UNCHANGED <<waiter, covers, flag, pipe, notifying, writeFailed, closing, arena, fence>>
      BY <1>2, Zenon DEF Advance
    <2>q. QueueOK /\ KernelOK
      BY DEF SchedInv
    <2>3. jobs \in Seq(Jobs) /\ IsInjective(jobs)
      BY <2>q DEF QueueOK
    <2>4. PICK m \in Nat : /\ Suffix(jobs, rest, m)
                          /\ \A i \in 1..m : jobs[i] \in Finished(jobs, held)
      BY <2>q, PrefixGoes
    <2> HIDE DEF rest
    <2>5. /\ IsInjective(rest) /\ Range(rest) \subseteq Range(jobs)
          /\ over = {jobs[i] : i \in 1..m}
          /\ \A i \in DOMAIN rest : i + m \in DOMAIN jobs /\ rest[i] = jobs[i + m]
          /\ \A i, k \in DOMAIN rest : i < k => i + m < k + m
          /\ \A i \in DOMAIN jobs : i \in 1..m \/ (i - m \in DOMAIN rest /\ rest[i - m] = jobs[i])
      BY <2>3, <2>4, SuffixFacts, SMTT(40)
    <2>10. \A j \in over : j \in Finished(jobs, held) /\ AllRetired({j})
      BY <2>4, <2>5, <2>q, FinishedRetired, Zenon
    <2>9. Range(rest) \cup over = Range(jobs) /\ Range(rest) \cap over = {}
      BY <2>5, Zenon
    <2> HIDE DEF held, over
    <2>11. held \subseteq Held(jobs) /\ Held(jobs) \ held \subseteq retired
      BY DEF held
    <2>12. \A j \in Jobs : \A k : k \in receipts'[j] <=> <<j, k>> \in held
      <3>1. \A p \in held : p = <<p[1], p[2]>>
        BY <2>11, PieceDef DEF Held
      <3>2. \A j \in Jobs : receipts'[j] = {p[2] : p \in {q \in held : q[1] = j}}
        BY <2>1
      <3> QED
        BY <3>1, <3>2
    <2>13. Held(jobs)' = held
      <3>1. \A p \in held : p[1] \in Range(rest) /\ p \in Pieces
        <4>1. \A p \in held : p[1] \in Range(jobs) /\ p \in Pieces
          BY <2>11 DEF Held
        <4>2. \A p \in held : p[1] \notin over
          BY <2>10, Zenon DEF Finished
        <4> QED
          BY <2>9, <4>1, <4>2
      <3>2. Held(jobs)' = {p \in Pieces : p[1] \in Range(rest) /\ p[2] \in receipts'[p[1]]}
        BY <2>1 DEF Held
      <3>3. \A p \in Pieces : p = <<p[1], p[2]>> /\ p[1] \in Jobs
        BY PieceDef
      <3>4. \A p \in Pieces : p[2] \in receipts'[p[1]] <=> p \in held
        BY <2>12, <3>3
      <3> QED
        BY <3>1, <3>2, <3>4
    <2>14. \A j \in Jobs : receipts'[j] \subseteq receipts[j]
      <3>1. \A j, k : <<j, k>> \in Held(jobs) => k \in receipts[j]
        BY DEF Held
      <3> QED
        BY <2>11, <2>12, <3>1, Zenon
    <2>15. QueueOK'
      <3>1. jobs' \in Seq(Jobs) /\ Len(jobs') <= MaxSubmissions
        BY <2>1, <2>3, <2>4, <2>q, Constants, SMTT(40) DEF QueueOK, Suffix
      <3>2. IsInjective(jobs')
        BY <2>1, <2>5, Zenon
      <3>3. Range(jobs') = Range(jobs) \ over /\ over \subseteq Range(jobs)
        BY <2>1, <2>9, Zenon
      <3>4. bytes' = SumLengths(Range(jobs')) /\ bytes' <= MaxPending
        <4>1. bytes = SumLengths(Range(jobs)) /\ bytes <= MaxPending
          BY <2>q DEF QueueOK
        <4>2. /\ SumLengths(Range(jobs)) \in Nat
              /\ SumLengths(Range(jobs) \ over) = SumLengths(Range(jobs)) - SumLengths(over)
              /\ SumLengths(Range(jobs) \ over) <= SumLengths(Range(jobs))
          BY <3>3, SumDrops
        <4>3. SumLengths(Range(jobs) \ over) \in Nat
          BY SumDrops, Zenon
        <4> QED
          BY <2>1, <3>3, <4>1, <4>2, <4>3, Constants, SMTT(40)
      <3>5. Cardinality(Held(jobs)') <= MaxInFlight
        <4>1. IsFiniteSet(Held(jobs))
          BY PiecesFinite, FS_Subset, Zenon DEF Held
        <4>2. Cardinality(held) <= Cardinality(Held(jobs)) /\ IsFiniteSet(held)
          BY <2>11, <4>1, FS_Subset
        <4>3. Cardinality(held) \in Nat /\ Cardinality(Held(jobs)) \in Nat
          BY <4>1, <4>2, FS_CardinalityType
        <4> QED
          BY <2>13, <2>q, <4>2, <4>3, Constants, SMTT(30) DEF QueueOK
      <3>6. receipts' \in [Jobs -> SUBSET Nat] /\ \A j \in Jobs : receipts'[j] \subseteq Sent(j)'
        BY <2>1, <2>2, <2>14, <2>q, Zenon DEF QueueOK, Sent
      <3>7. /\ signal' \in [Jobs -> {None, "pending", "ok", "failed", "rejected"}]
            /\ \A j \in Jobs : signal'[j] = "pending" <=> j \in Range(jobs')
            /\ \A j \in Jobs : signal'[j] = None => signal[j] = None
        BY <2>1, <2>q, <3>3, Constants, Zenon DEF QueueOK
      <3> QED
        BY <1>0, <2>2, <2>q, <3>1, <3>2, <3>4, <3>5, <3>6, <3>7, Zenon DEF QueueOK
    <2>16. KernelOK'
      <3>1. ASSUME NEW p \in Range(gpuq) PROVE Before(p)' \subseteq Before(p)
        <4>1. Before(p)' =
                {<<p[1], k>> : k \in 1..(p[2] - 1)} \cup
                {q \in Pieces : \E i, l \in DOMAIN rest : i < l /\ rest[i] = q[1] /\ rest[l] = p[1]}
          BY <2>1, Zenon DEF Before
        <4>2. \A q : (\E i, l \in DOMAIN rest : i < l /\ rest[i] = q /\ rest[l] = p[1])
                => \E i, l \in DOMAIN jobs : i < l /\ jobs[i] = q /\ jobs[l] = p[1]
          BY <2>5, SMTT(40)
        <4>3. Before(p) =
                {<<p[1], k>> : k \in 1..(p[2] - 1)} \cup
                {q \in Pieces : \E i, l \in DOMAIN jobs : i < l /\ jobs[i] = q[1] /\ jobs[l] = p[1]}
          BY Zenon DEF Before
        <4> QED
          BY <4>1, <4>2, <4>3, Zenon
      <3>2. \A i \in DOMAIN gpuq : gpuq[i] \in Range(gpuq)
        BY DEF Range
      <3>3. \A j : Sent(j)' = Sent(j)
        BY <2>2 DEF Sent
      <3>4. \A j \in Range(jobs') : \A k \in Sent(j) : k \in receipts'[j] \/ <<j, k>> \in retired
        <4> SUFFICES ASSUME NEW j \in Range(jobs'), NEW k \in Sent(j), <<j, k>> \notin retired
                     PROVE  k \in receipts'[j]
          BY Zenon
        <4>1. j \in Range(jobs) /\ j \in Jobs
          <5>1. j \in Range(jobs)
            BY <2>1, <2>9, Zenon
          <5> QED
            BY <2>3, <5>1 DEF Range
        <4>2. k \in receipts[j] /\ k \in 1..Len(Chunks[j])
          BY <2>q, <4>1, Constants, SMTT(40) DEF KernelOK, QueueOK, Sent
        <4>3. <<j, k>> \in Held(jobs)
          BY <4>1, <4>2, PieceDef DEF Held
        <4> QED
          BY <2>11, <2>12, <4>1, <4>3
      <3> QED
        BY <2>2, <2>q, <3>1, <3>2, <3>3, <3>4, Zenon DEF KernelOK
    <2>17. TrackedOK'
      BY <1>0, <2>2, <2>11, <2>13 DEF SchedInv, TrackedOK, Sent
    <2>18. PcOK' /\ ArenasOK'
      BY <1>0, <2>2, ArenasFrame DEF SchedInv, PcOK
    <2>19. WaiterOK'
      <3> SUFFICES ASSUME waiter # None
                   PROVE  /\ waiter \in Jobs /\ signal'[waiter] # None
                          /\ signal'[waiter] = "ok" => AllRetired(covers)
                          /\ \A l \in DOMAIN rest : rest[l] = waiter =>
                               \A j \in covers : AllRetired({j}) \/ \E h \in 1..l : rest[h] = j
        <4>1. \A js : AllRetired(js)' = AllRetired(js)
          BY <2>2 DEF AllRetired
        <4> QED
          BY <2>1, <2>2, <4>1, SMTT(40) DEF WaiterOK
      <3>1. waiter \in Jobs /\ signal[waiter] # None /\ (signal[waiter] = "ok" => AllRetired(covers))
        BY DEF SchedInv, WaiterOK
      <3>2. \A l \in DOMAIN jobs : jobs[l] = waiter =>
              \A j \in covers : AllRetired({j}) \/ \E h \in 1..l : jobs[h] = j
        BY Zenon DEF SchedInv, WaiterOK
      <3>d. DOMAIN jobs = 1..Len(jobs) /\ DOMAIN rest = 1..(Len(jobs) - m) /\ m \in 0..Len(jobs)
            /\ Len(jobs) \in Nat
        BY <2>3, <2>4 DEF Suffix
      <3>3. ASSUME waiter \in over
            PROVE  AllRetired(covers)
        <4>1. PICK l \in 1..m : jobs[l] = waiter
          BY <2>5, <3>3
        <4>2. l \in DOMAIN jobs /\ \A h \in 1..l : h \in 1..m
          BY <3>d
        <4>3. \A j \in covers : AllRetired({j})
          BY <2>5, <2>10, <3>2, <4>1, <4>2, ZenonT(60)
        <4> QED
          BY <4>3 DEF AllRetired
      <3>4. ASSUME NEW l \in DOMAIN rest, rest[l] = waiter, NEW j \in covers, ~AllRetired({j})
            PROVE  \E h \in 1..l : rest[h] = j
        <4>1. l + m \in DOMAIN jobs /\ jobs[l + m] = waiter
          BY <2>5, <3>4, Zenon
        <4>2. PICK h \in 1..(l + m) : jobs[h] = j
          BY <3>2, <3>4, <4>1, Zenon
        <4>3. h \notin 1..m
          BY <2>5, <2>10, <3>4, <4>2, Zenon
        <4>4. h - m \in 1..l /\ h \in DOMAIN jobs
          BY <3>d, <4>1, <4>3
        <4>5. rest[h - m] = j
          BY <2>5, <4>2, <4>3, <4>4, Zenon
        <4> QED
          BY <4>4, <4>5
      <3> QED
        BY <2>1, <3>1, <3>3, <3>4, Constants, Zenon
    <2>20. PipeOK' /\ WakeOK'
      <3>1. Notified' = Notified
        BY <2>1, <2>9, <2>q, Constants, Zenon DEF Notified, QueueOK
      <3> QED
        BY <1>0, <2>2, <3>1, PipeFrame, WakeFrame DEF SchedInv
    <2> QED
      BY <2>15, <2>16, <2>17, <2>18, <2>19, <2>20 DEF SchedInv
  <1> QED
    BY <1>1, <1>2

-----------------------------------------------------------------------------
(* advance: dispatching the next chunk.                                    *)

\* Everything that goes before the next chunk was handed over, the chunk itself was not.
LEMMA NextFacts ==
  ASSUME QueueOK, Unsent # {}
  PROVE  /\ NextPiece \in Pieces /\ NextPiece[1] \in Range(jobs)
         /\ NextPiece[2] = next[NextPiece[1]] /\ NextPiece \notin Held(jobs)
         /\ \A q \in Before(NextPiece) : q \in Pieces /\ q[2] \in Sent(q[1])
  <1> DEFINE p == NextPiece
  <1>1. jobs \in Seq(Jobs) /\ DOMAIN jobs = 1..Len(jobs) /\ IsInjective(jobs) /\ Len(jobs) \in Nat
    BY DEF QueueOK
  <1>2. Unsent \in SUBSET Nat
    BY <1>1 DEF Unsent
  <1>3. PICK a \in Unsent : a = Min(Unsent) /\ \A k \in Unsent : a <= k
    BY <1>2, MinElement, Zenon
  <1>4. a \in DOMAIN jobs /\ next[jobs[a]] <= Len(Chunks[jobs[a]])
    BY <1>3 DEF Unsent
  <1>5. p = <<jobs[a], next[jobs[a]]>>
    BY <1>3 DEF NextPiece
  <1> HIDE DEF p
  <1>6. p[1] = jobs[a] /\ p[2] = next[p[1]] /\ p[1] \in Jobs /\ p[1] \in Range(jobs)
    BY <1>1, <1>4, <1>5 DEF Range
  <1>7. p[2] \in 1..Len(Chunks[p[1]])
    BY <1>4, <1>6, Constants DEF QueueOK
  <1>8. p \in Pieces
    BY <1>5, <1>6, <1>7, PieceDef
  <1>9. p \notin Held(jobs)
    <2>1. receipts[p[1]] \subseteq 1..(p[2] - 1) /\ p[2] \in Nat
      BY <1>6 DEF QueueOK, Sent
    <2>2. p[2] \notin 1..(p[2] - 1)
      BY <2>1
    <2> QED
      BY <2>1, <2>2 DEF Held
  <1>10. ASSUME NEW q \in Before(p)
         PROVE  q \in Pieces /\ q[2] \in Sent(q[1])
    <2>1. CASE \E k \in 1..(p[2] - 1) : q = <<p[1], k>>
      <3>1. PICK k \in 1..(p[2] - 1) : q = <<p[1], k>>
        BY <2>1
      <3>2. k \in 1..Len(Chunks[p[1]])
        BY <1>6, <1>7, Constants
      <3> QED
        BY <1>6, <3>1, <3>2, PieceDef DEF Sent
    <2>2. CASE /\ q \in Pieces
               /\ \E m, n \in DOMAIN jobs : m < n /\ jobs[m] = q[1] /\ jobs[n] = p[1]
      <3>1. PICK m, n \in DOMAIN jobs : m < n /\ jobs[m] = q[1] /\ jobs[n] = p[1]
        BY <2>2
      <3>2. n = a
        BY <1>1, <1>4, <1>6, <3>1 DEF IsInjective
      <3>3. m \notin Unsent
        BY <1>1, <1>3, <1>4, <3>1, <3>2
      <3>4. ~(next[q[1]] <= Len(Chunks[q[1]]))
        BY <3>1, <3>3 DEF Unsent
      <3>5. q[1] \in Jobs /\ q[2] \in 1..Len(Chunks[q[1]]) /\ Len(Chunks[q[1]]) \in Nat
        BY <2>2, PieceDef, Constants
      <3>6. next[q[1]] \in Nat
        BY <3>5 DEF QueueOK
      <3> QED
        BY <2>2, <3>4, <3>5, <3>6 DEF Sent
    <2> QED
      BY <1>10, <2>1, <2>2 DEF Before
  <1> QED
    BY <1>6, <1>8, <1>9, <1>10 DEF p

\* An arena that is ready is used by nothing the kernel still has.
LEMMA LoadArena ==
  ASSUME SchedInv, ~failure, NEW p \in Pieces, Kind(p) = "commands", Ready(p)
  PROVE  /\ Loaded(p) \in [1..Arenas -> Pieces \cup {None}] /\ Loaded(p)[ArenaOf(p)] = p
         /\ \A i \in DOMAIN gpuq : /\ ArenaOf(gpuq[i]) # ArenaOf(p)
                                   /\ Loaded(p)[ArenaOf(gpuq[i])] = gpuq[i]
  <1>1. ArenaOf(p) \in 1..Arenas
    BY ArenaType
  <1>2. fence[ArenaOf(p)] \in retired \cup {None}
    BY DEF Ready
  <1>3. arena \in [1..Arenas -> Pieces \cup {None}]
    BY DEF SchedInv, ArenasOK
  <1>4. ASSUME NEW i \in DOMAIN gpuq
        PROVE  /\ ArenaOf(gpuq[i]) \in 1..Arenas /\ ArenaOf(gpuq[i]) # ArenaOf(p)
               /\ arena[ArenaOf(gpuq[i])] = gpuq[i]
    <2>1. gpuq[i] \in Pieces /\ gpuq[i] \in Range(gpuq)
      BY <1>4 DEF SchedInv, KernelOK, Range
    <2>2. gpuq[i] \notin retired /\ gpuq[i] # None
      BY <2>1, Constants DEF SchedInv, TrackedOK
    <2>3. fence[ArenaOf(gpuq[i])] = gpuq[i] /\ arena[ArenaOf(gpuq[i])] = gpuq[i]
      BY <1>4 DEF SchedInv, ArenasOK
    <2>4. ArenaOf(gpuq[i]) \in 1..Arenas
      BY <2>1, ArenaType
    <2> QED
      BY <1>2, <2>2, <2>3, <2>4
  <1> QED
    BY <1>1, <1>3, <1>4 DEF Loaded

\* Handing over a chunk keeps the accounts of the queue.
LEMMA HandOverStep ==
  ASSUME SchedInv, Unsent # {}, ~Blocked(NextPiece), HandOver(NextPiece)
  PROVE  /\ QueueOK' /\ Held(jobs)' = Held(jobs) \cup {NextPiece}
         /\ \A j \in Jobs : \A k :
              /\ k \in Sent(j)' <=> (k \in Sent(j) \/ <<j, k>> = NextPiece)
              /\ k \in receipts'[j] <=> (k \in receipts[j] \/ <<j, k>> = NextPiece)
  <1> DEFINE p == NextPiece
  <1>q. QueueOK
    BY DEF SchedInv
  <1>1. /\ p \in Pieces /\ p[1] \in Range(jobs) /\ p[2] = next[p[1]] /\ p \notin Held(jobs)
    BY <1>q, NextFacts
  <1>2. ~Blocked(p) /\ HandOver(p)
    OBVIOUS
  <1> HIDE DEF p
  <1>3. p = <<p[1], p[2]>> /\ p[1] \in Jobs /\ p[2] \in 1..Len(Chunks[p[1]]) /\ Len(Chunks[p[1]]) \in Nat
    BY <1>1, PieceDef, Constants
  <1>4. /\ next' = [next EXCEPT ![p[1]] = next[p[1]] + 1]
        /\ receipts' = [receipts EXCEPT ![p[1]] = receipts[p[1]] \cup {p[2]}]
        /\ UNCHANGED <<jobs, bytes, failure, signal>>
    BY <1>2, Zenon DEF HandOver
  <1>5. /\ next' \in [Jobs -> Nat] /\ receipts' \in [Jobs -> SUBSET Nat]
        /\ \A j \in Jobs : next'[j] = IF j = p[1] THEN p[2] + 1 ELSE next[j]
        /\ \A j \in Jobs : receipts'[j] = IF j = p[1] THEN receipts[j] \cup {p[2]} ELSE receipts[j]
    <2>1. p[2] \in Nat /\ p[1] \in Jobs /\ next[p[1]] + 1 = p[2] + 1
      BY <1>1, <1>3
    <2>2. next \in [Jobs -> Nat] /\ receipts \in [Jobs -> SUBSET Nat]
      BY <1>q DEF QueueOK
    <2>3. next' \in [Jobs -> Nat] /\ \A j \in Jobs : next'[j] = IF j = p[1] THEN p[2] + 1 ELSE next[j]
      BY <1>4, <2>1, <2>2
    <2> QED
      BY <1>4, <2>1, <2>2, <2>3, Zenon
  <1>6. \A j \in Jobs : Sent(j)' = IF j = p[1] THEN Sent(j) \cup {p[2]} ELSE Sent(j)
    <2>1. (p[2] + 1) - 1 = p[2] /\ 1..p[2] = (1..(p[2] - 1)) \cup {p[2]}
      BY <1>3
    <2> QED
      BY <1>1, <1>5, <2>1, Zenon DEF Sent
  <1>7. Held(jobs)' = Held(jobs) \cup {p}
    <2>1. Held(jobs)' = {q \in Pieces : q[1] \in Range(jobs) /\ q[2] \in receipts'[q[1]]}
      BY <1>4 DEF Held
    <2>2. \A q \in Pieces : q = <<q[1], q[2]>> /\ q[1] \in Jobs
      BY PieceDef
    <2>3. \A q \in Pieces : q[2] \in receipts'[q[1]] <=> (q[2] \in receipts[q[1]] \/ q = p)
      BY <1>3, <1>5, <2>2
    <2> QED
      BY <1>1, <2>1, <2>3 DEF Held
  <1>8. Cardinality(Held(jobs)') <= MaxInFlight
    <2>1. IsFiniteSet(Held(jobs))
      BY PiecesFinite, FS_Subset DEF Held
    <2>2. Cardinality(Held(jobs) \cup {p}) = Cardinality(Held(jobs)) + 1
      BY <1>1, <2>1, FS_AddElement, Zenon
    <2>3. Cardinality(Held(jobs)) \in Nat
      BY <2>1, FS_CardinalityType
    <2>4. Cardinality(Held(jobs)) # MaxInFlight /\ Cardinality(Held(jobs)) <= MaxInFlight
      BY <1>2, <1>q DEF Blocked, QueueOK
    <2>5. Cardinality(Held(jobs)) + 1 <= MaxInFlight
      BY <2>3, <2>4, Constants
    <2> QED
      BY <1>7, <2>2, <2>5
  <1>9. \A j \in Jobs : next'[j] \in 1..(Len(Chunks[j]) + 1) /\ receipts'[j] \subseteq Sent(j)'
    <2>1. \A j \in Jobs : next[j] \in 1..(Len(Chunks[j]) + 1) /\ receipts[j] \subseteq Sent(j)
      BY <1>q DEF QueueOK
    <2>2. p[2] + 1 \in 1..(Len(Chunks[p[1]]) + 1)
      BY <1>3
    <2>3. \A j \in Jobs : next'[j] \in 1..(Len(Chunks[j]) + 1)
      BY <1>5, <2>1, <2>2
    <2>4. \A j \in Jobs : receipts'[j] \subseteq Sent(j)'
      BY <1>5, <1>6, <2>1
    <2> QED
      BY <2>3, <2>4
  <1>10. \A j \in Jobs : signal[j] = None => next'[j] = 1
    BY <1>1, <1>5, <1>q, Constants DEF QueueOK
  <1>11. QueueOK'
    BY <1>4, <1>5, <1>8, <1>9, <1>10, <1>q DEF QueueOK
  <1>12. \A j \in Jobs : \A k :
           /\ k \in Sent(j)' <=> (k \in Sent(j) \/ <<j, k>> = p)
           /\ k \in receipts'[j] <=> (k \in receipts[j] \/ <<j, k>> = p)
    BY <1>3, <1>5, <1>6
  <1> QED
    BY <1>7, <1>11, <1>12 DEF p

=============================================================================
