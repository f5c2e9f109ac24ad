------------------------- MODULE BackendCall_proofs ------------------------
(***************************************************************************)
(* The safety properties of BackendCall, for every timeout, cap, answer    *)
(* and number of chunks.  All of them follow from the one inductive        *)
(* invariant CallInv.                                                      *)
(***************************************************************************)
EXTENDS BackendCall, SequenceTheorems, WellFoundedInduction, TLAPS

(* What a phase knows of the variables that later phases set.              *)
Shape ==
  /\ phase \in {"start"} \cup Network => rows = <<>> /\ data = <<>> /\ total = 0
  /\ phase # "done" => result = "pending" /\ ~truncated
  /\ phase = "rows" => backend = "finished"

(* The operations that are over took at most `timeout' each, and the one   *)
(* in progress has taken `idle' so far.                                    *)
Budget ==
  /\ idle <= timeout /\ idle <= elapsed
  /\ elapsed <= timeout * (Operations - 1) + idle

CallInv ==
  /\ TypeOK /\ Shape /\ Budget
  /\ RowsWithinCaps /\ TruncationExact /\ ResultHonest

----------------------------------------------------------------------------
(* Facts about the operators.                                              *)

(* query_runner_mindsdb.py:99-113: a clamped limit is between 1 and the    *)
(* configured maximum, whatever the request and the default say.           *)
LEMMA ClampRange ==
  ASSUME NEW arg \in Nat \cup {Unset}, NEW default \in Nat,
         NEW maximum \in Nat \ {0}
  PROVE  Clamp(arg, default, maximum) \in 1..maximum
  BY LimitsAssumption DEF Clamp, Least, Greatest

(* Multiplication by a successor, and monotonicity: the arithmetic of the  *)
(* time budget.                                                            *)
LEMMA TimesSucc ==
  ASSUME NEW a \in Nat, NEW b \in Nat
  PROVE  a * (b + 1) = a * b + a
  OBVIOUS

(* Multiplication by a natural number is monotone.                         *)
LEMMA TimesMono ==
  ASSUME NEW a \in Nat, NEW b \in Nat, NEW c \in Nat, b <= c
  PROVE  a * b <= a * c
  OBVIOUS

(* query_runner_mindsdb.py:139-151: copying the next row of the answer     *)
(* extends the copied prefix by one.                                       *)
LEMMA PrefixGrows ==
  ASSUME NEW S, NEW s \in Seq(S), NEW n \in 0..(Len(s) - 1)
  PROVE  Append(SubSeq(s, 1, n), s[n + 1]) = SubSeq(s, 1, n + 1)
<1>1. \A i \in 1..n : s[i] \in S
  BY ElementOfSeq
<1>2. s[n + 1] \in S
  BY ElementOfSeq
<1>3. \A i \in 1..(n + 1) : s[i] \in S
  BY ElementOfSeq
<1>4. /\ SubSeq(s, 1, n) \in Seq(S) /\ Len(SubSeq(s, 1, n)) = n
      /\ \A i \in 1..n : SubSeq(s, 1, n)[i] = s[i]
  BY <1>1, SubSeqProperties
<1>5. /\ SubSeq(s, 1, n + 1) \in Seq(S) /\ Len(SubSeq(s, 1, n + 1)) = n + 1
      /\ \A i \in 1..(n + 1) : SubSeq(s, 1, n + 1)[i] = s[i]
  BY <1>3, SubSeqProperties
<1> DEFINE grown == Append(SubSeq(s, 1, n), s[n + 1])
<1>6. /\ grown \in Seq(S) /\ Len(grown) = n + 1
      /\ \A i \in 1..n : grown[i] = s[i]
      /\ grown[n + 1] = s[n + 1]
  BY <1>2, <1>4, AppendProperties
<1>7. \A i \in 1..Len(grown) : grown[i] = SubSeq(s, 1, n + 1)[i]
  BY <1>5, <1>6
<1> HIDE DEF grown
<1>8. grown = SubSeq(s, 1, n + 1)
  BY <1>5, <1>6, <1>7, SeqEqual
<1> QED
  BY <1>8 DEF grown

(* A set of natural numbers that is not empty has a least element: the     *)
(* least counterexample takes the place of induction.                      *)
LEMMA LeastOf ==
  ASSUME NEW S \in SUBSET Nat, S # {}
  PROVE  \E m \in S : \A n \in S : m <= n
<1> DEFINE Less == OpToRel(<, Nat)
<1>1. IsWellFoundedOn(Less, Nat)
  BY NatLessThanWellFounded
<1> HIDE DEF Less
<1>2. PICK m \in S : \A n \in S : <<n, m>> \notin Less
  BY <1>1, WFMin
<1>3. \A n \in S : n < m => <<n, m>> \in Less
  BY DEF Less, OpToRel
<1>4. \A n \in S : n \in Nat /\ m \in Nat
  OBVIOUS
<1>5. \A n \in S : ~(n < m)
  BY <1>2, <1>3
<1>6. \A n \in S : m <= n
  BY <1>4, <1>5
<1> QED
  BY <1>6

(* The running total of a sequence exists: where it would first fail to,   *)
(* it extends the one before.                                              *)
LEMMA TotalExists ==
  ASSUME NEW s, Len(s) \in Nat
  PROVE  \E f : f = [n \in 0..Len(s) |-> IF n = 0 THEN 0 ELSE f[n - 1] + s[n]]
<1> DEFINE Upto(k) == \E f : f = [n \in 0..k |-> IF n = 0 THEN 0 ELSE f[n - 1] + s[n]]
           Stuck == {k \in 0..Len(s) : ~Upto(k)}
<1>1. ASSUME Stuck # {} PROVE FALSE
  <2>1. Stuck \in SUBSET Nat
    OBVIOUS
  <2>2. PICK k \in Stuck : \A n \in Stuck : k <= n
    <3> HIDE DEF Stuck
    <3> QED
      BY <1>1, <2>1, LeastOf
  <2>3. CASE k = 0
    <3> DEFINE f == [n \in 0..0 |-> 0]
    <3>1. f = [n \in 0..0 |-> IF n = 0 THEN 0 ELSE f[n - 1] + s[n]]
      OBVIOUS
    <3> QED
      BY <2>2, <2>3, <3>1
  <2>4. CASE k # 0
    <3>1. k - 1 \in 0..Len(s) /\ k - 1 \notin Stuck
      BY <2>2, <2>4
    <3>2. PICK f : f = [n \in 0..(k - 1) |-> IF n = 0 THEN 0 ELSE f[n - 1] + s[n]]
      BY <3>1
    <3> DEFINE g == [n \in 0..k |-> IF n = k THEN f[k - 1] + s[k] ELSE f[n]]
    <3>3. \A n \in 0..k : g[n] = IF n = 0 THEN 0 ELSE g[n - 1] + s[n]
      <4> SUFFICES ASSUME NEW n \in 0..k
                   PROVE  g[n] = IF n = 0 THEN 0 ELSE g[n - 1] + s[n]
        OBVIOUS
      <4>1. CASE n = k
        BY <2>4, <4>1, <3>1
      <4>2. CASE n # k
        <5>1. n \in 0..(k - 1) /\ g[n] = f[n]
          BY <4>2, <3>1
        <5>2. f[n] = IF n = 0 THEN 0 ELSE f[n - 1] + s[n]
          BY <3>2, <5>1
        <5>3. n # 0 => n - 1 \in 0..k /\ n - 1 # k
          BY <5>1
        <5> QED
          BY <5>1, <5>2, <5>3
      <4> QED
        BY <4>1, <4>2
    <3>4. g = [n \in 0..k |-> IF n = 0 THEN 0 ELSE g[n - 1] + s[n]]
      <4>1. g = [n \in 0..k |-> g[n]]
        OBVIOUS
      <4> HIDE DEF g
      <4> QED
        BY <3>3, <4>1
    <3> HIDE DEF g
    <3> QED
      BY <2>2, <3>4
  <2> QED
    BY <2>3, <2>4
<1>2. Len(s) \notin Stuck
  BY <1>1
<1> QED
  BY <1>2

(* Any running total of a sequence gives its size: two of them agree       *)
(* before, and so at, the place where they would first differ.             *)
LEMMA BytesAre ==
  ASSUME NEW s, NEW f, Len(s) \in Nat,
         f = [n \in 0..Len(s) |-> IF n = 0 THEN 0 ELSE f[n - 1] + s[n]]
  PROVE  Bytes(s) = f[Len(s)]
<1> DEFINE upTo == CHOOSE g : g = [n \in 0..Len(s) |-> IF n = 0 THEN 0 ELSE g[n - 1] + s[n]]
<1>1. upTo = [n \in 0..Len(s) |-> IF n = 0 THEN 0 ELSE upTo[n - 1] + s[n]]
  OBVIOUS
<1>2. Bytes(s) = upTo[Len(s)]
  BY DEF Bytes
<1> HIDE DEF upTo
<1> DEFINE Differ == {n \in 0..Len(s) : upTo[n] # f[n]}
<1>3. ASSUME Differ # {} PROVE FALSE
  <2>1. Differ \in SUBSET Nat
    OBVIOUS
  <2>2. PICK m \in Differ : \A n \in Differ : m <= n
    <3> HIDE DEF Differ
    <3> QED
      BY <1>3, <2>1, LeastOf
  <2>3. m # 0
    BY <1>1
  <2>4. m - 1 \in 0..Len(s) /\ m - 1 \notin Differ
    BY <2>2, <2>3
  <2> QED
    BY <1>1, <2>2, <2>3, <2>4
<1> QED
  BY <1>2, <1>3

(* query_runner_mindsdb.py:120: an empty response weighs nothing.          *)
LEMMA BytesOfNone == Bytes(<<>>) = 0
<1>1. Len(<<>>) = 0
  BY EmptySeq
<1>2. PICK f : f = [n \in 0..Len(<<>>) |-> IF n = 0 THEN 0 ELSE f[n - 1] + <<>>[n]]
  BY <1>1, TotalExists
<1>3. Bytes(<<>>) = f[0]
  BY <1>1, <1>2, BytesAre
<1> QED
  BY <1>1, <1>2, <1>3

(* query_runner_mindsdb.py:146-151: one more row adds its size.            *)
LEMMA BytesGrow ==
  ASSUME NEW S, NEW s \in Seq(S), NEW e \in S
  PROVE  Bytes(Append(s, e)) = Bytes(s) + e
<1> DEFINE t == Append(s, e)
           k == Len(s)
<1>1. /\ k \in Nat /\ Len(t) = k + 1 /\ t[k + 1] = e
      /\ \A n \in 1..k : t[n] = s[n]
  BY LenProperties, AppendProperties
<1> HIDE DEF t, k
<1>2. PICK f : f = [n \in 0..Len(t) |-> IF n = 0 THEN 0 ELSE f[n - 1] + t[n]]
  <2>1. Len(t) \in Nat
    BY <1>1
  <2> QED
    BY <2>1, TotalExists
<1>3. Bytes(t) = f[k + 1] /\ f[k + 1] = f[k] + e
  <2>1. Bytes(t) = f[Len(t)]
    BY <1>1, <1>2, BytesAre
  <2> QED
    BY <1>1, <1>2, <2>1
<1> DEFINE g == [n \in 0..k |-> f[n]]
<1>4. \A n \in 0..k : f[n] = IF n = 0 THEN 0 ELSE f[n - 1] + s[n]
  BY <1>1, <1>2
<1>5. g = [n \in 0..k |-> IF n = 0 THEN 0 ELSE g[n - 1] + s[n]]
  <2>1. \A n \in 0..k : n # 0 => n - 1 \in 0..k
    BY <1>1
  <2> QED
    BY <1>4, <2>1
<1>6. Bytes(s) = g[k]
  <2> HIDE DEF g
  <2>1. g = [n \in 0..Len(s) |-> IF n = 0 THEN 0 ELSE g[n - 1] + s[n]] /\ Len(s) \in Nat
    BY <1>1, <1>5 DEF k
  <2> QED
    BY <2>1, BytesAre DEF k
<1>7. g[k] = f[k]
  BY <1>1
<1> QED
  BY <1>3, <1>6, <1>7 DEF t

----------------------------------------------------------------------------
(* The inductive invariant.                                                *)

(* Before the call nothing is spent and nothing is copied.                 *)
LEMMA CallInvInit == Init => CallInv
<1> SUFFICES ASSUME Init PROVE CallInv
  OBVIOUS
<1> USE DEF Init
<1>1. timeout \in 1..MaximumTimeout
  <2>1. PICK t \in TimeoutArgs : timeout = Clamp(t, DefaultTimeout, MaximumTimeout)
    OBVIOUS
  <2>2. t \in Nat \cup {Unset}
    BY LimitsAssumption
  <2>3. Clamp(t, DefaultTimeout, MaximumTimeout) \in 1..MaximumTimeout
    BY <2>2, ClampRange, LimitsAssumption
  <2> QED
    BY <2>1, <2>3
<1>2. cap \in 1..MaximumRows
  <2>1. PICK n \in RowArgs : cap = Clamp(n, DefaultRows, MaximumRows)
    OBVIOUS
  <2>2. n \in Nat \cup {Unset}
    BY LimitsAssumption
  <2>3. Clamp(n, DefaultRows, MaximumRows) \in 1..MaximumRows
    BY <2>2, ClampRange, LimitsAssumption
  <2> QED
    BY <2>1, <2>3
<1>3. TypeOK
  <2>1. 0 \in 0..MaximumTimeout /\ 0 \in 0..MaxChunks
    BY LimitsAssumption, AnswerAssumption
  <2>2. data \in Seq(RowBytes \cup {BadRow}) /\ rows \in Seq(RowBytes)
    BY EmptySeq
  <2> QED
    BY <1>1, <1>2, <2>1, <2>2 DEF TypeOK, Network
<1>4. Shape
  BY DEF Shape
<1>5. Budget
  BY <1>1, LimitsAssumption DEF Budget, Operations
<1>6. RowsWithinCaps
  BY <1>2, LimitsAssumption DEF RowsWithinCaps
<1>7. TruncationExact
  <2>1. SubSeq(data, 1, Len(rows)) = <<>>
    BY SubSeqEmpty
  <2> QED
    BY <2>1 DEF TruncationExact
<1>8. ResultHonest
  BY DEF ResultHonest
<1> QED
  BY <1>3, <1>4, <1>5, <1>6, <1>7, <1>8 DEF CallInv

(* The steps of the exchange leave the rows alone, so only the types, the  *)
(* shape, the budget and the reported status are at stake.                 *)
LEMMA RowVarsKept ==
  ASSUME RowsWithinCaps, TruncationExact, UNCHANGED <<callVars, rowVars>>,
         result' = "ok" => result = "ok"
  PROVE  RowsWithinCaps' /\ TruncationExact'
  BY DEF RowsWithinCaps, TruncationExact, OverCap, RowsLeft, Current,
         callVars, rowVars

(* Leaving the exchange, for the rows or for good, keeps the budget: more  *)
(* operations are charged and no time has passed.                          *)
LEMMA BudgetOnLeaving ==
  ASSUME TypeOK, Budget, phase \in Network \cup {"rows"}, phase' \in {"rows", "done"},
         UNCHANGED <<callVars, idle, elapsed, reads>>
  PROVE  Budget'
<1>0. timeout \in Nat /\ idle \in Nat /\ elapsed \in Nat /\ reads \in Nat
  BY LimitsAssumption, AnswerAssumption DEF TypeOK
<1>1. Operations - 1 \in Nat /\ Operations - 1 <= 2 + reads
  BY <1>0 DEF Operations, Network
<1>2. timeout * (Operations - 1) <= timeout * (2 + reads)
  BY <1>0, <1>1, TimesMono
<1>3. Operations' - 1 = 2 + reads
  BY <1>0 DEF Operations
<1>4. timeout * (Operations - 1) \in Nat /\ timeout * (2 + reads) \in Nat
  BY <1>0, <1>1
<1>5. elapsed <= timeout * (2 + reads) + idle
  BY <1>0, <1>2, <1>4 DEF Budget
<1>6. elapsed' <= timeout' * (Operations' - 1) + idle'
  BY <1>3, <1>5 DEF callVars
<1> QED
  BY <1>6 DEF Budget, callVars

(* Every step of the call keeps the invariant, one case per action.        *)
LEMMA CallInvStep == CallInv /\ [Next]_vars => CallInv'
<1> SUFFICES ASSUME CallInv, [Next]_vars PROVE CallInv'
  OBVIOUS
<1> USE DEF CallInv
<1> USE LimitsAssumption, AnswerAssumption
<1>0. /\ timeout \in Nat /\ idle \in Nat /\ elapsed \in Nat /\ reads \in Nat
      /\ cap \in Nat /\ MaximumTimeout \in Nat
  BY DEF TypeOK
<1>1. CASE Start
  <2>1. TypeOK'
    BY <1>1 DEF Start, TypeOK, Network, callVars, rowVars
  <2>2. Shape'
    BY <1>1 DEF Start, Shape, Network, callVars, rowVars
  <2>3. Budget'
    BY <1>0, <1>1 DEF Start, Budget, Operations, callVars
  <2>4. RowsWithinCaps' /\ TruncationExact'
    BY <1>1, RowVarsKept DEF Start
  <2>5. ResultHonest'
    BY <1>1 DEF Start, ResultHonest, Shape, callVars, rowVars
  <2> QED
    BY <2>1, <2>2, <2>3, <2>4, <2>5
<1>2. CASE Connected
  <2>1. TypeOK'
    BY <1>2 DEF Connected, TypeOK, Network, callVars, rowVars
  <2>2. Shape'
    BY <1>2 DEF Connected, Shape, Network, callVars, rowVars
  <2>3. Budget'
    BY <1>0, <1>2 DEF Connected, Budget, Operations, callVars
  <2>4. RowsWithinCaps' /\ TruncationExact'
    BY <1>2, RowVarsKept DEF Connected
  <2>5. ResultHonest'
    BY <1>2 DEF Connected, ResultHonest, Shape, callVars, rowVars
  <2> QED
    BY <2>1, <2>2, <2>3, <2>4, <2>5
<1>3. CASE Written
  <2>1. TypeOK'
    BY <1>3 DEF Written, TypeOK, Network, callVars, rowVars
  <2>2. Shape'
    BY <1>3 DEF Written, Shape, Network, callVars, rowVars
  <2>3. Budget'
    <3>1. elapsed <= timeout * 1 + timeout
      BY <1>0, <1>3 DEF Written, Budget, Operations
    <3>2. timeout * 1 + timeout <= timeout * (2 + reads)
      BY <1>0, TimesSucc, TimesMono
    <3> QED
      BY <1>0, <1>3, <3>1, <3>2 DEF Written, Budget, Operations, callVars
  <2>4. RowsWithinCaps' /\ TruncationExact'
    BY <1>3, RowVarsKept DEF Written
  <2>5. ResultHonest'
    BY <1>3 DEF Written, ResultHonest, Shape, callVars, rowVars
  <2> QED
    BY <2>1, <2>2, <2>3, <2>4, <2>5
<1>4. CASE ReadChunk
  <2>1. TypeOK'
    <3>1. elapsed' \in Nat /\ reads' \in 0..MaxChunks
      BY <1>0, <1>4 DEF ReadChunk, TypeOK, Budget
    <3> QED
      BY <1>0, <1>4, <3>1 DEF ReadChunk, TypeOK, Network, callVars, rowVars
  <2>2. Shape'
    BY <1>4 DEF ReadChunk, Shape, Network, callVars, rowVars
  <2>3. Budget'
    <3>1. elapsed <= timeout * (2 + reads) + idle /\ idle <= timeout
      BY <1>0, <1>4 DEF ReadChunk, Budget, Operations
    <3>2. timeout * (2 + reads) + timeout = timeout * (2 + (reads + 1))
      BY <1>0, TimesSucc
    <3>3. CASE reads' = reads + 1 /\ UNCHANGED elapsed
      <4>1. timeout * (2 + reads) \in Nat
        BY <1>0
      <4>2. elapsed <= timeout * (2 + (reads + 1))
        BY <1>0, <3>1, <3>2, <4>1
      <4> QED
        BY <1>0, <1>4, <3>3, <4>2 DEF ReadChunk, Budget, Operations, callVars
    <3>4. CASE elapsed' = elapsed - idle /\ UNCHANGED reads
      BY <1>0, <1>4, <3>1, <3>4 DEF ReadChunk, Budget, Operations, callVars
    <3> QED
      BY <1>4, <3>3, <3>4 DEF ReadChunk
  <2>4. RowsWithinCaps' /\ TruncationExact'
    BY <1>4, RowVarsKept DEF ReadChunk
  <2>5. ResultHonest'
    BY <1>4 DEF ReadChunk, ResultHonest, Shape, callVars, rowVars
  <2> QED
    BY <2>1, <2>2, <2>3, <2>4, <2>5
<1>5. CASE Tick
  <2>1. TypeOK'
    BY <1>5 DEF Tick, TypeOK, Network, callVars, rowVars
  <2>2. Shape'
    BY <1>5 DEF Tick, Shape, Network, callVars, rowVars
  <2>3. Budget'
    <3>1. Operations' = Operations
      BY <1>5 DEF Tick, Operations
    <3> QED
      BY <1>0, <1>5, <3>1 DEF Tick, Budget, Operations, callVars, Network
  <2>4. RowsWithinCaps' /\ TruncationExact'
    BY <1>5, RowVarsKept DEF Tick
  <2>5. ResultHonest'
    BY <1>5 DEF Tick, ResultHonest, Shape, Network, callVars, rowVars
  <2> QED
    BY <2>1, <2>2, <2>3, <2>4, <2>5
<1>6. CASE OperationTimeout
  <2>1. TypeOK'
    BY <1>6 DEF OperationTimeout, TypeOK, Network, callVars, rowVars
  <2>2. Shape'
    BY <1>6 DEF OperationTimeout, Shape, Network, callVars, rowVars
  <2>3. Budget'
    BY <1>6, BudgetOnLeaving DEF OperationTimeout
  <2>4. RowsWithinCaps' /\ TruncationExact'
    BY <1>6, RowVarsKept DEF OperationTimeout
  <2>5. ResultHonest'
    BY <1>6 DEF OperationTimeout, ResultHonest, Shape, Network, callVars, rowVars
  <2> QED
    BY <2>1, <2>2, <2>3, <2>4, <2>5
<1>7. CASE ExchangeFails
  <2>1. TypeOK'
    BY <1>7 DEF ExchangeFails, TypeOK, Network, callVars, rowVars
  <2>2. Shape'
    BY <1>7 DEF ExchangeFails, Shape, Network, callVars, rowVars
  <2>3. Budget'
    BY <1>7, BudgetOnLeaving DEF ExchangeFails
  <2>4. RowsWithinCaps' /\ TruncationExact'
    BY <1>7, RowVarsKept DEF ExchangeFails
  <2>5. ResultHonest'
    BY <1>7 DEF ExchangeFails, ResultHonest, Shape, Network, callVars, rowVars
  <2> QED
    BY <2>1, <2>2, <2>3, <2>4, <2>5
<1>8. CASE BackendFinishes
  <2>1. TypeOK'
    BY <1>8 DEF BackendFinishes, TypeOK, Network, callVars, rowVars
  <2>2. Shape'
    BY <1>8 DEF BackendFinishes, Shape, Network, callVars, rowVars
  <2>3. Budget'
    BY <1>8 DEF BackendFinishes, Budget, Operations, callVars
  <2>4. RowsWithinCaps' /\ TruncationExact'
    BY <1>8, RowVarsKept DEF BackendFinishes
  <2>5. ResultHonest'
    BY <1>8 DEF BackendFinishes, ResultHonest, callVars, rowVars
  <2> QED
    BY <2>1, <2>2, <2>3, <2>4, <2>5
<1>9. CASE AnswerIsError
  <2>1. TypeOK'
    BY <1>9 DEF AnswerIsError, TypeOK, Network, callVars, rowVars
  <2>2. Shape'
    BY <1>9 DEF AnswerIsError, Shape, Network, callVars, rowVars
  <2>3. Budget'
    BY <1>9, BudgetOnLeaving DEF AnswerIsError, Network
  <2>4. RowsWithinCaps' /\ TruncationExact'
    BY <1>9, RowVarsKept DEF AnswerIsError
  <2>5. ResultHonest'
    BY <1>9 DEF AnswerIsError, ResultHonest, Shape, Network, callVars, rowVars
  <2> QED
    BY <2>1, <2>2, <2>3, <2>4, <2>5
<1>10. CASE AnswerIsTable
  <2>0. PICK n \in 0..MaxAnswer : data' \in [1..n -> RowBytes \cup {BadRow}]
    BY <1>10 DEF AnswerIsTable
  <2>6. data' \in Seq(RowBytes \cup {BadRow})
    BY <2>0, SeqDef
  <2>7. rows = <<>> /\ rows' = <<>> /\ total' = 0 /\ ~truncated'
    BY <1>10 DEF AnswerIsTable, Shape, Network
  <2>1. TypeOK'
    BY <1>10, <2>6 DEF AnswerIsTable, TypeOK, callVars
  <2>2. Shape'
    BY <1>10, <2>7 DEF AnswerIsTable, Shape, Network
  <2>3. Budget'
    BY <1>10, BudgetOnLeaving DEF AnswerIsTable, Network
  <2>4. RowsWithinCaps' /\ TruncationExact'
    <3>1. Len(data') \in Nat
      BY <2>6, LenProperties
    <3>2. SubSeq(data', 1, 0) = <<>>
      BY SubSeqEmpty
    <3>3. result' # "ok"
      BY <1>10 DEF AnswerIsTable, Shape, Network
    <3>4. RowsWithinCaps'
      BY <1>0, <1>10, <2>7 DEF AnswerIsTable, RowsWithinCaps, callVars
    <3>5. TruncationExact'
      BY <2>7, <3>1, <3>2, <3>3 DEF TruncationExact
    <3> QED
      BY <3>4, <3>5
  <2>5. ResultHonest'
    BY <1>10 DEF AnswerIsTable, ResultHonest, Shape, Network
  <2> QED
    BY <2>1, <2>2, <2>3, <2>4, <2>5
<1>11. CASE RowFails
  <2>1. TypeOK'
    BY <1>11 DEF RowFails, TypeOK, Network, callVars, rowVars
  <2>2. Shape'
    BY <1>11 DEF RowFails, Shape, Network, callVars, rowVars
  <2>3. Budget'
    BY <1>11, BudgetOnLeaving DEF RowFails
  <2>4. RowsWithinCaps' /\ TruncationExact'
    BY <1>11, RowVarsKept DEF RowFails
  <2>5. ResultHonest'
    BY <1>11 DEF RowFails, ResultHonest, Shape, Network, callVars, rowVars
  <2> QED
    BY <2>1, <2>2, <2>3, <2>4, <2>5
<1>12. CASE RowDropped
  <2>1. TypeOK'
    BY <1>12 DEF RowDropped, TypeOK, Network, callVars, rowVars
  <2>2. Shape'
    BY <1>12 DEF RowDropped, Shape, Network, callVars, rowVars
  <2>3. Budget'
    BY <1>12, BudgetOnLeaving DEF RowDropped
  <2>4. RowsWithinCaps' /\ TruncationExact'
    <3>1. rows # data
      BY <1>12 DEF RowDropped, RowsLeft
    <3>2. RowsWithinCaps'
      BY <1>12 DEF RowDropped, RowsWithinCaps, callVars
    <3>3. TruncationExact'
      BY <1>12, <3>1 DEF RowDropped, TruncationExact, RowsLeft, OverCap, Current, callVars
    <3> QED
      BY <3>2, <3>3
  <2>5. ResultHonest'
    BY <1>12 DEF RowDropped, ResultHonest, Shape, Network, callVars, rowVars
  <2> QED
    BY <2>1, <2>2, <2>3, <2>4, <2>5
<1>13. CASE RowCopied
  <2> DEFINE n == Len(rows)
  <2>6. /\ data \in Seq(RowBytes \cup {BadRow}) /\ rows \in Seq(RowBytes)
        /\ n \in Nat /\ n < Len(data) /\ Len(data) \in Nat
    BY <1>13, LenProperties DEF RowCopied, RowsLeft, TypeOK
  <2>7. Current \in RowBytes /\ Current \in Nat
    <3>1. data[n + 1] \in RowBytes \cup {BadRow}
      BY <2>6, ElementOfSeq
    <3> QED
      BY <1>13, <3>1 DEF RowCopied, Current
  <2>8. /\ rows' = Append(rows, Current) /\ rows' \in Seq(RowBytes)
        /\ Len(rows') = n + 1
    BY <1>13, <2>6, <2>7, AppendProperties DEF RowCopied
  <2>9. total \in Nat /\ total' \in Nat /\ total' <= MaximumBytes /\ n < cap
    BY <1>0, <1>13, <2>6, <2>7 DEF RowCopied, TypeOK, OverCap
  <2>1. TypeOK'
    BY <1>13, <2>8, <2>9 DEF RowCopied, TypeOK, callVars
  <2>2. Shape'
    BY <1>13 DEF RowCopied, Shape, Network
  <2>3. Budget'
    BY <1>13 DEF RowCopied, Budget, Operations, callVars
  <2>4. RowsWithinCaps' /\ TruncationExact'
    <3>1. RowsWithinCaps'
      BY <1>0, <1>13, <2>6, <2>8, <2>9 DEF RowCopied, RowsWithinCaps, callVars
    <3>2. rows' = SubSeq(data, 1, n + 1)
      BY <2>6, <2>8, PrefixGrows DEF TruncationExact, Current
    <3>3. result' = "pending" /\ ~truncated' /\ data' = data
      BY <1>13 DEF RowCopied, Shape
    <3>4. TruncationExact'
      BY <2>6, <2>8, <3>2, <3>3 DEF TruncationExact
    <3> QED
      BY <3>1, <3>4
  <2>5. ResultHonest'
    BY <1>13 DEF RowCopied, ResultHonest, Shape
  <2> QED
    BY <2>1, <2>2, <2>3, <2>4, <2>5
<1>14. CASE RowsDone
  <2>1. TypeOK'
    BY <1>14 DEF RowsDone, TypeOK, Network, callVars, rowVars
  <2>2. Shape'
    BY <1>14 DEF RowsDone, Shape, Network, callVars, rowVars
  <2>3. Budget'
    BY <1>14, BudgetOnLeaving DEF RowsDone
  <2>4. RowsWithinCaps' /\ TruncationExact'
    <3>1. Len(rows) \in Nat /\ Len(data) \in Nat
      BY LenProperties DEF TypeOK
    <3>2. SubSeq(data, 1, Len(data)) = data
      BY SubSeqFull DEF TypeOK
    <3>3. rows = data
      BY <1>14, <3>1, <3>2 DEF RowsDone, RowsLeft, TruncationExact
    <3>4. RowsWithinCaps'
      BY <1>14 DEF RowsDone, RowsWithinCaps, callVars, rowVars
    <3>5. TruncationExact'
      BY <1>14, <3>3 DEF RowsDone, TruncationExact, Shape, rowVars
    <3> QED
      BY <3>4, <3>5
  <2>5. ResultHonest'
    BY <1>14 DEF RowsDone, ResultHonest, Shape, Network, callVars, rowVars
  <2> QED
    BY <2>1, <2>2, <2>3, <2>4, <2>5
<1>15. CASE UNCHANGED vars
  BY <1>15 DEF vars, TypeOK, Shape, Budget, Operations, RowsWithinCaps,
     TruncationExact, RowsLeft, OverCap, Current, ResultHonest
<1> QED
  BY <1>1, <1>2, <1>3, <1>4, <1>5, <1>6, <1>7, <1>8, <1>9, <1>10, <1>11,
     <1>12, <1>13, <1>14, <1>15 DEF Next

(* query_runner_mindsdb.py:99-158: the inductive invariant of one call, for*)
(* every limit, answer and number of chunks.                               *)
THEOREM CallInvariant == Spec => []CallInv
  BY CallInvInit, CallInvStep, PTL DEF Spec

----------------------------------------------------------------------------
(* The properties of the runs.                                             *)

(* Every variable of the call has its type; in particular the applied      *)
(* limits stay within the configured maxima.                               *)
THEOREM CallTypes == Spec => []TypeOK
  BY CallInvariant, PTL DEF CallInv

(* query_runner_mindsdb.py:144-152: no answer, however large, makes the    *)
(* response exceed the row cap or the byte cap.                            *)
THEOREM CallRowsWithinCaps == Spec => []RowsWithinCaps
  BY CallInvariant, PTL DEF CallInv

(* total_bytes is what the copied rows weigh: the cap is tested against    *)
(* the running total and holds of the rows only because the two agree.     *)
Counted == total = Bytes(rows)

(* query_runner_mindsdb.py:146-151: only copying a row changes the rows or *)
(* the total, and it adds the row's size to both.                          *)
LEMMA CountedStep == CallInv /\ Counted /\ [Next]_vars => Counted'
<1> SUFFICES ASSUME CallInv, Counted, [Next]_vars PROVE Counted'
  OBVIOUS
<1>1. CASE RowCopied
  <2>1. /\ data \in Seq(RowBytes \cup {BadRow}) /\ rows \in Seq(RowBytes)
        /\ Len(rows) + 1 \in 1..Len(data)
    BY <1>1, LenProperties DEF RowCopied, RowsLeft, CallInv, TypeOK
  <2>2. Current \in RowBytes
    <3>1. data[Len(rows) + 1] \in RowBytes \cup {BadRow}
      BY <2>1, ElementOfSeq
    <3> QED
      BY <1>1, <3>1 DEF RowCopied, Current
  <2>3. Bytes(Append(rows, Current)) = Bytes(rows) + Current
    BY <2>1, <2>2, BytesGrow
  <2> QED
    BY <1>1, <2>3 DEF Counted, RowCopied
<1>2. CASE ~RowCopied
  <2>1. UNCHANGED <<rows, total>>
    BY <1>2 DEF Next, vars, rowVars, Start, Connected, Written, ReadChunk, Tick,
       OperationTimeout, ExchangeFails, BackendFinishes, AnswerIsError,
       AnswerIsTable, RowFails, RowDropped, RowsDone
  <2> QED
    BY <2>1 DEF Counted
<1> QED
  BY <1>1, <1>2

(* query_runner_mindsdb.py:146-152: the rows of a response never weigh     *)
(* more than maximum_response_bytes, counted row by row.                   *)
THEOREM CallResponseBytes == Spec => []ResponseBytesWithinCap
<1>1. Init => Counted
  BY BytesOfNone DEF Init, Counted
<1>2. CallInv /\ Counted => ResponseBytesWithinCap
  BY DEF CallInv, Counted, RowsWithinCaps, ResponseBytesWithinCap
<1> QED
  BY <1>1, <1>2, CountedStep, CallInvariant, PTL DEF Spec

(* query_runner_mindsdb.py:139-152: the response is a prefix of the        *)
(* answer and its truncated flag is exact.                                 *)
THEOREM CallTruncationExact == Spec => []TruncationExact
  BY CallInvariant, PTL DEF CallInv

(* query_runner_mindsdb.py:153-158: the reported status is honest.         *)
THEOREM CallResultHonest == Spec => []ResultHonest
  BY CallInvariant, PTL DEF CallInv

(* query_runner_mindsdb.py:123: the time the call takes is bounded by the  *)
(* timeout per network operation, for any number of chunks.                *)
THEOREM CallElapsed == Spec => []ElapsedPerOperation
<1>1. CallInv => ElapsedPerOperation
  <2> SUFFICES ASSUME CallInv PROVE ElapsedPerOperation
    OBVIOUS
  <2>1. timeout \in Nat /\ idle \in Nat /\ elapsed \in Nat /\ reads \in Nat
    BY LimitsAssumption, AnswerAssumption DEF CallInv, TypeOK
  <2>2. Operations - 1 \in Nat
    BY <2>1 DEF Operations, CallInv, TypeOK, Network
  <2>3. timeout * ((Operations - 1) + 1) = timeout * (Operations - 1) + timeout
    BY <2>1, <2>2, TimesSucc
  <2>4. (Operations - 1) + 1 = Operations
    BY <2>1 DEF Operations
  <2>5. timeout * (Operations - 1) \in Nat
    BY <2>1, <2>2
  <2>6. elapsed <= timeout * (Operations - 1) + idle /\ idle <= timeout
    BY DEF CallInv, Budget
  <2>7. elapsed <= timeout * (Operations - 1) + timeout
    BY <2>1, <2>5, <2>6
  <2> QED
    BY <2>3, <2>4, <2>7 DEF ElapsedPerOperation
<1> QED
  BY <1>1, CallInvariant, PTL
============================================================================
