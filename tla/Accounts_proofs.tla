--------------------------- MODULE Accounts_proofs ---------------------------
(***************************************************************************)
(* Proofs about the smart accounts of the three chains, for any keys,      *)
(* permissions, calls, fees, limits, scopes and token extensions, without  *)
(* a bound on effects or wealth: the EVM account and its factory, the      *)
(* Solana vaults with their revenue vault, the call of a game, and the     *)
(* Stellar contracts.                                                      *)
(***************************************************************************)
EXTENDS MCAccounts, FiniteSetTheorems, WellFoundedInduction, TLAPS

---------------------------------------------------------------------------
\* Sums

\* A set of natural numbers has a least element; the lemmas about sums apply
\* it to the set of lengths at which they would fail.
LEMMA LeastNumber ==
    ASSUME NEW S \in SUBSET Nat, S # {}
    PROVE  \E x \in S : \A y \in S : x <= y
<1>1. IsWellFoundedOn(OpToRel(<, Nat), Nat)
  BY NatLessThanWellFounded
<1>2. PICK x \in S : \A y \in S : ~(<<y, x>> \in OpToRel(<, Nat))
  BY <1>1, WFMin
<1>3. \A y \in S : ~(y < x)
  BY <1>2 DEF OpToRel
<1> QED BY <1>3

\* f is the running total of the first n elements of s.
Running(s, n, f) ==
    /\ f \in [0..n -> Nat] /\ f[0] = 0
    /\ \A k \in 1..n : f[k] = f[k - 1] + s[k]

LEMMA RunningExists ==
    ASSUME NEW s \in Seq(Nat)
    PROVE  \E f : Running(s, Len(s), f)
<1> DEFINE bad == {n \in Nat : n <= Len(s) /\ ~\E f : Running(s, n, f)}
<1>1. Len(s) \in Nat
  OBVIOUS
<1> SUFFICES bad = {}
  BY <1>1
<1> SUFFICES ASSUME bad # {} PROVE FALSE
  OBVIOUS
<1>2. PICK n \in bad : \A m \in bad : n <= m
  BY LeastNumber
<1>3. n # 0
  <2>1. Running(s, 0, [k \in 0..0 |-> 0])
    BY DEF Running
  <2> QED BY <1>2, <2>1
<1>4. n \in Nat /\ n - 1 \in Nat /\ n - 1 <= Len(s) /\ n - 1 \notin bad /\ n \in 1..Len(s)
  <2>1. n \in Nat /\ n <= Len(s) /\ n - 1 \in Nat /\ n \in 1..Len(s) /\ n - 1 < n
    BY <1>1, <1>2, <1>3
  <2>2. n - 1 \notin bad
    <3> HIDE DEF bad
    <3> QED BY <1>2, <2>1
  <2> QED BY <1>1, <2>1, <2>2
<1>5. PICK f : Running(s, n - 1, f)
  BY <1>4
<1> DEFINE g == [k \in 0..n |-> IF k = n THEN f[n - 1] + s[n] ELSE f[k]]
<1>6. s[n] \in Nat /\ f[n - 1] \in Nat /\ f[n - 1] + s[n] \in Nat
  BY <1>4, <1>5 DEF Running
<1>7. \A k \in 0..n : k # n => k \in 0..(n - 1)
  BY <1>4
<1>8. \A k \in 0..(n - 1) : f[k] \in Nat
  BY <1>5 DEF Running
<1>9. g \in [0..n -> Nat]
  BY <1>6, <1>7, <1>8
<1>10. g[0] = 0
  BY <1>3, <1>4, <1>5 DEF Running
<1>11. ASSUME NEW k \in 1..n PROVE g[k] = g[k - 1] + s[k]
  <2>1. k \in 0..n /\ k - 1 \in 0..n /\ k - 1 # n
    BY <1>4
  <2>2. g[k - 1] = f[k - 1]
    BY <2>1
  <2>3. CASE k = n
    BY <2>1, <2>2, <2>3
  <2>4. CASE k # n
    <3>1. k \in 1..(n - 1) /\ g[k] = f[k]
      BY <1>4, <2>1, <2>4
    <3> QED BY <1>5, <2>2, <3>1 DEF Running
  <2> QED BY <2>3, <2>4
<1> HIDE DEF g
<1>12. Running(s, n, g)
  BY <1>9, <1>10, <1>11 DEF Running
<1> QED BY <1>2, <1>12

\* Two running totals agree as far as the sequences do.
LEMMA RunningAgree ==
    ASSUME NEW s, NEW t, NEW f, NEW g, NEW n \in Nat, NEW m \in Nat, n <= m,
           Running(s, n, f), Running(t, m, g), \A k \in 1..n : s[k] = t[k]
    PROVE  \A k \in 0..n : f[k] = g[k]
<1> DEFINE bad == {k \in Nat : k <= n /\ f[k] # g[k]}
<1> SUFFICES ASSUME bad # {} PROVE FALSE
  OBVIOUS
<1>1. PICK k \in bad : \A j \in bad : k <= j
  BY LeastNumber
<1>2. k # 0
  BY <1>1 DEF Running
<1>3. k \in 1..n /\ k - 1 \in Nat /\ k - 1 <= n /\ k - 1 \notin bad
  BY <1>1, <1>2
<1>4. f[k - 1] = g[k - 1] /\ s[k] = t[k] /\ k \in 1..n /\ k \in 1..m
  BY <1>3
<1>5. f[k] = f[k - 1] + s[k] /\ g[k] = g[k - 1] + t[k]
  BY <1>4 DEF Running
<1> QED BY <1>1, <1>4, <1>5

\* SumSeq is the last running total.
LEMMA SumIsRunning ==
    ASSUME NEW s \in Seq(Nat), NEW f, Running(s, Len(s), f)
    PROVE  SumSeq(s) = f[Len(s)] /\ SumSeq(s) \in Nat
<1> DEFINE sum == CHOOSE g : g = [k \in 0..Len(s) |-> IF k = 0 THEN 0 ELSE g[k - 1] + s[k]]
<1>0. Len(s) \in Nat
  OBVIOUS
<1>1. f = [k \in 0..Len(s) |-> IF k = 0 THEN 0 ELSE f[k - 1] + s[k]]
  <2>1. f \in [0..Len(s) -> Nat] /\ \A k \in 0..Len(s) : f[k] = IF k = 0 THEN 0 ELSE f[k - 1] + s[k]
    BY <1>0 DEF Running
  <2> QED BY <2>1
<1>2. sum = [k \in 0..Len(s) |-> IF k = 0 THEN 0 ELSE sum[k - 1] + s[k]]
  BY <1>1, Zenon
<1>3. SumSeq(s) = sum[Len(s)]
  BY Zenon DEF SumSeq
<1> HIDE DEF sum
<1> DEFINE bad == {k \in Nat : k <= Len(s) /\ sum[k] # f[k]}
<1>4. bad = {}
  <2> SUFFICES ASSUME bad # {} PROVE FALSE
    OBVIOUS
  <2>1. PICK k \in bad : \A j \in bad : k <= j
    BY LeastNumber
  <2>2. sum[0] = 0 /\ f[0] = 0
    BY <1>0, <1>2 DEF Running
  <2>3. k \in 1..Len(s) /\ k - 1 \in Nat /\ k - 1 <= Len(s) /\ k - 1 \notin bad
    BY <2>1, <2>2
  <2>4. sum[k - 1] = f[k - 1]
    BY <2>3
  <2>5. sum[k] = sum[k - 1] + s[k]
    <3>1. k \in 0..Len(s) /\ k # 0
      BY <2>3
    <3> QED BY <1>2, <3>1
  <2>6. f[k] = f[k - 1] + s[k]
    BY <2>3 DEF Running
  <2> QED BY <2>1, <2>4, <2>5, <2>6
<1>5. sum[Len(s)] = f[Len(s)]
  BY <1>0, <1>4
<1>6. f[Len(s)] \in Nat
  BY <1>0 DEF Running
<1> QED BY <1>3, <1>5, <1>6

LEMMA SumType == ASSUME NEW s \in Seq(Nat) PROVE SumSeq(s) \in Nat
BY RunningExists, SumIsRunning

LEMMA SumAppend ==
    ASSUME NEW s \in Seq(Nat), NEW x \in Nat
    PROVE  SumSeq(Append(s, x)) = SumSeq(s) + x
<1> DEFINE t == Append(s, x)
<1>1. t \in Seq(Nat) /\ Len(t) = Len(s) + 1 /\ Len(s) \in Nat /\ Len(t) \in Nat
      /\ t[Len(t)] = x /\ \A k \in 1..Len(s) : t[k] = s[k]
  OBVIOUS
<1> HIDE DEF t
<1>2. PICK f : Running(s, Len(s), f)
  BY RunningExists
<1>3. PICK g : Running(t, Len(t), g)
  BY <1>1, RunningExists
<1>4. f[Len(s)] = g[Len(s)]
  <2>1. PICK n \in Nat, m \in Nat : n = Len(s) /\ m = Len(t)
    BY <1>1
  <2>2. n <= m /\ (\A k \in 1..n : s[k] = t[k]) /\ Running(s, n, f) /\ Running(t, m, g)
    BY <1>1, <1>2, <1>3, <2>1
  <2>3. \A k \in 0..n : f[k] = g[k]
    BY <2>2, RunningAgree
  <2> QED BY <2>1, <2>3
<1>5. Len(t) \in 1..Len(t) /\ Len(t) - 1 = Len(s)
  BY <1>1
<1>6. g[Len(t)] = g[Len(s)] + x
  BY <1>1, <1>3, <1>5 DEF Running
<1>7. SumSeq(s) = f[Len(s)] /\ SumSeq(t) = g[Len(t)]
  BY <1>1, <1>2, <1>3, SumIsRunning
<1> QED BY <1>4, <1>6, <1>7 DEF t

\* The first element and the rest.
LEMMA SumSplit ==
    ASSUME NEW s \in Seq(Nat), s # <<>>
    PROVE  SumSeq(s) = Head(s) + SumSeq(Tail(s)) /\ Head(s) \in Nat /\ Tail(s) \in Seq(Nat)
<1> DEFINE t == Tail(s)
<1>1. t \in Seq(Nat) /\ Len(t) = Len(s) - 1 /\ Len(s) \in Nat /\ Len(t) \in Nat /\ Len(s) >= 1
      /\ s[1] = Head(s) /\ s[1] \in Nat /\ \A k \in 1..Len(t) : t[k] = s[k + 1]
  OBVIOUS
<1> HIDE DEF t
<1>2. PICK f : Running(s, Len(s), f)
  BY RunningExists
<1>3. PICK g : Running(t, Len(t), g)
  BY <1>1, RunningExists
<1> DEFINE bad == {k \in Nat : k <= Len(t) /\ f[k + 1] # s[1] + g[k]}
<1>4. bad = {}
  <2> SUFFICES ASSUME bad # {} PROVE FALSE
    OBVIOUS
  <2>1. PICK k \in bad : \A j \in bad : k <= j
    BY LeastNumber
  <2>2. 1 \in 1..Len(s) /\ f[0] = 0 /\ g[0] = 0
    BY <1>1, <1>2, <1>3 DEF Running
  <2>3. f[1] = s[1] + g[0]
    <3>1. f[1] = f[1 - 1] + s[1]
      BY <1>2, <2>2 DEF Running
    <3> QED BY <1>1, <2>2, <3>1
  <2>4. k \in 1..Len(t) /\ k - 1 \in Nat /\ k - 1 <= Len(t) /\ k - 1 \notin bad /\ k + 1 \in 1..Len(s)
    BY <1>1, <2>1, <2>3
  <2>5. f[(k - 1) + 1] = s[1] + g[k - 1]
    BY <2>4
  <2>6. f[k] = s[1] + g[k - 1]
    BY <2>4, <2>5
  <2>7. f[k + 1] = f[k] + s[k + 1]
    <3>1. f[k + 1] = f[(k + 1) - 1] + s[k + 1]
      BY <1>2, <2>4 DEF Running
    <3>2. (k + 1) - 1 = k
      BY <2>4
    <3> QED BY <3>1, <3>2
  <2>8. g[k] = g[k - 1] + t[k] /\ t[k] = s[k + 1]
    BY <1>1, <1>3, <2>4 DEF Running
  <2>9. g[k - 1] \in Nat
    <3>1. g \in [0..Len(t) -> Nat]
      BY <1>3 DEF Running
    <3>2. k - 1 \in 0..Len(t)
      BY <1>1, <2>4
    <3> QED BY <3>1, <3>2
  <2>10. s[k + 1] \in Nat
    BY <2>4
  <2>11. f[k + 1] = s[1] + g[k]
    BY <1>1, <2>6, <2>7, <2>8, <2>9, <2>10
  <2> QED BY <2>1, <2>11
<1>5. f[Len(t) + 1] = s[1] + g[Len(t)]
  <2>1. \A k \in Nat : k <= Len(t) => f[k + 1] = s[1] + g[k]
    BY <1>4
  <2> HIDE DEF bad
  <2> QED BY <1>1, <2>1
<1> HIDE DEF bad
<1>6. SumSeq(s) = f[Len(s)]
  BY <1>2, SumIsRunning
<1>7. SumSeq(t) = g[Len(t)]
  BY <1>1, <1>3, SumIsRunning
<1>8. Len(s) = Len(t) + 1
  BY <1>1
<1> QED BY <1>1, <1>5, <1>6, <1>7, <1>8 DEF t

\* Calls without value cost nothing.
LEMMA SumOfNothing ==
    ASSUME NEW s \in Seq(Nat), \A k \in 1..Len(s) : s[k] = 0
    PROVE  SumSeq(s) = 0
<1> DEFINE f == [k \in 0..Len(s) |-> 0]
<1>1. Running(s, Len(s), f) /\ f[Len(s)] = 0
  BY DEF Running
<1> HIDE DEF f
<1> QED BY <1>1, SumIsRunning

LEMMA OneFrame ==
    ASSUME NEW S, NEW s \in Seq(S), s # <<>>, Len(s) <= 1
    PROVE  Len(s) = 1 /\ s[1] \in S
<1>1. Len(s) = 0 => s = <<>>
  OBVIOUS
<1>2. \A n \in Nat : n <= 1 => n = 0 \/ n = 1
  OBVIOUS
<1>3. Len(s) \in Nat
  OBVIOUS
<1>4. Len(s) = 0 \/ Len(s) = 1
  BY <1>2, <1>3
<1>5. Len(s) = 1
  BY <1>1, <1>4
<1> QED BY <1>5

\* What is left of a balance covers what is left to pay.
LEMMA LeftOver ==
    ASSUME NEW had \in Nat, NEW paid \in Nat, NEW all \in Nat, NEW fee \in Nat, NEW due \in Nat,
           NEW rest \in Nat, NEW left \in Nat, had >= all + fee + due, all + due = paid + rest + left
    PROVE  had - paid >= rest + fee + left
<1> DEFINE out == all + due
           kept == rest + left
<1>1. out \in Nat /\ kept \in Nat /\ out = paid + kept /\ had >= out + fee
  OBVIOUS
<1>2. rest + fee + left = kept + fee
  OBVIOUS
<1> HIDE DEF out, kept
<1>3. had - paid >= kept + fee
  BY <1>1
<1> QED BY <1>2, <1>3

---------------------------------------------------------------------------
\* The log

USE EvmConstants

\* How many of the first k effects are rotations.
Turns(log, k) == Cardinality({m \in 1..k : log[m].op = "rotate"})

LEMMA TurnsAreFinite ==
    ASSUME NEW log, NEW k \in Nat
    PROVE  IsFiniteSet({m \in 1..k : log[m].op = "rotate"}) /\ Turns(log, k) \in Nat
<1>1. IsFiniteSet(1..k)
  BY FS_Interval
<1>2. IsFiniteSet({m \in 1..k : log[m].op = "rotate"})
  BY <1>1, FS_Subset
<1> QED BY <1>2, FS_CardinalityType DEF Turns

LEMMA TurnsGrow ==
    ASSUME NEW log, NEW i \in Nat, NEW k \in Nat, i <= k
    PROVE  /\ Turns(log, i) <= Turns(log, k)
           /\ i < k /\ log[k].op = "rotate" => Turns(log, i) < Turns(log, k)
<1> DEFINE A == {m \in 1..i : log[m].op = "rotate"}
           B == {m \in 1..k : log[m].op = "rotate"}
<1>1. IsFiniteSet(A) /\ IsFiniteSet(B) /\ Turns(log, i) = Cardinality(A) /\ Turns(log, k) = Cardinality(B)
      /\ Turns(log, i) \in Nat /\ Turns(log, k) \in Nat
  BY TurnsAreFinite DEF Turns
<1>2. A \subseteq B
  OBVIOUS
<1>3. i < k /\ log[k].op = "rotate" => k \in B /\ k \notin A
  OBVIOUS
<1> HIDE DEF A, B
<1>4. Cardinality(A) <= Cardinality(B)
  BY <1>1, <1>2, FS_Subset
<1>5. ASSUME k \in B, k \notin A PROVE Cardinality(A) < Cardinality(B)
  <2>1. A # B
    BY <1>5
  <2>2. Cardinality(A) = Cardinality(B) => A = B
    BY <1>1, <1>2, FS_Subset
  <2> QED BY <1>1, <1>4, <2>1, <2>2
<1> QED BY <1>1, <1>3, <1>4, <1>5

LEMMA TurnsAppend ==
    ASSUME NEW log \in Seq(EffectType), NEW e \in EffectType
    PROVE  /\ \A k \in 0..Len(log) : Turns(Append(log, e), k) = Turns(log, k)
           /\ e.op # "rotate" => Turns(Append(log, e), Len(log) + 1) = Turns(log, Len(log))
           /\ e.op = "rotate" => Turns(Append(log, e), Len(log) + 1) = Turns(log, Len(log)) + 1
<1> DEFINE new == Append(log, e)
           n == Len(log)
           A == {m \in 1..n : log[m].op = "rotate"}
           B == {m \in 1..(n + 1) : new[m].op = "rotate"}
<1>1. n \in Nat /\ new[n + 1] = e /\ \A m \in 1..n : new[m] = log[m]
  OBVIOUS
<1> HIDE DEF new
<1>2. ASSUME NEW k \in 0..n PROVE Turns(new, k) = Turns(log, k)
  <2>1. \A m \in 1..k : new[m] = log[m]
    BY <1>1
  <2>2. {m \in 1..k : new[m].op = "rotate"} = {m \in 1..k : log[m].op = "rotate"}
    BY <2>1
  <2> QED BY <2>2 DEF Turns
<1>3. e.op # "rotate" => B = A
  BY <1>1
<1>4. e.op = "rotate" => B = A \cup {n + 1}
  BY <1>1
<1>5. n + 1 \notin A /\ IsFiniteSet(A)
  <2>1. n + 1 \notin A
    BY <1>1
  <2>2. IsFiniteSet(A)
    BY <1>1, TurnsAreFinite, Zenon
  <2> QED BY <2>1, <2>2
<1> HIDE DEF A, B
<1>6. Cardinality(A \cup {n + 1}) = Cardinality(A) + 1
  BY <1>5, FS_AddElement
<1>7. Turns(log, n) = Cardinality(A) /\ Turns(new, n + 1) = Cardinality(B)
  BY DEF Turns, A, B
<1> QED BY <1>2, <1>3, <1>4, <1>6, <1>7 DEF new

\* What an effect counts towards the fees of permission p under version 2.
Cost(e, p) == IF e.op = "session" /\ e.perm = p /\ e.version \in {2} THEN e.fee ELSE 0

LEMMA FeesAppend ==
    ASSUME NEW log \in Seq(EffectType), NEW e \in EffectType, NEW p
    PROVE  SessionFees(Append(log, e), p, {2}) = SessionFees(log, p, {2}) + Cost(e, p)
<1> DEFINE new == Append(log, e)
           old == [k \in 1..Len(log) |-> Cost(log[k], p)]
           all == [k \in 1..Len(new) |-> Cost(new[k], p)]
<1>0. \A x \in EffectType : Cost(x, p) \in Nat
  BY DEF EffectType, Cost
<1>1. Len(log) \in Nat /\ Len(new) = Len(log) + 1 /\ new[Len(new)] = e
      /\ (\A k \in 1..Len(log) : new[k] = log[k] /\ log[k] \in EffectType)
  OBVIOUS
<1> HIDE DEF new
<1>2. old \in Seq(Nat) /\ Len(old) = Len(log)
  BY <1>0, <1>1
<1>3. all = Append(old, Cost(e, p))
  <2>1. DOMAIN Append(old, Cost(e, p)) = 1..(Len(log) + 1) /\ DOMAIN all = 1..(Len(log) + 1)
    BY <1>1, <1>2
  <2>2. \A k \in 1..(Len(log) + 1) : all[k] = Append(old, Cost(e, p))[k]
    BY <1>1, <1>2
  <2> DEFINE one == Append(old, Cost(e, p))
  <2>3. one \in Seq(Nat) /\ Len(one) = Len(log) + 1
    BY <1>0, <1>1, <1>2
  <2>4. one = [k \in 1..Len(one) |-> one[k]]
    BY <2>3
  <2>5. all = [k \in 1..(Len(log) + 1) |-> all[k]]
    BY <1>1
  <2> HIDE DEF one, all
  <2> QED BY <2>2, <2>3, <2>4, <2>5 DEF one
<1>4. SessionFees(log, p, {2}) = SumSeq(old) /\ SessionFees(new, p, {2}) = SumSeq(all)
  BY Zenon DEF SessionFees, Cost
<1> HIDE DEF old, all
<1>5. SumSeq(Append(old, Cost(e, p))) = SumSeq(old) + Cost(e, p)
  BY <1>0, <1>2, SumAppend
<1> QED BY <1>3, <1>4, <1>5 DEF new

LEMMA FeesOfNothing == ASSUME NEW p PROVE SessionFees(<<>>, p, {2}) = 0
<1> DEFINE none == [k \in 1..Len(<<>>) |-> Cost(<<>>[k], p)]
<1>1. none \in Seq(Nat) /\ \A k \in 1..Len(none) : none[k] = 0
  OBVIOUS
<1>2. SessionFees(<<>>, p, {2}) = SumSeq(none)
  BY Zenon DEF SessionFees, Cost
<1> HIDE DEF none
<1> QED BY <1>1, <1>2, SumOfNothing

---------------------------------------------------------------------------
\* What the log says of the storage

\* Each nonce and each sequence number stands for one effect, and the owner's
\* are below the current nonce.
SpentTrue(nonce, log) ==
    /\ \A i \in 1..Len(log) : log[i].op # "session" => log[i].n < nonce
    /\ \A i, j \in 1..Len(log) :
         /\ log[i].op = "session" /\ log[j].op = "session" /\ log[i].perm = log[j].perm
               /\ log[i].n = log[j].n => i = j
         /\ log[i].op # "session" /\ log[j].op # "session" /\ log[i].n = log[j].n => i = j

\* The generation counts the rotations until it saturates.
GenTrue(kind, gen, log) ==
    kind = "single" => gen = IF Turns(log, Len(log)) < MaxGen THEN Turns(log, Len(log)) ELSE MaxGen

\* Effect i granted p: it was not revoked since unless g says so, and g is of
\* a generation reached by then.
Granting(kind, g, p, log, i) ==
    /\ log[i].op = "grant" /\ log[i].perm = p
    /\ \A k \in i..Len(log) : log[k].op = "revoke" /\ log[k].perm = p => g.revoked
    /\ kind = "single" => g.gen <= Turns(log, i)

\* The grant g of permission p accounts for the sessions in the log.
GrantTrue(kind, g, p, log) ==
    /\ g.granted \/ g = NoGrant
    /\ SessionFees(log, p, {2}) = g.spent /\ g.spent <= g.limit
    /\ \A i \in 1..Len(log) : log[i].op = "session" /\ log[i].perm = p => log[i].n < g.seq
    /\ g.granted => \E i \in 1..Len(log) : Granting(kind, g, p, log, i)

\* A session acts on a grant neither revoked nor rotated away from.
EndTrue(kind, log) ==
    \A j \in 1..Len(log) : log[j].op = "session" =>
        \E i \in 1..j :
            /\ log[i].op = "grant" /\ log[i].perm = log[j].perm
            /\ \A k \in i..j :
                  /\ ~(log[k].op = "revoke" /\ log[k].perm = log[j].perm)
                  /\ kind = "single" /\ log[k].op = "rotate" => ~(Turns(log, k) <= MaxGen)

\* p was granted, and neither revoked nor rotated away from since.
Live(kind, p, log) ==
    \E i \in 1..Len(log) :
        /\ log[i].op = "grant" /\ log[i].perm = p
        /\ \A k \in i..Len(log) :
              /\ ~(log[k].op = "revoke" /\ log[k].perm = p)
              /\ kind = "single" /\ log[k].op = "rotate" => ~(Turns(log, k) <= MaxGen)

LEMMA SpentKept ==
    ASSUME NEW nonce \in Nat, NEW new \in Nat, nonce <= new, NEW log \in Seq(EffectType), NEW e \in EffectType,
           SpentTrue(nonce, log),
           \/ e.op # "session" /\ e.n = nonce /\ new = nonce + 1
           \/ /\ e.op = "session"
              /\ \A i \in 1..Len(log) : log[i].op = "session" /\ log[i].perm = e.perm => log[i].n < e.n
    PROVE  SpentTrue(new, Append(log, e))
<1> DEFINE all == Append(log, e)
<1>1. Len(all) = Len(log) + 1 /\ all[Len(log) + 1] = e /\ Len(log) \in Nat
      /\ \A i \in 1..Len(log) : all[i] = log[i] /\ log[i] \in EffectType
  OBVIOUS
<1>2. \A i \in 1..Len(all) : i = Len(log) + 1 \/ i \in 1..Len(log)
  BY <1>1
<1> HIDE DEF all
<1>3. \A x \in EffectType : x.n \in Nat
  BY DEF EffectType
<1>4. ASSUME NEW i \in 1..Len(all), all[i].op # "session" PROVE all[i].n < new
  <2>1. CASE i = Len(log) + 1
    BY <1>1, <1>4, <2>1
  <2>2. CASE i \in 1..Len(log)
    <3>1. log[i].n < nonce /\ log[i].n \in Nat
      BY <1>1, <1>3, <1>4, <2>2 DEF SpentTrue
    <3> QED BY <1>1, <2>2, <3>1
  <2> QED BY <1>2, <2>1, <2>2
<1>5. ASSUME NEW i \in 1..Len(log), all[i].op = "session", e.op = "session", all[i].perm = e.perm
      PROVE  all[i].n # e.n
  <2>1. log[i].n < e.n /\ log[i].n \in Nat /\ e.n \in Nat
    BY <1>1, <1>3, <1>5
  <2> QED BY <1>1, <2>1
<1>6. ASSUME NEW i \in 1..Len(log), all[i].op # "session", e.op # "session"
      PROVE  all[i].n # e.n
  <2>1. log[i].n < e.n /\ log[i].n \in Nat /\ e.n \in Nat
    BY <1>1, <1>3, <1>6 DEF SpentTrue
  <2> QED BY <1>1, <2>1
<1>7. ASSUME NEW i \in 1..Len(all), NEW j \in 1..Len(all), all[i].n = all[j].n,
             \/ all[i].op = "session" /\ all[j].op = "session" /\ all[i].perm = all[j].perm
             \/ all[i].op # "session" /\ all[j].op # "session"
      PROVE  i = j
  <2>1. CASE i \in 1..Len(log) /\ j \in 1..Len(log)
    BY <1>1, <1>7, <2>1 DEF SpentTrue
  <2>2. CASE i \in 1..Len(log) /\ j = Len(log) + 1
    BY <1>1, <1>5, <1>6, <1>7, <2>2
  <2>3. CASE i = Len(log) + 1 /\ j \in 1..Len(log)
    BY <1>1, <1>5, <1>6, <1>7, <2>3
  <2> QED BY <1>2, <2>1, <2>2, <2>3
<1> QED BY <1>4, <1>7 DEF SpentTrue, all

LEMMA EndKept ==
    ASSUME NEW kind, NEW log \in Seq(EffectType), NEW e \in EffectType, EndTrue(kind, log),
           e.op = "session" => Live(kind, e.perm, log)
    PROVE  EndTrue(kind, Append(log, e))
<1> DEFINE all == Append(log, e)
<1>1. Len(all) = Len(log) + 1 /\ all[Len(log) + 1] = e /\ Len(log) \in Nat
      /\ \A i \in 1..Len(log) : all[i] = log[i]
  OBVIOUS
<1>2. \A k \in 1..Len(log) : Turns(all, k) = Turns(log, k)
  BY <1>1, TurnsAppend
<1> HIDE DEF all
<1> SUFFICES ASSUME NEW j \in 1..Len(all), all[j].op = "session"
             PROVE  \E i \in 1..j :
                       /\ all[i].op = "grant" /\ all[i].perm = all[j].perm
                       /\ \A k \in i..j :
                             /\ ~(all[k].op = "revoke" /\ all[k].perm = all[j].perm)
                             /\ kind = "single" /\ all[k].op = "rotate" => ~(Turns(all, k) <= MaxGen)
  BY DEF EndTrue, all
<1>3. CASE j \in 1..Len(log)
  <2>1. PICK i \in 1..j :
           /\ log[i].op = "grant" /\ log[i].perm = log[j].perm
           /\ \A k \in i..j :
                 /\ ~(log[k].op = "revoke" /\ log[k].perm = log[j].perm)
                 /\ kind = "single" /\ log[k].op = "rotate" => ~(Turns(log, k) <= MaxGen)
    BY <1>1, <1>3 DEF EndTrue
  <2>2. i \in 1..Len(log) /\ \A k \in i..j : k \in 1..Len(log)
    BY <1>1, <1>3
  <2> QED BY <1>1, <1>2, <1>3, <2>1, <2>2
<1>4. CASE j = Len(log) + 1
  <2>1. PICK i \in 1..Len(log) :
           /\ log[i].op = "grant" /\ log[i].perm = e.perm
           /\ \A k \in i..Len(log) :
                 /\ ~(log[k].op = "revoke" /\ log[k].perm = e.perm)
                 /\ kind = "single" /\ log[k].op = "rotate" => ~(Turns(log, k) <= MaxGen)
    BY <1>1, <1>4 DEF Live
  <2>2. i \in 1..j /\ \A k \in i..j : k = j \/ (k \in 1..Len(log) /\ k \in i..Len(log))
    BY <1>1, <1>4
  <2>3. all[j] = e /\ e.op = "session"
    BY <1>1, <1>4
  <2>4. all[i].op = "grant" /\ all[i].perm = all[j].perm
    BY <1>1, <2>1, <2>3
  <2>5. ASSUME NEW k \in i..j
        PROVE  /\ ~(all[k].op = "revoke" /\ all[k].perm = all[j].perm)
               /\ kind = "single" /\ all[k].op = "rotate" => ~(Turns(all, k) <= MaxGen)
    <3>1. CASE k = j
      BY <2>3, <3>1
    <3>2. CASE k \in 1..Len(log) /\ k \in i..Len(log)
      <4>1. all[k] = log[k] /\ Turns(all, k) = Turns(log, k)
        BY <1>1, <1>2, <3>2
      <4> QED BY <2>1, <2>3, <3>2, <4>1
    <3> QED BY <2>2, <3>1, <3>2
  <2> QED BY <2>2, <2>4, <2>5
<1> QED BY <1>1, <1>3, <1>4

\* An effect other than a session or a revocation of p leaves its grant true.
LEMMA GrantKept ==
    ASSUME NEW kind, NEW g \in GrantType, NEW p, NEW log \in Seq(EffectType), NEW e \in EffectType,
           GrantTrue(kind, g, p, log), ~(e.op \in {"session", "revoke"} /\ e.perm = p)
    PROVE  GrantTrue(kind, g, p, Append(log, e))
<1> DEFINE all == Append(log, e)
<1>1. Len(all) = Len(log) + 1 /\ all[Len(log) + 1] = e /\ Len(log) \in Nat
      /\ \A i \in 1..Len(log) : all[i] = log[i]
  OBVIOUS
<1>2. \A k \in 1..Len(log) : Turns(all, k) = Turns(log, k)
  BY <1>1, TurnsAppend
<1>3. SessionFees(all, p, {2}) = SessionFees(log, p, {2}) + 0 /\ g.spent \in Nat
  <2>1. SessionFees(all, p, {2}) = SessionFees(log, p, {2}) + Cost(e, p)
    BY FeesAppend
  <2>2. Cost(e, p) = 0
    BY DEF Cost
  <2> QED BY <2>1, <2>2 DEF GrantType
<1>4. SessionFees(all, p, {2}) = g.spent
  BY <1>3 DEF GrantTrue
<1> HIDE DEF all
<1>5. ASSUME NEW i \in 1..Len(all), all[i].op = "session", all[i].perm = p PROVE all[i].n < g.seq
  <2>1. i \in 1..Len(log)
    BY <1>1, <1>5
  <2> QED BY <1>1, <1>5, <2>1 DEF GrantTrue
<1>6. ASSUME g.granted PROVE \E i \in 1..Len(all) : Granting(kind, g, p, all, i)
  <2>1. PICK i \in 1..Len(log) : Granting(kind, g, p, log, i)
    BY <1>6 DEF GrantTrue
  <2>2. i \in 1..Len(all) /\ \A k \in i..Len(all) : k = Len(log) + 1 \/ (k \in 1..Len(log) /\ k \in i..Len(log))
    BY <1>1
  <2>3. Granting(kind, g, p, all, i)
    BY <1>1, <1>2, <2>1, <2>2 DEF Granting
  <2> QED BY <2>2, <2>3
<1> QED BY <1>4, <1>5, <1>6 DEF GrantTrue, all

\* A revocation marks the grant.
LEMMA GrantRevoked ==
    ASSUME NEW kind, NEW g \in GrantType, NEW h \in GrantType, NEW p, NEW log \in Seq(EffectType), NEW e \in EffectType,
           GrantTrue(kind, g, p, log), e.op = "revoke", e.perm = p,
           h.granted, h.revoked, g.granted, h.gen = g.gen, h.seq = g.seq, h.spent = g.spent, h.limit = g.limit
    PROVE  GrantTrue(kind, h, p, Append(log, e))
<1> DEFINE all == Append(log, e)
<1>1. Len(all) = Len(log) + 1 /\ all[Len(log) + 1] = e /\ Len(log) \in Nat
      /\ \A i \in 1..Len(log) : all[i] = log[i]
  OBVIOUS
<1>2. \A k \in 1..Len(log) : Turns(all, k) = Turns(log, k)
  BY <1>1, TurnsAppend
<1>3. SessionFees(all, p, {2}) = SessionFees(log, p, {2}) + 0 /\ g.spent \in Nat
  <2>1. SessionFees(all, p, {2}) = SessionFees(log, p, {2}) + Cost(e, p)
    BY FeesAppend
  <2>2. Cost(e, p) = 0
    BY DEF Cost
  <2> QED BY <2>1, <2>2 DEF GrantType
<1>4. SessionFees(all, p, {2}) = h.spent
  BY <1>3 DEF GrantTrue
<1> HIDE DEF all
<1>5. ASSUME NEW i \in 1..Len(all), all[i].op = "session", all[i].perm = p PROVE all[i].n < h.seq
  <2>1. i \in 1..Len(log)
    BY <1>1, <1>5
  <2> QED BY <1>1, <1>5, <2>1 DEF GrantTrue
<1>6. \E i \in 1..Len(all) : Granting(kind, h, p, all, i)
  <2>1. PICK i \in 1..Len(log) : Granting(kind, g, p, log, i)
    BY DEF GrantTrue
  <2>2. i \in 1..Len(all)
    BY <1>1
  <2>3. Granting(kind, h, p, all, i)
    BY <1>1, <1>2, <2>1, <2>2 DEF Granting
  <2> QED BY <2>2, <2>3
<1> QED BY <1>4, <1>5, <1>6 DEF GrantTrue, all

\* A grant starts without sessions, in the generation in force.
LEMMA GrantStarts ==
    ASSUME NEW kind, NEW gen \in 0..MaxGen, NEW g \in GrantType, NEW h \in GrantType, NEW p,
           NEW log \in Seq(EffectType), NEW e \in EffectType,
           GenTrue(kind, gen, log), GrantTrue(kind, g, p, log), e.op = "grant", e.perm = p,
           ~g.granted, h.granted, h.gen = gen, h.seq = 0, h.spent = 0
    PROVE  GrantTrue(kind, h, p, Append(log, e))
<1> DEFINE all == Append(log, e)
<1>0. /\ Len(all) = Len(log) + 1 /\ all[Len(log) + 1] = e /\ Len(log) \in Nat
      /\ \A i \in 1..Len(log) : all[i] = log[i]
  OBVIOUS
<1>1. Turns(all, Len(log) + 1) = Turns(log, Len(log)) /\ Turns(log, Len(log)) \in Nat
  <2>1. e.op # "rotate"
    OBVIOUS
  <2>2. Turns(all, Len(log) + 1) = Turns(log, Len(log))
    BY <2>1, TurnsAppend
  <2>3. Turns(log, Len(log)) \in Nat
    BY <1>0, TurnsAreFinite
  <2> QED BY <2>2, <2>3
<1>2. g = NoGrant
  BY DEF GrantTrue
<1>3. g.seq = 0 /\ g.spent = 0 /\ h.limit \in Nat
  BY <1>2 DEF NoGrant, GrantType
<1>4. SessionFees(all, p, {2}) = h.spent
  <2>1. SessionFees(all, p, {2}) = SessionFees(log, p, {2}) + Cost(e, p)
    BY FeesAppend
  <2>2. Cost(e, p) = 0
    BY DEF Cost
  <2>3. SessionFees(log, p, {2}) = 0
    BY <1>3 DEF GrantTrue
  <2> HIDE DEF all
  <2> QED BY <2>1, <2>2, <2>3
<1> HIDE DEF all
<1>5. ASSUME NEW i \in 1..Len(all), all[i].op = "session", all[i].perm = p PROVE FALSE
  <2>1. i \in 1..Len(log)
    BY <1>0, <1>5
  <2>2. log[i].n < 0 /\ log[i] \in EffectType
    BY <1>0, <1>3, <1>5, <2>1 DEF GrantTrue
  <2>3. log[i].n \in Nat
    BY <2>2 DEF EffectType
  <2> QED BY <2>2, <2>3
<1>6. kind = "single" => h.gen <= Turns(all, Len(log) + 1)
  BY <1>1 DEF GenTrue
<1>7. Granting(kind, h, p, all, Len(log) + 1) /\ Len(log) + 1 \in 1..Len(all)
  <2>1. \A k \in (Len(log) + 1)..Len(all) : k = Len(log) + 1
    BY <1>0
  <2> QED BY <1>0, <1>6, <2>1 DEF Granting
<1> QED BY <1>3, <1>4, <1>5, <1>7 DEF GrantTrue, all

LEMMA UpToNext ==
    ASSUME NEW n \in Nat, NEW i \in 1..n
    PROVE  i \in 1..(n + 1) /\ \A k \in i..(n + 1) : k = n + 1 \/ (k \in 1..n /\ k \in i..n)
OBVIOUS

\* A session moves on the sequence number and the fees of its grant.
LEMMA GrantUsed ==
    ASSUME NEW kind, NEW g \in GrantType, NEW h \in GrantType, NEW p, NEW log \in Seq(EffectType), NEW e \in EffectType,
           GrantTrue(kind, g, p, log), e.op = "session", e.perm = p, e.n = g.seq,
           g.granted, h.granted, h.revoked = g.revoked, h.gen = g.gen, h.limit = g.limit,
           h.seq = g.seq + 1, h.spent = g.spent + Cost(e, p), h.spent <= h.limit
    PROVE  GrantTrue(kind, h, p, Append(log, e))
<1> DEFINE all == Append(log, e)
<1>1. Len(all) = Len(log) + 1 /\ all[Len(log) + 1] = e /\ Len(log) \in Nat
      /\ \A i \in 1..Len(log) : all[i] = log[i]
  OBVIOUS
<1>3. \A i \in 1..Len(log) : log[i] \in EffectType
  OBVIOUS
<1>2. \A k \in 1..Len(log) : Turns(all, k) = Turns(log, k)
  BY <1>1, TurnsAppend
<1>4. SessionFees(all, p, {2}) = h.spent
  <2>1. SessionFees(all, p, {2}) = SessionFees(log, p, {2}) + Cost(e, p)
    BY FeesAppend
  <2>2. SessionFees(log, p, {2}) = g.spent
    BY DEF GrantTrue
  <2> HIDE DEF all
  <2> QED BY <2>1, <2>2
<1> HIDE DEF all
<1>5. ASSUME NEW i \in 1..Len(all), all[i].op = "session", all[i].perm = p PROVE all[i].n < h.seq
  <2>0. g.seq \in Nat
    BY DEF GrantType
  <2>1. CASE i = Len(log) + 1
    BY <1>1, <2>0, <2>1
  <2>2. CASE i \in 1..Len(log)
    <3>1. log[i].n < g.seq /\ all[i] = log[i]
      BY <1>1, <1>5, <2>2 DEF GrantTrue
    <3>2. log[i].n \in Nat
      BY <1>3, <2>2 DEF EffectType
    <3> QED BY <2>0, <3>1, <3>2
  <2> QED BY <1>1, <2>1, <2>2
<1>6. \E i \in 1..Len(all) : Granting(kind, h, p, all, i)
  <2>1. PICK i \in 1..Len(log) : Granting(kind, g, p, log, i)
    BY DEF GrantTrue
  <2>2. i \in 1..Len(all) /\ \A k \in i..Len(all) : k = Len(log) + 1 \/ (k \in 1..Len(log) /\ k \in i..Len(log))
    BY <1>1, UpToNext
  <2>3. Granting(kind, h, p, all, i)
    BY <1>1, <1>2, <2>1, <2>2 DEF Granting
  <2> QED BY <2>2, <2>3
<1> QED BY <1>4, <1>5, <1>6 DEF GrantTrue, all

\* A grant in force was neither revoked nor rotated away from since.
LEMMA InForceMeans ==
    ASSUME NEW kind, NEW gen \in 0..MaxGen, NEW g \in GrantType, NEW p, NEW log \in Seq(EffectType),
           GenTrue(kind, gen, log), GrantTrue(kind, g, p, log),
           g.granted, ~g.revoked, kind = "single" => g.gen = gen
    PROVE  Live(kind, p, log)
<1>1. PICK i \in 1..Len(log) : Granting(kind, g, p, log, i)
  BY DEF GrantTrue
<1>2. ASSUME NEW k \in i..Len(log), kind = "single", log[k].op = "rotate", Turns(log, k) <= MaxGen
      PROVE  FALSE
  <2>1. k # i /\ i \in Nat /\ k \in Nat /\ i < k /\ k <= Len(log) /\ Len(log) \in Nat /\ MaxGen \in Nat
    BY <1>1, <1>2 DEF Granting
  <2>2. Turns(log, i) < Turns(log, k) /\ Turns(log, k) <= Turns(log, Len(log))
    BY <1>2, <2>1, TurnsGrow
  <2>3. Turns(log, i) \in Nat /\ Turns(log, k) \in Nat /\ Turns(log, Len(log)) \in Nat
    BY <2>1, TurnsAreFinite
  <2>4. g.gen <= Turns(log, i) /\ g.gen = gen /\ gen \in Nat
    BY <1>1, <1>2 DEF Granting
  <2>5. gen = IF Turns(log, Len(log)) < MaxGen THEN Turns(log, Len(log)) ELSE MaxGen
    BY <1>2 DEF GenTrue
  <2> QED BY <1>2, <2>1, <2>2, <2>3, <2>4, <2>5
<1> QED BY <1>1, <1>2 DEF Granting, Live

---------------------------------------------------------------------------
\* Storages

Managed(st) == st.count = Cardinality(st.admins) /\ st.admins # {}

\* A storage whose log, nonces, grants and administrators fit.
Sound(st) ==
    /\ st \in StorageType
    /\ SpentTrue(st.nonce, st.log) /\ EndTrue(st.kind, st.log) /\ GenTrue(st.kind, st.gen, st.log)
    /\ \A p \in PermIds : GrantTrue(st.kind, st.perms[p], p, st.log)
    /\ Managed(st)

OwnerOps == {"execute", "rotate", "grant", "revoke", "install", "uninstall"}

LEMMA SpendIs ==
    ASSUME evm \in StorageType, NEW st \in StorageType, NEW op \in OwnerOps, NEW perm \in PermIds \cup {NoPerm}
    PROVE  LET new == Spend(op, perm, st)
               e == Effect(op, perm, evm.nonce, 0, 4)
           IN  /\ new \in StorageType /\ e \in EffectType /\ e.op = op /\ e.perm = perm /\ e.n = evm.nonce
               /\ new.nonce = st.nonce + 1 /\ new.log = Append(st.log, e)
               /\ new.kind = st.kind /\ new.gen = st.gen /\ new.perms = st.perms /\ new.balance = st.balance
               /\ new.locked = st.locked /\ new.admins = st.admins /\ new.count = st.count
<1> DEFINE e == Effect(op, perm, evm.nonce, 0, 4)
<1>1. evm.nonce \in Nat
  BY DEF StorageType
<1>2. e \in EffectType /\ e.op = op /\ e.perm = perm /\ e.n = evm.nonce
  BY <1>1 DEF Effect, EffectType, OwnerOps
<1> HIDE DEF e
<1>3. Append(st.log, e) \in Seq(EffectType) /\ st.nonce + 1 \in Nat
  BY <1>2 DEF StorageType
<1> DEFINE new == [st EXCEPT !.nonce = st.nonce + 1, !.log = Append(st.log, e)]
<1>4. /\ new \in StorageType /\ new.nonce = st.nonce + 1 /\ new.log = Append(st.log, e)
      /\ new.kind = st.kind /\ new.gen = st.gen /\ new.perms = st.perms /\ new.balance = st.balance
      /\ new.locked = st.locked /\ new.admins = st.admins /\ new.count = st.count
  BY <1>3 DEF StorageType
<1>5. Spend(op, perm, st) = new
  BY DEF Spend, e
<1> HIDE DEF new
<1> QED BY <1>2, <1>4, <1>5 DEF e

LEMMA WithGrantIs ==
    ASSUME evm \in StorageType, NEW p \in PermIds, NEW g \in GrantType
    PROVE  LET new == WithGrant(p, g)
           IN  /\ new \in StorageType /\ new.perms = [evm.perms EXCEPT ![p] = g]
               /\ new.nonce = evm.nonce /\ new.log = evm.log /\ new.kind = evm.kind /\ new.gen = evm.gen
               /\ new.balance = evm.balance /\ new.locked = evm.locked /\ new.admins = evm.admins /\ new.count = evm.count
<1>1. PICK f \in [PermIds -> GrantType] : f = [evm.perms EXCEPT ![p] = g]
  BY DEF StorageType
<1> DEFINE new == [evm EXCEPT !.perms = f]
<1>2. /\ new \in StorageType /\ new.perms = f
      /\ new.nonce = evm.nonce /\ new.log = evm.log /\ new.kind = evm.kind /\ new.gen = evm.gen
      /\ new.balance = evm.balance /\ new.locked = evm.locked /\ new.admins = evm.admins /\ new.count = evm.count
  BY DEF StorageType
<1>3. WithGrant(p, g) = new
  BY <1>1 DEF WithGrant
<1> HIDE DEF new
<1> QED BY <1>1, <1>2, <1>3

\* An owner's effect that fits the generation and the grants it leaves.
LEMMA OwnerActs ==
    ASSUME Sound(evm), NEW new \in StorageType, NEW e \in EffectType, e.op \in OwnerOps, e.n = evm.nonce,
           new.kind = evm.kind, new.nonce = evm.nonce + 1, new.log = Append(evm.log, e),
           GenTrue(evm.kind, new.gen, new.log),
           \A p \in PermIds : GrantTrue(evm.kind, new.perms[p], p, new.log),
           new.admins = evm.admins, new.count = evm.count
    PROVE  Sound(new)
<1>1. evm.nonce \in Nat /\ new.nonce \in Nat /\ evm.nonce <= new.nonce /\ evm.log \in Seq(EffectType)
  BY DEF Sound, StorageType
<1>2. SpentTrue(evm.nonce, evm.log) /\ EndTrue(evm.kind, evm.log)
  BY DEF Sound
<1>3. e.op # "session"
  BY DEF OwnerOps
<1>4. SpentTrue(new.nonce, Append(evm.log, e))
  BY <1>1, <1>2, <1>3, SpentKept
<1>5. EndTrue(evm.kind, Append(evm.log, e))
  BY <1>1, <1>2, <1>3, EndKept
<1> QED BY <1>4, <1>5 DEF Sound, Managed

\* An owner's effect other than a rotation keeps the generation true.
LEMMA GenKept ==
    ASSUME NEW kind, NEW gen, NEW log \in Seq(EffectType), NEW e \in EffectType, e.op # "rotate",
           GenTrue(kind, gen, log)
    PROVE  GenTrue(kind, gen, Append(log, e))
<1>1. Len(Append(log, e)) = Len(log) + 1
  OBVIOUS
<1>2. Turns(Append(log, e), Len(log) + 1) = Turns(log, Len(log))
  BY TurnsAppend
<1> QED BY <1>1, <1>2 DEF GenTrue

\* Storages that differ in what the log does not speak of.
LEMMA SameLog ==
    ASSUME NEW old, Sound(old), NEW new \in StorageType, new.kind = old.kind, new.nonce = old.nonce,
           new.log = old.log, new.gen = old.gen, new.perms = old.perms, Managed(new)
    PROVE  Sound(new)
BY DEF Sound

\* Executions and module changes: no grant and no generation moves.
LEMMA SpendSound ==
    ASSUME Sound(evm), NEW st \in StorageType, NEW op \in {"execute", "install", "uninstall"},
           st.kind = evm.kind, st.nonce = evm.nonce, st.log = evm.log, st.gen = evm.gen,
           st.perms = evm.perms, st.admins = evm.admins, st.count = evm.count
    PROVE  Sound(Spend(op, NoPerm, st)) /\ Spend(op, NoPerm, st).balance = st.balance
<1> DEFINE new == Spend(op, NoPerm, st)
           e == Effect(op, NoPerm, evm.nonce, 0, 4)
<1>0. evm \in StorageType /\ op \in OwnerOps /\ NoPerm \in PermIds \cup {NoPerm}
  BY DEF Sound, OwnerOps
<1>1. /\ new \in StorageType /\ e \in EffectType /\ e.op = op /\ e.perm = NoPerm /\ e.n = evm.nonce
      /\ new.nonce = evm.nonce + 1 /\ new.log = Append(evm.log, e)
      /\ new.kind = evm.kind /\ new.gen = evm.gen /\ new.perms = evm.perms /\ new.balance = st.balance
      /\ new.admins = evm.admins /\ new.count = evm.count
  BY <1>0, SpendIs
<1> HIDE DEF new, e
<1>2. evm.log \in Seq(EffectType) /\ evm.perms \in [PermIds -> GrantType]
  BY <1>0 DEF StorageType
<1>3. e.op # "rotate" /\ ~(e.op \in {"session", "revoke"})
  BY <1>1
<1>4. GenTrue(evm.kind, new.gen, new.log)
  BY <1>1, <1>2, <1>3, GenKept DEF Sound
<1>5. ASSUME NEW p \in PermIds PROVE GrantTrue(evm.kind, new.perms[p], p, new.log)
  <2>1. GrantTrue(evm.kind, evm.perms[p], p, evm.log) /\ evm.perms[p] \in GrantType
    BY <1>2 DEF Sound
  <2> QED BY <1>1, <1>2, <1>3, <2>1, GrantKept
<1>6. e.op \in OwnerOps
  BY <1>0, <1>1
<1> QED BY <1>1, <1>4, <1>5, <1>6, OwnerActs DEF new

---------------------------------------------------------------------------
\* Storage and frames

\* The inductive invariant: storages are sound, also the saved ones; at most
\* one frame is open, under the lock, and its funds are there.
EvmInv ==
    /\ Sound(evm)
    /\ frames \in Seq(FrameType) /\ clock \in Nat
    /\ Len(frames) <= 1 /\ (frames # <<>> => evm.locked)
    /\ \A k \in 1..Len(frames) : Sound(frames[k].saved)
    /\ FundsReserved

LEMMA FeeType == \A fee \in Nat : protocolFee(fee) \in Nat /\ TotalFee(fee) = fee + protocolFee(fee)
BY DEF protocolFee, TotalFee

\* A step that leaves the frames alone and takes no funds.
LEMMA FramesStay ==
    ASSUME EvmInv, Sound(evm'), UNCHANGED frames, clock' \in Nat,
           evm'.balance >= evm.balance, evm.locked => evm'.locked
    PROVE  EvmInv'
<1>1. evm.balance \in Nat /\ evm'.balance \in Nat
  BY DEF EvmInv, Sound, StorageType
<1>2. ASSUME NEW k \in 1..Len(frames)
      PROVE  evm'.balance >= SumSeq(frames[k].calls) + protocolFee(frames[k].fee) + frames[k].owed
  <2>1. frames[k] \in FrameType
    BY DEF EvmInv
  <2>2. frames[k].calls \in Seq(Nat) /\ frames[k].fee \in Nat /\ frames[k].owed \in Nat
    BY <2>1 DEF FrameType
  <2>3. SumSeq(frames[k].calls) \in Nat /\ protocolFee(frames[k].fee) \in Nat
    BY <2>2, SumType, FeeType
  <2>4. evm.balance >= SumSeq(frames[k].calls) + protocolFee(frames[k].fee) + frames[k].owed
    BY DEF EvmInv, FundsReserved
  <2> QED BY <1>1, <2>2, <2>3, <2>4
<1>3. FundsReserved'
  BY <1>2 DEF FundsReserved
<1>4. Sound(evm)'
  BY DEF Sound, Managed
<1> QED BY <1>3, <1>4 DEF EvmInv, Sound, Managed

\* A guarded function that calls out has checked its funds.
LEMMA OpenKeeps ==
    ASSUME EvmInv, Unlocked, NEW st, Sound(st), st.balance = evm.balance,
           NEW calls \in Seq(Nat), calls # <<>>, NEW fee \in Nat,
           evm.balance >= SumSeq(calls) + TotalFee(fee), Open(st, calls, fee)
    PROVE  EvmInv'
<1> DEFINE f == [calls |-> Tail(calls), fee |-> fee, owed |-> fee, saved |-> evm]
           new == [st EXCEPT !.locked = TRUE, !.balance = st.balance - Head(calls)]
<1>1. frames = <<>>
  BY DEF EvmInv, Unlocked
<1>2. SumSeq(calls) = Head(calls) + SumSeq(Tail(calls)) /\ Head(calls) \in Nat /\ Tail(calls) \in Seq(Nat)
  BY SumSplit
<1>3. SumSeq(Tail(calls)) \in Nat /\ protocolFee(fee) \in Nat /\ TotalFee(fee) = fee + protocolFee(fee)
  BY <1>2, SumType, FeeType
<1>4. evm \in StorageType /\ st \in StorageType /\ st.balance \in Nat /\ Sound(evm)
  BY DEF EvmInv, Sound, StorageType
<1>5. st.balance - Head(calls) \in Nat
  BY <1>2, <1>3, <1>4
<1>6. /\ new \in StorageType /\ new.balance = st.balance - Head(calls) /\ new.locked
      /\ new.kind = st.kind /\ new.nonce = st.nonce /\ new.log = st.log /\ new.gen = st.gen
      /\ new.perms = st.perms /\ new.admins = st.admins /\ new.count = st.count
  BY <1>4, <1>5 DEF StorageType
<1>7. evm' = new /\ frames' = <<f>> /\ clock' = clock
  BY <1>1 DEF Open
<1>8. f \in FrameType /\ f.saved = evm /\ f.calls = Tail(calls) /\ f.fee = fee /\ f.owed = fee
  BY <1>2, <1>4 DEF FrameType
<1> HIDE DEF f, new
<1>9. Sound(new)
  BY <1>6, SameLog DEF Sound, Managed
<1>10. new.balance >= SumSeq(f.calls) + protocolFee(f.fee) + f.owed
  BY <1>2, <1>3, <1>4, <1>6, <1>8
<1>11. Len(frames') = 1 /\ frames'[1] = f /\ frames' \in Seq(FrameType) /\ \A k \in 1..1 : k = 1
  BY <1>7, <1>8
<1>12. FundsReserved'
  BY <1>7, <1>10, <1>11 DEF FundsReserved
<1>13. Sound(evm)' /\ \A k \in 1..Len(frames') : Sound(frames'[k].saved)
  BY <1>4, <1>7, <1>8, <1>9, <1>11 DEF Sound, Managed
<1> QED BY <1>6, <1>7, <1>11, <1>12, <1>13 DEF EvmInv, Sound, Managed

---------------------------------------------------------------------------
\* The owner's operations

LEMMA OwnerExecuteOK ==
    ASSUME EvmInv, NEW values \in Seq(Nat), values # <<>>, NEW fee \in Nat, NEW dl, OwnerExecute(values, fee, dl)
    PROVE  EvmInv'
<1> DEFINE st == Spend("execute", NoPerm, evm)
<1>1. Sound(evm) /\ evm \in StorageType
  BY DEF EvmInv, Sound
<1>2. Sound(st) /\ st.balance = evm.balance
  BY <1>1, SpendSound
<1> HIDE DEF st
<1>3. Open(st, values, fee) /\ Unlocked /\ evm.balance >= SumSeq(values) + TotalFee(fee)
  BY DEF OwnerExecute, st
<1> QED BY <1>2, <1>3, OpenKeeps

LEMMA OwnerStepOK ==
    ASSUME EvmInv, OwnerStep
    PROVE  EvmInv'
<1>1. PICK value \in Values, fee \in NetworkFees, max \in MaxFees, dl \in Deadlines :
        \/ executeV4(value, fee, max, dl)
        \/ execute7579(value, fee, dl)
        \/ executeV4Mode(value, fee, max, dl)
        \/ \E second \in Values : executeBatchV4(<<value, second>>, fee, max, dl)
  BY DEF OwnerStep
<1>2. value \in Nat /\ fee \in Nat
  OBVIOUS
<1>3. <<value>> \in Seq(Nat) /\ <<value>> # <<>>
  BY <1>2
<1>4. OwnerExecute(<<value>>, fee, dl) \/ \E second \in Values : OwnerExecute(<<value, second>>, fee, dl)
  BY <1>1 DEF executeV4, execute7579, executeV4Mode, executeBatchV4
<1>5. ASSUME NEW second \in Values, OwnerExecute(<<value, second>>, fee, dl) PROVE EvmInv'
  <2>1. second \in Nat
    OBVIOUS
  <2>2. <<value, second>> \in Seq(Nat) /\ <<value, second>> # <<>>
    BY <1>2, <2>1
  <2> QED BY <1>2, <1>5, <2>2, OwnerExecuteOK
<1>6. ASSUME OwnerExecute(<<value>>, fee, dl) PROVE EvmInv'
  BY <1>2, <1>3, <1>6, OwnerExecuteOK
<1> QED BY <1>4, <1>5, <1>6

\* Rotation: the generation moves on with the log.
LEMMA RotateOK ==
    ASSUME EvmInv, NEW key \in Keys, NEW dl, updateAuthority(key, dl)
    PROVE  EvmInv'
<1> DEFINE st == [evm EXCEPT !.authority = key, !.gen = NextGen]
           new == Spend("rotate", NoPerm, st)
           e == Effect("rotate", NoPerm, evm.nonce, 0, 4)
<1>1. Sound(evm) /\ evm \in StorageType /\ evm.gen \in 0..MaxGen /\ evm.log \in Seq(EffectType)
      /\ evm.perms \in [PermIds -> GrantType] /\ evm.balance \in Nat
  BY DEF EvmInv, Sound, StorageType
<1>2. NextGen \in 0..MaxGen
  BY <1>1 DEF NextGen
<1>3. /\ st \in StorageType /\ st.gen = NextGen /\ st.kind = evm.kind /\ st.nonce = evm.nonce /\ st.log = evm.log
      /\ st.perms = evm.perms /\ st.balance = evm.balance /\ st.locked = evm.locked
      /\ st.admins = evm.admins /\ st.count = evm.count
  BY <1>1, <1>2 DEF StorageType
<1>4. "rotate" \in OwnerOps /\ NoPerm \in PermIds \cup {NoPerm}
  BY DEF OwnerOps
<1> HIDE DEF st
<1>5. /\ new \in StorageType /\ e \in EffectType /\ e.op = "rotate" /\ e.perm = NoPerm /\ e.n = evm.nonce
      /\ new.nonce = evm.nonce + 1 /\ new.log = Append(evm.log, e)
      /\ new.kind = evm.kind /\ new.gen = NextGen /\ new.perms = evm.perms /\ new.balance = evm.balance
      /\ new.locked = evm.locked /\ new.admins = evm.admins /\ new.count = evm.count
  BY <1>1, <1>3, <1>4, SpendIs
<1>6. evm' = new /\ UNCHANGED <<frames, clock>>
  BY DEF updateAuthority, st
<1> HIDE DEF new, e
<1>7. GenTrue(evm.kind, new.gen, new.log)
  <2>1. Len(new.log) = Len(evm.log) + 1
    BY <1>1, <1>5
  <2>2. Turns(new.log, Len(evm.log) + 1) = Turns(evm.log, Len(evm.log)) + 1
    BY <1>1, <1>5, TurnsAppend
  <2>3. Turns(evm.log, Len(evm.log)) \in Nat
    <3>1. Len(evm.log) \in Nat
      BY <1>1
    <3> QED BY <3>1, TurnsAreFinite
  <2>4. GenTrue(evm.kind, evm.gen, evm.log) /\ MaxGen \in Nat
    BY <1>1 DEF Sound
  <2>5. evm.kind = "single" => new.gen = IF evm.gen < MaxGen THEN evm.gen + 1 ELSE evm.gen
    BY <1>5 DEF NextGen
  <2>6. ASSUME evm.kind = "single"
        PROVE  new.gen = IF Turns(evm.log, Len(evm.log)) + 1 < MaxGen THEN Turns(evm.log, Len(evm.log)) + 1 ELSE MaxGen
    <3>1. evm.gen = IF Turns(evm.log, Len(evm.log)) < MaxGen THEN Turns(evm.log, Len(evm.log)) ELSE MaxGen
      BY <2>4, <2>6 DEF GenTrue
    <3> QED BY <2>3, <2>4, <2>5, <2>6, <3>1
  <2> QED BY <2>1, <2>2, <2>6 DEF GenTrue
<1>8. ASSUME NEW p \in PermIds PROVE GrantTrue(evm.kind, new.perms[p], p, new.log)
  <2>1. GrantTrue(evm.kind, evm.perms[p], p, evm.log) /\ evm.perms[p] \in GrantType
    BY <1>1 DEF Sound
  <2>2. ~(e.op \in {"session", "revoke"} /\ e.perm = p)
    BY <1>5
  <2> QED BY <1>1, <1>5, <2>1, <2>2, GrantKept
<1>9. Sound(new)
  BY <1>1, <1>4, <1>5, <1>7, <1>8, OwnerActs
<1>10. Sound(evm') /\ evm'.balance >= evm.balance /\ (evm.locked => evm'.locked) /\ clock' \in Nat
  BY <1>1, <1>5, <1>6, <1>9 DEF EvmInv
<1> QED BY <1>6, <1>10, FramesStay

\* An effect that leaves one grant different.
LEMMA GrantStepOK ==
    ASSUME EvmInv, NEW p \in PermIds, NEW g \in GrantType, NEW op \in {"grant", "revoke"},
           evm' = Spend(op, p, WithGrant(p, g)), UNCHANGED <<frames, clock>>,
           \A e \in EffectType : e.op = op /\ e.perm = p => GrantTrue(evm.kind, g, p, Append(evm.log, e))
    PROVE  EvmInv'
<1> DEFINE st == WithGrant(p, g)
           new == Spend(op, p, st)
           e == Effect(op, p, evm.nonce, 0, 4)
<1>1. Sound(evm) /\ evm \in StorageType /\ evm.log \in Seq(EffectType)
      /\ evm.perms \in [PermIds -> GrantType] /\ evm.balance \in Nat
  BY DEF EvmInv, Sound, StorageType
<1>2. /\ st \in StorageType /\ st.perms = [evm.perms EXCEPT ![p] = g]
      /\ st.nonce = evm.nonce /\ st.log = evm.log /\ st.kind = evm.kind /\ st.gen = evm.gen
      /\ st.balance = evm.balance /\ st.locked = evm.locked /\ st.admins = evm.admins /\ st.count = evm.count
  BY <1>1, WithGrantIs
<1>3. op \in OwnerOps /\ p \in PermIds \cup {NoPerm} /\ op # "rotate"
  BY DEF OwnerOps
<1> HIDE DEF st
<1>a. evm \in StorageType /\ st \in StorageType /\ op \in OwnerOps /\ p \in PermIds \cup {NoPerm}
  BY <1>1, <1>2, <1>3
<1>s. /\ new \in StorageType /\ e \in EffectType /\ e.op = op /\ e.perm = p /\ e.n = evm.nonce
      /\ new.nonce = st.nonce + 1 /\ new.log = Append(st.log, e)
      /\ new.kind = st.kind /\ new.gen = st.gen /\ new.perms = st.perms /\ new.balance = st.balance
      /\ new.locked = st.locked /\ new.admins = st.admins /\ new.count = st.count
  BY <1>a, SpendIs
<1>5. evm' = new
  BY DEF st
<1> HIDE DEF new, e
<1>4. /\ new \in StorageType /\ e \in EffectType /\ e.op = op /\ e.perm = p /\ e.n = evm.nonce
      /\ new.nonce = evm.nonce + 1 /\ new.log = Append(evm.log, e)
      /\ new.kind = evm.kind /\ new.gen = evm.gen /\ new.perms = st.perms /\ new.balance = evm.balance
      /\ new.locked = evm.locked /\ new.admins = evm.admins /\ new.count = evm.count
  BY <1>2, <1>s
<1>6. GenTrue(evm.kind, new.gen, new.log)
  BY <1>1, <1>3, <1>4, GenKept DEF Sound
<1>7. ASSUME NEW q \in PermIds PROVE GrantTrue(evm.kind, new.perms[q], q, new.log)
  <2>1. GrantTrue(evm.kind, evm.perms[q], q, evm.log) /\ evm.perms[q] \in GrantType
    BY <1>1 DEF Sound
  <2>2. CASE q = p
    BY <1>1, <1>2, <1>4, <2>2
  <2>3. CASE q # p
    <3>1. new.perms[q] = evm.perms[q]
      BY <1>1, <1>2, <1>4, <2>3
    <3>2. ~(e.op \in {"session", "revoke"} /\ e.perm = q)
      BY <1>4, <2>3
    <3> QED BY <1>1, <1>4, <2>1, <3>1, <3>2, GrantKept
  <2> QED BY <2>2, <2>3
<1>8. Sound(new)
  BY <1>1, <1>3, <1>4, <1>6, <1>7, OwnerActs
<1>9. Sound(evm') /\ evm'.balance >= evm.balance /\ (evm.locked => evm'.locked) /\ clock' \in Nat
  BY <1>1, <1>4, <1>5, <1>8 DEF EvmInv
<1> QED BY <1>9, FramesStay

LEMMA PermissionOK ==
    ASSUME EvmInv, NEW p \in PermIds, NEW dl,
           \/ \E from \in Nat, limit \in FeeLimits : grantPermission(p, from, limit, dl)
           \/ revokePermission(p, dl)
    PROVE  EvmInv'
<1> DEFINE g == evm.perms[p]
<1>1. /\ g \in GrantType /\ evm.gen \in 0..MaxGen /\ evm.log \in Seq(EffectType)
      /\ GenTrue(evm.kind, evm.gen, evm.log) /\ GrantTrue(evm.kind, g, p, evm.log)
  BY DEF EvmInv, Sound, StorageType
<1>2. ASSUME NEW from \in Nat, NEW limit \in FeeLimits, grantPermission(p, from, limit, dl) PROVE EvmInv'
  <2> DEFINE h == [NoGrant EXCEPT !.granted = TRUE, !.from = from, !.limit = limit, !.gen = evm.gen]
  <2>0. limit \in Nat /\ MaxGen \in Nat
    OBVIOUS
  <2>1. h \in GrantType /\ h.granted /\ h.gen = evm.gen /\ h.seq = 0 /\ h.spent = 0
    BY <1>1, <2>0 DEF NoGrant, GrantType
  <2>2. ~g.granted /\ evm' = Spend("grant", p, WithGrant(p, h)) /\ UNCHANGED <<frames, clock>>
    BY <1>2 DEF grantPermission
  <2> HIDE DEF h, g
  <2>3. ASSUME NEW e \in EffectType, e.op = "grant", e.perm = p
        PROVE  GrantTrue(evm.kind, h, p, Append(evm.log, e))
    BY <1>1, <2>1, <2>2, <2>3, GrantStarts
  <2> QED BY <2>1, <2>2, <2>3, GrantStepOK
<1>3. ASSUME revokePermission(p, dl) PROVE EvmInv'
  <2> DEFINE h == [g EXCEPT !.revoked = TRUE]
  <2>1. h \in GrantType /\ h.revoked /\ h.granted = g.granted /\ h.gen = g.gen /\ h.seq = g.seq
        /\ h.spent = g.spent /\ h.limit = g.limit
    BY <1>1 DEF GrantType
  <2>2. g.granted /\ evm' = Spend("revoke", p, WithGrant(p, h)) /\ UNCHANGED <<frames, clock>>
    BY <1>3 DEF revokePermission
  <2> HIDE DEF h, g
  <2>3. ASSUME NEW e \in EffectType, e.op = "revoke", e.perm = p
        PROVE  GrantTrue(evm.kind, h, p, Append(evm.log, e))
    BY <1>1, <2>1, <2>2, <2>3, GrantRevoked
  <2> QED BY <2>1, <2>2, <2>3, GrantStepOK
<1> QED BY <1>2, <1>3

LEMMA ModuleOK ==
    ASSUME EvmInv, NEW type \in ModuleTypes, NEW module \in Modules, NEW dl,
           installModule(type, module, dl) \/ uninstallModule(type, module, dl)
    PROVE  EvmInv'
<1>1. Sound(evm) /\ evm \in StorageType /\ evm.balance \in Nat
  BY DEF EvmInv, Sound, StorageType
<1>2. ASSUME NEW ms \in SUBSET (ModuleTypes \X Modules), NEW op \in {"install", "uninstall"},
             Open(Spend(op, NoPerm, [evm EXCEPT !.modules = ms]), << 0 >>, 0), Unlocked
      PROVE  EvmInv'
  <2> DEFINE st == [evm EXCEPT !.modules = ms]
             new == Spend(op, NoPerm, st)
  <2>1. /\ st \in StorageType /\ st.kind = evm.kind /\ st.nonce = evm.nonce /\ st.log = evm.log /\ st.gen = evm.gen
        /\ st.perms = evm.perms /\ st.admins = evm.admins /\ st.count = evm.count /\ st.balance = evm.balance
    BY <1>1 DEF StorageType
  <2> HIDE DEF st
  <2>2. Sound(new) /\ new.balance = evm.balance
    BY <1>1, <2>1, SpendSound
  <2>3. Open(new, << 0 >>, 0)
    BY <1>2 DEF st
  <2> HIDE DEF new
  <2>4. << 0 >> \in Seq(Nat) /\ << 0 >> # <<>> /\ SumSeq(<< 0 >>) = 0
    <3>1. << 0 >> \in Seq(Nat) /\ \A k \in 1..Len(<< 0 >>) : << 0 >>[k] = 0
      OBVIOUS
    <3> QED BY <3>1, SumOfNothing
  <2>5. TotalFee(0) = 0
    <3>1. protocolFee(0) = 0
      BY DEF protocolFee
    <3> QED BY <3>1, FeeType
  <2>6. evm.balance >= SumSeq(<< 0 >>) + TotalFee(0)
    BY <1>1, <2>4, <2>5
  <2> QED BY <1>2, <2>2, <2>3, <2>4, <2>6, OpenKeeps
<1>3. evm.modules \cup {<<type, module>>} \in SUBSET (ModuleTypes \X Modules)
      /\ evm.modules \ {<<type, module>>} \in SUBSET (ModuleTypes \X Modules)
  BY <1>1 DEF StorageType
<1> QED BY <1>2, <1>3 DEF installModule, uninstallModule

---------------------------------------------------------------------------
\* Sessions

LEMMA SessionOK ==
    ASSUME EvmInv, NEW p \in PermIds, NEW ops \in Seq(Ops), ops # <<>>, NEW fee \in Nat, NEW max, NEW dl,
           NEW version \in {1, 2}, executePermission(p, ops, fee, max, dl, version)
    PROVE  EvmInv'
<1> DEFINE g == evm.perms[p]
           e == Effect("session", p, g.seq, TotalFee(fee), version)
           h == [g EXCEPT !.seq = g.seq + 1, !.spent = g.spent + Charged(fee, version)]
           st == WithGrant(p, h)
           new == [st EXCEPT !.log = Append(evm.log, e)]
           calls == [k \in 1..Len(ops) |-> ops[k].value]
<1>1. /\ Sound(evm) /\ evm \in StorageType /\ evm.log \in Seq(EffectType) /\ evm.gen \in 0..MaxGen
      /\ evm.perms \in [PermIds -> GrantType] /\ evm.balance \in Nat /\ evm.nonce \in Nat
  BY DEF EvmInv, Sound, StorageType
<1>2. g \in GrantType /\ GrantTrue(evm.kind, g, p, evm.log) /\ GenTrue(evm.kind, evm.gen, evm.log)
  BY <1>1 DEF Sound
<1>3. g.seq \in Nat /\ g.spent \in Nat /\ g.limit \in Nat
  BY <1>2 DEF GrantType
<1>4. protocolFee(fee) \in Nat /\ TotalFee(fee) \in Nat
  <2>1. protocolFee(fee) \in Nat /\ TotalFee(fee) = fee + protocolFee(fee)
    BY FeeType
  <2> QED BY <2>1
<1>5. e \in EffectType /\ e.op = "session" /\ e.perm = p /\ e.n = g.seq /\ e.fee = TotalFee(fee) /\ e.version = version
  BY <1>3, <1>4 DEF Effect, EffectType
<1>6. InForce(p) /\ FeeAllowed(p, fee, max, version) /\ Unlocked /\ evm.balance >= TotalFee(fee)
      /\ Open(new, calls, fee) /\ \A k \in 1..Len(ops) : InScope(p, ops[k])
  BY DEF executePermission
<1>7. g.granted /\ ~g.revoked /\ (evm.kind = "single" => g.gen = evm.gen)
  BY <1>6 DEF InForce
<1> HIDE DEF e
<1>8. Charged(fee, version) = Cost(e, p) /\ Charged(fee, version) \in Nat
  BY <1>4, <1>5 DEF Charged, Cost
<1>9. g.spent + Charged(fee, version) <= g.limit
  <2>1. CASE version = 2
    BY <1>6, <2>1 DEF FeeAllowed, Charged
  <2>2. CASE version = 1
    BY <1>2, <1>3, <2>2 DEF Charged, GrantTrue
  <2> QED BY <2>1, <2>2
<1>10. /\ h \in GrantType /\ h.granted = g.granted /\ h.revoked = g.revoked /\ h.gen = g.gen /\ h.limit = g.limit
       /\ h.seq = g.seq + 1 /\ h.spent = g.spent + Charged(fee, version)
  <2> HIDE DEF g
  <2>1. g.seq + 1 \in Nat /\ g.spent + Charged(fee, version) \in Nat
    BY <1>3, <1>8
  <2> QED BY <1>2, <2>1 DEF GrantType
<1> HIDE DEF h, g
<1>11. GrantTrue(evm.kind, h, p, Append(evm.log, e))
  BY <1>1, <1>2, <1>5, <1>7, <1>8, <1>9, <1>10, GrantUsed
<1>12. /\ st \in StorageType /\ st.perms = [evm.perms EXCEPT ![p] = h]
       /\ st.nonce = evm.nonce /\ st.log = evm.log /\ st.kind = evm.kind /\ st.gen = evm.gen
       /\ st.balance = evm.balance /\ st.admins = evm.admins /\ st.count = evm.count
  BY <1>1, <1>10, WithGrantIs
<1> HIDE DEF st
<1>13. Append(evm.log, e) \in Seq(EffectType)
  BY <1>1, <1>5
<1>14. /\ new \in StorageType /\ new.perms = [evm.perms EXCEPT ![p] = h] /\ new.log = Append(evm.log, e)
       /\ new.nonce = evm.nonce /\ new.kind = evm.kind /\ new.gen = evm.gen
       /\ new.balance = evm.balance /\ new.admins = evm.admins /\ new.count = evm.count
  BY <1>12, <1>13 DEF StorageType
<1> HIDE DEF new
<1>15. ASSUME NEW q \in PermIds PROVE GrantTrue(evm.kind, new.perms[q], q, Append(evm.log, e))
  <2>1. CASE q = p
    BY <1>1, <1>11, <1>14, <2>1
  <2>2. CASE q # p
    <3>1. new.perms[q] = evm.perms[q] /\ evm.perms[q] \in GrantType /\ GrantTrue(evm.kind, evm.perms[q], q, evm.log)
      BY <1>1, <1>14, <2>2 DEF Sound
    <3>2. ~(e.op \in {"session", "revoke"} /\ e.perm = q)
      BY <1>5, <2>2
    <3> QED BY <1>1, <1>5, <3>1, <3>2, GrantKept
  <2> QED BY <2>1, <2>2
<1>16. SpentTrue(evm.nonce, Append(evm.log, e))
  <2>1. \A i \in 1..Len(evm.log) : evm.log[i].op = "session" /\ evm.log[i].perm = e.perm => evm.log[i].n < e.n
    BY <1>2, <1>5 DEF GrantTrue
  <2>2. SpentTrue(evm.nonce, evm.log) /\ evm.nonce <= evm.nonce
    BY <1>1 DEF Sound
  <2> QED BY <1>1, <1>5, <2>1, <2>2, SpentKept
<1>17. EndTrue(evm.kind, Append(evm.log, e))
  <2>1. EndTrue(evm.kind, evm.log)
    BY <1>1 DEF Sound
  <2>2. Live(evm.kind, p, evm.log)
    BY <1>1, <1>2, <1>7, InForceMeans
  <2> QED BY <1>1, <1>5, <2>1, <2>2, EndKept
<1>18. GenTrue(evm.kind, evm.gen, Append(evm.log, e))
  BY <1>1, <1>2, <1>5, GenKept
<1>19. Sound(new)
  BY <1>1, <1>14, <1>15, <1>16, <1>17, <1>18 DEF Sound, Managed
<1>20. calls \in Seq(Nat) /\ calls # <<>> /\ SumSeq(calls) = 0
  <2>1. \A k \in 1..Len(ops) : ops[k].value = 0
    BY <1>6 DEF InScope
  <2>2. calls \in Seq(Nat) /\ Len(calls) = Len(ops) /\ \A k \in 1..Len(calls) : calls[k] = 0
    BY <2>1
  <2> HIDE DEF calls
  <2>3. SumSeq(calls) = 0
    BY <2>2, SumOfNothing
  <2> QED BY <2>2, <2>3
<1> HIDE DEF calls
<1>21. evm.balance >= SumSeq(calls) + TotalFee(fee)
  BY <1>1, <1>4, <1>6, <1>20
<1> QED BY <1>6, <1>14, <1>19, <1>20, <1>21, OpenKeeps

LEMMA SessionStepOK ==
    ASSUME EvmInv, SessionStep
    PROVE  EvmInv'
<1>1. PICK p \in PermIds, op \in Ops, fee \in NetworkFees, max \in MaxFees, dl \in Deadlines :
        \/ executeWithPermissionV1(p, op, fee, dl)
        \/ executeWithPermissionV2(p, op, fee, max, dl)
        \/ \E m \in Modules : \/ executeFromExecutor(m, p, op, fee, dl)
                              \/ executeFromExecutorV2(m, p, op, fee, max, dl)
                              \/ executeBatchPermission(m, p, <<op, op>>, fee, max, dl)
  BY DEF SessionStep
<1>2. fee \in Nat
  OBVIOUS
<1>3. <<op>> \in Seq(Ops) /\ <<op>> # <<>> /\ <<op, op>> \in Seq(Ops) /\ <<op, op>> # <<>>
  OBVIOUS
<1>4. \/ executePermission(p, <<op>>, fee, 0, dl, 1)
      \/ executePermission(p, <<op>>, fee, max, dl, 2)
      \/ executePermission(p, <<op, op>>, fee, max, dl, 2)
  BY <1>1 DEF executeWithPermissionV1, executeWithPermissionV2, executeFromExecutor, executeFromExecutorV2,
              executeBatchPermission
<1> QED BY <1>2, <1>3, <1>4, SessionOK

---------------------------------------------------------------------------
\* Creation and the rest of a frame

LEMMA NoCalls == <<>> \in Seq(Nat) /\ SumSeq(<<>>) = 0
<1>1. <<>> \in Seq(Nat) /\ \A k \in 1..Len(<<>>) : <<>>[k] = 0
  OBVIOUS
<1> QED BY <1>1, SumOfNothing

LEMMA CreationOK ==
    ASSUME EvmInv, NEW fee \in NetworkFees, NEW max \in MaxFees, NEW dl, deployAndInitV4(fee, max, dl)
    PROVE  EvmInv'
<1> DEFINE created == [evm EXCEPT !.initialized = TRUE, !.authority = Founder]
           new == [created EXCEPT !.locked = TRUE, !.balance = evm.balance - fee]
           f == [calls |-> <<>>, fee |-> fee, owed |-> 0, saved |-> evm]
<1>0. fee \in Nat /\ initializeV4(fee, max, dl)
  BY DEF deployAndInitV4
<1>1. Sound(evm) /\ evm \in StorageType /\ evm.balance \in Nat /\ clock \in Nat
  BY DEF EvmInv, Sound, StorageType
<1>2. /\ created \in StorageType /\ created.kind = evm.kind /\ created.nonce = evm.nonce /\ created.log = evm.log
      /\ created.gen = evm.gen /\ created.perms = evm.perms /\ created.admins = evm.admins /\ created.count = evm.count
      /\ created.balance = evm.balance /\ created.locked = evm.locked
  BY <1>1 DEF StorageType
<1>3. \/ evm' = created /\ UNCHANGED frames
      \/ evm' = new /\ frames' = Append(frames, f)
  BY <1>0 DEF initializeV4
<1>4. Unlocked /\ evm.balance >= TotalFee(fee) /\ UNCHANGED clock
  BY <1>0 DEF initializeV4
<1> HIDE DEF created
<1>5. Managed(created)
  BY <1>1, <1>2 DEF Sound, Managed
<1>6. Sound(created)
  BY <1>1, <1>2, <1>5, SameLog
<1>7. CASE evm' = created /\ UNCHANGED frames
  <2>1. Sound(evm') /\ evm'.balance >= evm.balance /\ (evm.locked => evm'.locked) /\ clock' \in Nat
    BY <1>1, <1>2, <1>4, <1>6, <1>7
  <2> QED BY <1>7, <2>1, FramesStay
<1>8. CASE evm' = new /\ frames' = Append(frames, f)
  <2>1. protocolFee(fee) \in Nat /\ TotalFee(fee) = fee + protocolFee(fee)
    BY <1>0, FeeType
  <2>2. evm.balance - fee \in Nat /\ evm.balance - fee >= protocolFee(fee)
    BY <1>0, <1>1, <1>4, <2>1
  <2>3. /\ new \in StorageType /\ new.locked /\ new.balance = evm.balance - fee
        /\ new.kind = evm.kind /\ new.nonce = evm.nonce /\ new.log = evm.log
        /\ new.gen = evm.gen /\ new.perms = evm.perms /\ new.admins = evm.admins /\ new.count = evm.count
    BY <1>2, <2>2 DEF StorageType
  <2> HIDE DEF new
  <2>4. Managed(new)
    BY <1>1, <2>3 DEF Sound, Managed
  <2>5. Sound(new)
    BY <1>1, <2>3, <2>4, SameLog
  <2>6. frames = <<>>
    BY <1>4 DEF EvmInv, Unlocked
  <2>7. f \in FrameType /\ f.calls = <<>> /\ f.fee = fee /\ f.owed = 0 /\ f.saved = evm
    BY <1>0, <1>1, NoCalls DEF FrameType
  <2> HIDE DEF f
  <2>8. Len(frames') = 1 /\ frames'[1] = f /\ frames' \in Seq(FrameType) /\ \A k \in 1..1 : k = 1
    BY <1>8, <2>6, <2>7
  <2>9. new.balance >= SumSeq(f.calls) + protocolFee(f.fee) + f.owed
    BY <2>1, <2>2, <2>3, <2>7, NoCalls
  <2>10. FundsReserved'
    BY <1>8, <2>8, <2>9 DEF FundsReserved
  <2>11. Sound(evm)' /\ \A k \in 1..Len(frames') : Sound(frames'[k].saved)
    BY <1>1, <1>8, <2>5, <2>7, <2>8 DEF Sound, Managed
  <2> QED BY <1>1, <1>4, <1>8, <2>3, <2>8, <2>10, <2>11 DEF EvmInv, Sound, Managed
<1> QED BY <1>3, <1>7, <1>8

\* The frame that pays stays the only one.
LEMMA PayKeeps ==
    ASSUME EvmInv, frames # <<>>, NEW f \in FrameType, NEW paid \in Nat, paid <= evm.balance,
           f.saved = Top.saved, f.fee = Top.fee, f.calls \in Seq(Nat),
           SumSeq(Top.calls) + Top.owed = paid + SumSeq(f.calls) + f.owed,
           evm' = [evm EXCEPT !.balance = evm.balance - paid],
           frames' = [frames EXCEPT ![Len(frames)] = f], UNCHANGED clock
    PROVE  EvmInv'
<1> DEFINE new == [evm EXCEPT !.balance = evm.balance - paid]
<1>1. Sound(evm) /\ evm \in StorageType /\ evm.balance \in Nat /\ clock \in Nat /\ frames \in Seq(FrameType)
  BY DEF EvmInv, Sound, StorageType
<1>2. Len(frames) = 1 /\ evm.locked
  BY <1>1, OneFrame DEF EvmInv
<1>3. Top = frames[1] /\ Top \in FrameType
  BY <1>1, <1>2 DEF Top
<1>4. Top.calls \in Seq(Nat) /\ Top.fee \in Nat /\ Top.owed \in Nat /\ f.owed \in Nat
  BY <1>3 DEF FrameType
<1>5. SumSeq(Top.calls) \in Nat /\ SumSeq(f.calls) \in Nat /\ protocolFee(Top.fee) \in Nat
  BY <1>4, SumType, FeeType
<1>6. evm.balance >= SumSeq(Top.calls) + protocolFee(Top.fee) + Top.owed
  <2>1. 1 \in 1..Len(frames)
    BY <1>2
  <2> QED BY <1>3, <2>1 DEF EvmInv, FundsReserved
<1>7. evm.balance - paid \in Nat
  BY <1>1
<1>8. /\ new \in StorageType /\ new.locked = evm.locked /\ new.balance = evm.balance - paid
      /\ new.kind = evm.kind /\ new.nonce = evm.nonce /\ new.log = evm.log
      /\ new.gen = evm.gen /\ new.perms = evm.perms /\ new.admins = evm.admins /\ new.count = evm.count
  BY <1>1, <1>7 DEF StorageType
<1>9. evm' = new
  OBVIOUS
<1> HIDE DEF new
<1>10. Managed(new)
  BY <1>1, <1>8 DEF Sound, Managed
<1>11. Sound(new)
  BY <1>1, <1>8, <1>10, SameLog
<1>12. new.balance >= SumSeq(f.calls) + protocolFee(f.fee) + f.owed
  <2>1. PICK fee \in Nat : fee = protocolFee(Top.fee) /\ fee = protocolFee(f.fee)
    BY <1>5
  <2>2. PICK all \in Nat, rest \in Nat : all = SumSeq(Top.calls) /\ rest = SumSeq(f.calls)
    BY <1>5
  <2>3. PICK had \in Nat, due \in Nat, left \in Nat : had = evm.balance /\ due = Top.owed /\ left = f.owed
    BY <1>1, <1>4
  <2>4. had >= all + fee + due /\ all + due = paid + rest + left
    BY <1>6, <2>1, <2>2, <2>3
  <2>5. had - paid >= rest + fee + left
    BY <2>4, LeftOver
  <2> QED BY <1>8, <2>1, <2>2, <2>3, <2>5
<1>13. Len(frames') = 1 /\ frames'[1] = f /\ frames' \in Seq(FrameType) /\ \A k \in 1..1 : k = 1
  BY <1>1, <1>2
<1>14. FundsReserved'
  BY <1>9, <1>12, <1>13 DEF FundsReserved
<1>15. Sound(Top.saved)
  BY <1>2, <1>3 DEF EvmInv
<1>16. Sound(evm)' /\ \A k \in 1..Len(frames') : Sound(frames'[k].saved)
  BY <1>9, <1>11, <1>13, <1>15 DEF Sound, Managed
<1> QED BY <1>1, <1>2, <1>8, <1>9, <1>13, <1>14, <1>16 DEF EvmInv, Sound, Managed

LEMMA CallOutOK ==
    ASSUME EvmInv, CallOut \/ PayRelayer
    PROVE  EvmInv'
<1>1. frames # <<>> /\ frames \in Seq(FrameType) /\ Len(frames) \in 1..Len(frames) /\ Len(frames) # 0
  BY DEF EvmInv, CallOut, PayRelayer
<1>2. Top \in FrameType
  BY <1>1 DEF Top
<1>3. Top.calls \in Seq(Nat) /\ Top.fee \in Nat /\ Top.owed \in Nat
  BY <1>2 DEF FrameType
<1>4. CASE CallOut
  <2> DEFINE f == [Top EXCEPT !.calls = Tail(Top.calls)]
  <2>1. /\ Top.calls # <<>> /\ Head(Top.calls) <= evm.balance
        /\ evm' = [evm EXCEPT !.balance = evm.balance - Head(Top.calls)]
        /\ frames' = [frames EXCEPT ![Len(frames)] = f] /\ UNCHANGED clock
    BY <1>4 DEF CallOut
  <2>2. SumSeq(Top.calls) = Head(Top.calls) + SumSeq(Tail(Top.calls)) /\ Head(Top.calls) \in Nat
        /\ Tail(Top.calls) \in Seq(Nat)
    BY <1>3, <2>1, SumSplit
  <2>3. f \in FrameType /\ f.saved = Top.saved /\ f.fee = Top.fee /\ f.calls = Tail(Top.calls) /\ f.owed = Top.owed
    BY <1>2, <2>2 DEF FrameType
  <2> HIDE DEF f
  <2>4. SumSeq(Tail(Top.calls)) \in Nat
    BY <2>2, SumType
  <2>5. SumSeq(Top.calls) + Top.owed = Head(Top.calls) + SumSeq(f.calls) + f.owed
    BY <1>3, <2>2, <2>3, <2>4
  <2> QED BY <1>1, <2>1, <2>2, <2>3, <2>5, PayKeeps
<1>5. CASE PayRelayer
  <2> DEFINE f == [Top EXCEPT !.owed = 0]
  <2>1. /\ Top.calls = <<>> /\ Top.owed <= evm.balance
        /\ evm' = [evm EXCEPT !.balance = evm.balance - Top.owed]
        /\ frames' = [frames EXCEPT ![Len(frames)] = f] /\ UNCHANGED clock
    BY <1>5 DEF PayRelayer
  <2>2. f \in FrameType /\ f.saved = Top.saved /\ f.fee = Top.fee /\ f.calls = Top.calls /\ f.owed = 0
    BY <1>2 DEF FrameType
  <2> HIDE DEF f
  <2>3. SumSeq(Top.calls) + Top.owed = Top.owed + SumSeq(f.calls) + f.owed
    BY <1>3, <2>1, <2>2, NoCalls
  <2> QED BY <1>1, <1>3, <2>1, <2>2, <2>3, PayKeeps
<1> QED BY <1>4, <1>5

\* The frame is closed: by its return, or undone.
LEMMA CloseOK ==
    ASSUME EvmInv, Return \/ Revert
    PROVE  EvmInv'
<1>1. Sound(evm) /\ evm \in StorageType /\ evm.balance \in Nat /\ evm.revenue \in Nat /\ clock \in Nat
      /\ frames \in Seq(FrameType) /\ frames # <<>> /\ Len(frames) <= 1 /\ UNCHANGED clock
  BY DEF EvmInv, Sound, StorageType, Return, Revert
<1>2. Len(frames) = 1
  BY <1>1, OneFrame
<1>3. Top = frames[1] /\ Top \in FrameType
  BY <1>1, <1>2 DEF Top
<1>4. frames' = <<>>
  BY <1>1, <1>2 DEF Return, Revert, Below
<1>5. Sound(evm')
  <2>1. CASE Revert
    BY <1>2, <1>3, <2>1 DEF Revert, EvmInv
  <2>2. CASE Return
    <3> DEFINE fee == protocolFee(Top.fee)
               new == [evm EXCEPT !.balance = evm.balance - fee, !.revenue = evm.revenue + fee, !.locked = FALSE]
    <3>1. fee \in Nat /\ fee <= evm.balance
      BY <1>3, <2>2, FeeType DEF Return, FrameType
    <3>2. evm' = new
      BY <2>2 DEF Return
    <3> HIDE DEF fee
    <3>3. evm.balance - fee \in Nat /\ evm.revenue + fee \in Nat
      BY <1>1, <3>1
    <3>4. /\ new \in StorageType
          /\ new.kind = evm.kind /\ new.nonce = evm.nonce /\ new.log = evm.log
          /\ new.gen = evm.gen /\ new.perms = evm.perms /\ new.admins = evm.admins /\ new.count = evm.count
      BY <1>1, <3>3 DEF StorageType
    <3> HIDE DEF new
    <3>5. Managed(new)
      BY <1>1, <3>4 DEF Sound, Managed
    <3> QED BY <1>1, <3>2, <3>4, <3>5, SameLog
  <2> QED BY <2>1, <2>2
<1>6. Sound(evm)'
  BY <1>5 DEF Sound, Managed
<1>7. frames' \in Seq(FrameType) /\ Len(frames') = 0 /\ \A k \in 1..0 : FALSE
  BY <1>4
<1>8. FundsReserved'
  BY <1>7 DEF FundsReserved
<1> QED BY <1>1, <1>4, <1>6, <1>7, <1>8 DEF EvmInv, Sound, Managed
---------------------------------------------------------------------------
\* The factory, time, and the theorems

LEMMA AdminsFinite == ASSUME NEW S \in SUBSET Admins PROVE IsFiniteSet(S) /\ Cardinality(S) \in Nat
BY FS_Subset, FS_CardinalityType

\* A step of the factory's administration or a payment to the account.
LEMMA AdminKeeps ==
    ASSUME EvmInv, evm' \in StorageType, UNCHANGED <<frames, clock>>, Managed(evm'),
           evm'.kind = evm.kind, evm'.nonce = evm.nonce, evm'.log = evm.log, evm'.gen = evm.gen,
           evm'.perms = evm.perms, evm'.balance >= evm.balance, evm'.locked = evm.locked
    PROVE  EvmInv'
<1>1. Sound(evm) /\ clock \in Nat
  BY DEF EvmInv
<1>2. Sound(evm')
  BY <1>1, SameLog
<1> QED BY <1>1, <1>2, FramesStay

LEMMA FactoryOK ==
    ASSUME EvmInv, \/ \E wei \in TopUps : receive(wei)
                   \/ \E paused \in BOOLEAN : setDeploysPaused(paused)
                   \/ \E a \in Admins : addAdmin(a) \/ removeAdmin(a)
                   \/ \E amount \in 1..evm.revenue : withdrawRevenue(amount)
    PROVE  EvmInv'
<1>1. /\ evm \in StorageType /\ Managed(evm) /\ evm.balance \in Nat /\ evm.revenue \in Nat /\ evm.count \in Nat
      /\ evm.admins \in SUBSET Admins
  BY DEF EvmInv, Sound, StorageType
<1>2. evm.count = Cardinality(evm.admins) /\ evm.admins # {}
  BY <1>1 DEF Managed
<1>3. IsFiniteSet(evm.admins)
  BY <1>1, AdminsFinite
<1>4. ASSUME NEW wei \in TopUps, receive(wei) PROVE EvmInv'
  <2> DEFINE new == [evm EXCEPT !.balance = evm.balance + wei]
  <2>1. evm' = new /\ UNCHANGED <<frames, clock>>
    BY <1>4 DEF receive
  <2>2. evm.balance + wei \in Nat /\ evm.balance + wei >= evm.balance
    <3>1. wei \in Nat
      OBVIOUS
    <3>2. \A b, w \in Nat : b + w \in Nat /\ b + w >= b
      OBVIOUS
    <3> QED BY <1>1, <3>1, <3>2
  <2>3. /\ new \in StorageType /\ new.kind = evm.kind /\ new.nonce = evm.nonce /\ new.log = evm.log
        /\ new.gen = evm.gen /\ new.perms = evm.perms /\ new.balance = evm.balance + wei
        /\ new.locked = evm.locked /\ new.admins = evm.admins /\ new.count = evm.count
    BY <1>1, <2>2 DEF StorageType
  <2> HIDE DEF new
  <2>4. Managed(new)
    BY <1>2, <2>3 DEF Managed
  <2> QED BY <2>1, <2>2, <2>3, <2>4, AdminKeeps
<1>5. ASSUME NEW paused \in BOOLEAN, setDeploysPaused(paused) PROVE EvmInv'
  <2> DEFINE new == [evm EXCEPT !.paused = paused]
  <2>1. evm' = new /\ UNCHANGED <<frames, clock>>
    BY <1>5 DEF setDeploysPaused
  <2>2. /\ new \in StorageType /\ new.kind = evm.kind /\ new.nonce = evm.nonce /\ new.log = evm.log
        /\ new.gen = evm.gen /\ new.perms = evm.perms /\ new.balance = evm.balance
        /\ new.locked = evm.locked /\ new.admins = evm.admins /\ new.count = evm.count
    BY <1>1 DEF StorageType
  <2> HIDE DEF new
  <2>3. Managed(new) /\ new.balance >= evm.balance
    BY <1>1, <1>2, <2>2 DEF Managed
  <2> QED BY <2>1, <2>2, <2>3, AdminKeeps
<1>6. ASSUME NEW admins \in SUBSET Admins, NEW count \in Nat, count = Cardinality(admins), admins # {},
             evm' = [evm EXCEPT !.admins = admins, !.count = count], UNCHANGED <<frames, clock>>
      PROVE EvmInv'
  <2> DEFINE new == [evm EXCEPT !.admins = admins, !.count = count]
  <2>1. evm' = new
    BY <1>6
  <2>2. /\ new \in StorageType /\ new.kind = evm.kind /\ new.nonce = evm.nonce /\ new.log = evm.log
        /\ new.gen = evm.gen /\ new.perms = evm.perms /\ new.balance = evm.balance
        /\ new.locked = evm.locked /\ new.admins = admins /\ new.count = count
    BY <1>1 DEF StorageType
  <2> HIDE DEF new
  <2>3. Managed(new) /\ new.balance >= evm.balance
    BY <1>1, <1>6, <2>2 DEF Managed
  <2> QED BY <1>6, <2>1, <2>2, <2>3, AdminKeeps
<1>7. ASSUME NEW a \in Admins, addAdmin(a) PROVE EvmInv'
  <2>1. /\ a \notin evm.admins /\ UNCHANGED <<frames, clock>>
        /\ evm' = [evm EXCEPT !.admins = evm.admins \cup {a}, !.count = evm.count + 1]
    BY <1>7 DEF addAdmin
  <2>2. Cardinality(evm.admins \cup {a}) = evm.count + 1
    BY <1>2, <1>3, <2>1, FS_AddElement
  <2>3. evm.count + 1 \in Nat /\ evm.admins \cup {a} \in SUBSET Admins /\ evm.admins \cup {a} # {}
    BY <1>1
  <2> QED BY <1>6, <2>1, <2>2, <2>3
<1>8. ASSUME NEW a \in Admins, removeAdmin(a) PROVE EvmInv'
  <2>1. /\ a \in evm.admins /\ evm.count > 1 /\ UNCHANGED <<frames, clock>>
        /\ evm' = [evm EXCEPT !.admins = evm.admins \ {a}, !.count = evm.count - 1]
    BY <1>8 DEF removeAdmin
  <2>2. Cardinality(evm.admins \ {a}) = evm.count - 1
    BY <1>2, <1>3, <2>1, FS_RemoveElement
  <2>3. evm.count - 1 \in Nat /\ evm.count - 1 # 0
    BY <1>1, <2>1
  <2>4. evm.admins \ {a} # {}
    BY <2>2, <2>3, FS_EmptySet
  <2>5. evm.admins \ {a} \in SUBSET Admins
    BY <1>1
  <2> QED BY <1>6, <2>1, <2>2, <2>3, <2>4, <2>5
<1>9. ASSUME NEW amount \in 1..evm.revenue, withdrawRevenue(amount) PROVE EvmInv'
  <2> DEFINE new == [evm EXCEPT !.revenue = evm.revenue - amount]
  <2>1. evm' = new /\ UNCHANGED <<frames, clock>>
    BY <1>9 DEF withdrawRevenue
  <2>2. evm.revenue - amount \in Nat
    BY <1>1
  <2>3. /\ new \in StorageType /\ new.kind = evm.kind /\ new.nonce = evm.nonce /\ new.log = evm.log
        /\ new.gen = evm.gen /\ new.perms = evm.perms /\ new.balance = evm.balance
        /\ new.locked = evm.locked /\ new.admins = evm.admins /\ new.count = evm.count
    BY <1>1, <2>2 DEF StorageType
  <2> HIDE DEF new
  <2>4. Managed(new) /\ new.balance >= evm.balance
    BY <1>1, <1>2, <2>3 DEF Managed
  <2> QED BY <2>1, <2>3, <2>4, AdminKeeps
<1> QED BY <1>4, <1>5, <1>7, <1>8, <1>9

LEMMA NoGrantType == NoGrant \in GrantType /\ ~NoGrant.granted /\ NoGrant.spent = 0 /\ NoGrant.limit = 0
BY DEF NoGrant, GrantType

LEMMA EvmInitOK == EvmInit => EvmInv
<1> SUFFICES ASSUME EvmInit PROVE EvmInv
  OBVIOUS
<1>1. PICK kind \in {"single", "batch"}, admins \in (SUBSET Admins) \ {{}} :
          evm = [kind |-> kind, initialized |-> FALSE, authority |-> NoKey,
                 nonce |-> 0, gen |-> 0, perms |-> [p \in PermIds |-> NoGrant],
                 modules |-> {}, locked |-> FALSE, balance |-> 0, revenue |-> 0,
                 paused |-> FALSE, admins |-> admins, count |-> Cardinality(admins),
                 log |-> <<>>]
  BY DEF EvmInit
<1>2. frames = <<>> /\ clock = 0
  BY DEF EvmInit
<1>3. Cardinality(admins) \in Nat
  BY AdminsFinite
<1>4. [p \in PermIds |-> NoGrant] \in [PermIds -> GrantType] /\ 0 \in 0..MaxGen /\ <<>> \in Seq(EffectType)
  BY NoGrantType
<1>5. evm \in StorageType
  BY <1>1, <1>3, <1>4 DEF StorageType
<1>6. /\ evm.gen = 0 /\ evm.log = <<>> /\ evm.nonce = 0 /\ evm.kind = kind
      /\ evm.admins = admins /\ evm.count = Cardinality(admins) /\ \A p \in PermIds : evm.perms[p] = NoGrant
  BY <1>1
<1>7. Turns(<<>>, Len(<<>>)) = 0
  <2>1. {m \in 1..Len(<<>>) : <<>>[m].op = "rotate"} = {}
    OBVIOUS
  <2> QED BY <2>1, FS_EmptySet DEF Turns
<1>8. SpentTrue(0, <<>>) /\ EndTrue(kind, <<>>)
  BY DEF SpentTrue, EndTrue
<1>9. GenTrue(kind, 0, <<>>)
  BY <1>7 DEF GenTrue
<1>10. ASSUME NEW p \in PermIds PROVE GrantTrue(kind, NoGrant, p, <<>>)
  BY NoGrantType, FeesOfNothing DEF GrantTrue
<1>11. Managed(evm)
  BY <1>6 DEF Managed
<1>12. Sound(evm)
  BY <1>5, <1>6, <1>8, <1>9, <1>10, <1>11 DEF Sound
<1>13. frames \in Seq(FrameType) /\ Len(frames) = 0 /\ \A k \in 1..Len(frames) : FALSE
  BY <1>2
<1>14. FundsReserved
  BY <1>13 DEF FundsReserved
<1> QED BY <1>2, <1>12, <1>13, <1>14 DEF EvmInv

LEMMA TickOK == ASSUME EvmInv, Tick PROVE EvmInv'
<1>1. Sound(evm) /\ UNCHANGED <<evm, frames>> /\ clock' \in Nat /\ evm.balance \in Nat
  BY DEF EvmInv, Tick, Sound, StorageType
<1>2. Sound(evm') /\ evm'.balance >= evm.balance /\ evm'.locked = evm.locked
  BY <1>1
<1> QED BY <1>1, <1>2, FramesStay

LEMMA StutterOK == ASSUME EvmInv, UNCHANGED evmVars PROVE EvmInv'
<1>1. Sound(evm) /\ UNCHANGED <<evm, frames, clock>> /\ clock \in Nat /\ evm.balance \in Nat
  BY DEF EvmInv, evmVars, Sound, StorageType
<1>2. Sound(evm') /\ evm'.balance >= evm.balance /\ evm'.locked = evm.locked
  BY <1>1
<1> QED BY <1>1, <1>2, FramesStay

LEMMA ManageStepOK ==
    ASSUME EvmInv, ManageStep
    PROVE  EvmInv'
<1>1. PICK dl \in Deadlines :
        \/ \E key \in Keys : updateAuthority(key, dl)
        \/ \E p \in PermIds, from \in 0..Horizon, limit \in FeeLimits : grantPermission(p, from, limit, dl)
        \/ \E p \in PermIds : revokePermission(p, dl)
        \/ \E t \in ModuleTypes, m \in Modules : installModule(t, m, dl) \/ uninstallModule(t, m, dl)
  BY DEF ManageStep
<1>2. \A from \in 0..Horizon : from \in Nat
  OBVIOUS
<1> QED BY <1>1, <1>2, RotateOK, PermissionOK, ModuleOK

LEMMA FactoryStepOK ==
    ASSUME EvmInv, FactoryStep
    PROVE  EvmInv'
<1>1. CASE \E fee \in NetworkFees, max \in MaxFees, dl \in Deadlines : deployAndInitV4(fee, max, dl)
  BY <1>1, CreationOK
<1> QED BY <1>1, FactoryOK DEF FactoryStep

\* Storage, frames and time have their types; what the log says of the nonce,
\* the generation and every grant holds, in the storage and in the storage
\* that a revert would bring back; and the frame that holds the lock can pay.
THEOREM EvmInvariance == EvmSpec => []EvmInv
<1>1. EvmInit => EvmInv
  BY EvmInitOK
<1>2. EvmInv /\ [EvmNext]_evmVars => EvmInv'
  <2> SUFFICES ASSUME EvmInv, [EvmNext]_evmVars PROVE EvmInv'
    OBVIOUS
  <2>1. CASE OwnerStep
    BY <2>1, OwnerStepOK
  <2>2. CASE ManageStep
    BY <2>2, ManageStepOK
  <2>3. CASE SessionStep
    BY <2>3, SessionStepOK
  <2>4. CASE FactoryStep
    BY <2>4, FactoryStepOK
  <2>5. CASE CallOut \/ PayRelayer
    BY <2>5, CallOutOK
  <2>6. CASE Return \/ Revert
    BY <2>6, CloseOK
  <2>7. CASE Tick
    BY <2>7, TickOK
  <2>8. CASE UNCHANGED evmVars
    BY <2>8, StutterOK
  <2> QED BY <2>1, <2>2, <2>3, <2>4, <2>5, <2>6, <2>7, <2>8 DEF EvmNext
<1> QED BY <1>1, <1>2, PTL DEF EvmSpec

\* A nonce or a sequence number never authorises a second effect, whatever
\* callees and reverts do.
THEOREM NeverSpentTwice == EvmSpec => []SpentOnce
<1>1. EvmInv => SpentOnce
  BY DEF EvmInv, Sound, SpentTrue, SpentOnce
<1> QED BY <1>1, EvmInvariance, PTL

\* No session acts after its revocation, nor, on an account with session
\* generations, after a rotation until the generation saturates.
THEOREM SessionsNeverOutlive == EvmSpec => []SessionsEnd
<1>1. \A k : RaisedGen(k) <=> Turns(evm.log, k) <= MaxGen
  BY DEF RaisedGen, Turns
<1>2. EvmInv => SessionsEnd
  BY <1>1 DEF EvmInv, Sound, EndTrue, SessionsEnd
<1> QED BY <1>2, EvmInvariance, PTL

\* What a frame was checked to afford is still there whenever it pays.
THEOREM FramesCanPay == EvmSpec => []FundsReserved
<1>1. EvmInv => FundsReserved
  BY DEF EvmInv
<1> QED BY <1>1, EvmInvariance, PTL

\* A session's lifetime fees on the capped entry points stay within the limit
\* its owner signed.
THEOREM SessionsStayInBudget == EvmSpec => []CappedFeesBounded
<1>1. EvmInv => CappedFeesBounded
  BY DEF EvmInv, Sound, GrantTrue, CappedFeesBounded
<1> QED BY <1>1, EvmInvariance, PTL

\* The factory always has an administrator, and counts them right.
THEOREM FactoryNeverOrphaned == EvmSpec => []FactoryManaged
<1>1. EvmInv => FactoryManaged
  BY DEF EvmInv, Sound, Managed, FactoryManaged
<1> QED BY <1>1, EvmInvariance, PTL

---------------------------------------------------------------------------
\* The Solana vaults

SvmVaultType == [status: {"none", "active", "closing"}, nonce: 0..MaxNonce, authority: PassKeys,
                 epoch: 0..MaxEpoch, lamports: Nat, turned: Nat, held: Nat]
SvmSessionType == [status: {"none", "active", "revoked"}, expires: Nat, used: Nat, seq: 0..MaxNonce,
                   epoch: 0..MaxEpoch, born: Nat]
TicketType == [live: BOOLEAN, deadline: Nat]

\* Generation number n, counted in a saturating byte.
Saturated(n) == IF n < MaxEpoch THEN n ELSE MaxEpoch

\* A vault closes orderly and counts its rotations.
VaultOK(st, ticket) ==
    /\ st \in SvmVaultType /\ ticket \in TicketType
    /\ ticket.live <=> st.status = "closing"
    /\ st.status = "closing" => st.lamports >= st.held
    /\ st.epoch = Saturated(st.turned)

VaultsOK ==
    /\ vaults \in [Addresses -> SvmVaultType] /\ tickets \in [Addresses -> TicketType]
    /\ \A v \in Addresses : VaultOK(vaults[v], tickets[v])

\* A session is stamped with the generation of the rotation it was born under.
SessionsOK ==
    /\ sessions \in [Addresses -> [SessionKeys -> SvmSessionType]]
    /\ \A v \in Addresses, s \in SessionKeys : sessions[v][s].epoch = Saturated(sessions[v][s].born)

TreasuryOK ==
    /\ revenue \in [ready: BOOLEAN, lamports: Nat, admins: Seq(Officers)]
    /\ revenue.ready => /\ Len(revenue.admins) \in 1..MaxOfficers
                        /\ revenue.lamports >= SmallRent
                        /\ \A i, j \in 1..Len(revenue.admins) :
                              revenue.admins[i] = revenue.admins[j] => i = j

SvmInv == VaultsOK /\ SessionsOK /\ TreasuryOK /\ tombs \subseteq Pids /\ chain \in Nat

LEMMA NoVaultOK ==
    ASSUME Addresses # {}
    PROVE  VaultOK(NoVault, NoTicket) /\ NoVault \in SvmVaultType /\ NoTicket \in TicketType
<1>1. (CHOOSE k \in PassKeys : TRUE) \in PassKeys
  BY SvmConstants
<1>2. 0 \in 0..MaxNonce /\ 0 \in 0..MaxEpoch /\ Saturated(0) = 0
  BY SvmConstants DEF Saturated
<1> QED BY <1>1, <1>2 DEF VaultOK, NoVault, NoTicket, SvmVaultType, TicketType

LEMMA NoSessionOK == NoSession \in SvmSessionType /\ NoSession.epoch = Saturated(NoSession.born)
BY SvmConstants DEF NoSession, SvmSessionType, Saturated

LEMMA SvmInitOK == SvmInit => SvmInv
<1> SUFFICES ASSUME SvmInit PROVE SvmInv
  OBVIOUS
<1>1. VaultsOK
  BY NoVaultOK DEF SvmInit, VaultsOK
<1>2. SessionsOK
  BY NoSessionOK DEF SvmInit, SessionsOK
<1>3. TreasuryOK
  <2>1. <<>> \in Seq(Officers)
    OBVIOUS
  <2> QED BY <2>1 DEF SvmInit, TreasuryOK
<1> QED BY <1>1, <1>2, <1>3 DEF SvmInit, SvmInv

\* One vault, or its ticket, is written.
LEMMA VaultWritten ==
    ASSUME VaultsOK, NEW v \in Addresses, NEW st, NEW ticket, VaultOK(st, ticket),
           vaults' = [vaults EXCEPT ![v] = st], tickets' = [tickets EXCEPT ![v] = ticket]
    PROVE  VaultsOK'
<1>1. st \in SvmVaultType /\ ticket \in TicketType
  BY DEF VaultOK
<1>2. vaults' \in [Addresses -> SvmVaultType] /\ tickets' \in [Addresses -> TicketType]
  BY <1>1 DEF VaultsOK
<1>3. \A w \in Addresses : /\ vaults'[w] = IF w = v THEN st ELSE vaults[w]
                           /\ tickets'[w] = IF w = v THEN ticket ELSE tickets[w]
  BY DEF VaultsOK
<1>4. \A w \in Addresses : VaultOK(vaults'[w], tickets'[w])
  BY <1>3 DEF VaultsOK
<1> QED BY <1>2, <1>4 DEF VaultsOK

LEMMA VaultAlone ==
    ASSUME VaultsOK, NEW v \in Addresses, NEW st, VaultOK(st, tickets[v]),
           vaults' = [vaults EXCEPT ![v] = st], UNCHANGED tickets
    PROVE  VaultsOK'
<1>1. tickets' = [tickets EXCEPT ![v] = tickets[v]]
  BY DEF VaultsOK
<1> QED BY <1>1, VaultWritten

\* A vault of which the runtime leaves st.
LEMMA LeftOK ==
    ASSUME VaultsOK, NEW v \in Addresses, NEW st, Left(v, st), UNCHANGED tickets,
           VaultOK(st, tickets[v]), st.status = "active"
    PROVE  VaultsOK'
<1> DEFINE rest == IF st.lamports = 0 THEN NoVault ELSE st
<1>1. VaultOK(rest, tickets[v])
  <2>1. tickets[v].live = FALSE /\ tickets[v] \in TicketType
    BY DEF VaultOK, TicketType
  <2>2. VaultOK(NoVault, tickets[v])
    BY <2>1, NoVaultOK DEF VaultOK, NoVault
  <2> QED BY <2>2
<1>2. vaults' = [vaults EXCEPT ![v] = rest]
  BY DEF Left
<1> HIDE DEF rest
<1> QED BY <1>1, <1>2, VaultAlone

LEMMA SvmFeeType == \A fee \in Nat : protocol_fee(fee) \in Nat /\ total_fee(fee) \in Nat
BY DEF protocol_fee, total_fee

LEMMA EarnOK ==
    ASSUME TreasuryOK, NEW fee \in Nat, revenue.ready, Earn(fee)
    PROVE  TreasuryOK'
<1>1. protocol_fee(fee) \in Nat
  BY SvmFeeType
<1>2. SmallRent \in Nat
  BY SvmConstants
<1> DEFINE n == revenue.lamports + protocol_fee(fee)
<1>3. revenue \in [ready: BOOLEAN, lamports: Nat, admins: Seq(Officers)] /\ revenue.lamports >= SmallRent
  BY DEF TreasuryOK
<1>4. n \in Nat /\ n >= SmallRent
  BY <1>1, <1>2, <1>3
<1>5. revenue' = [revenue EXCEPT !.lamports = n]
  BY DEF Earn
<1> HIDE DEF n
<1>6. /\ revenue' \in [ready: BOOLEAN, lamports: Nat, admins: Seq(Officers)]
      /\ revenue'.lamports = n /\ revenue'.admins = revenue.admins
  BY <1>3, <1>4, <1>5
<1> QED BY <1>4, <1>6 DEF TreasuryOK

\* The nonce of a living vault is spent.
LEMMA BurnedOK ==
    ASSUME VaultsOK, NEW v \in Addresses, MayStep(v)
    PROVE  /\ VaultOK(Burned(v), tickets[v]) /\ VaultOK(vaults[v], tickets[v])
           /\ vaults[v] \in SvmVaultType /\ Burned(v) \in SvmVaultType
           /\ Burned(v) = [vaults[v] EXCEPT !.nonce = vaults[v].nonce + 1]
<1>1. VaultOK(vaults[v], tickets[v]) /\ vaults[v] \in SvmVaultType
  BY DEF VaultsOK
<1>2. vaults[v].nonce + 1 \in 0..MaxNonce
  BY <1>1, SvmConstants DEF MayStep, SvmVaultType
<1> QED BY <1>1, <1>2 DEF VaultOK, Burned, SvmVaultType

LEMMA SpentOK ==
    ASSUME SvmInv, NEW v \in Addresses, NEW amount \in Nat, NEW fee \in Nat, NEW max, NEW e,
           Spent(v, amount, fee, max, e)
    PROVE  SvmInv'
<1> DEFINE st == [Burned(v) EXCEPT !.lamports = vaults[v].lamports - amount - total_fee(fee)]
<1>1. MayStep(v) /\ vaults[v].status = "active" /\ vaults[v].lamports >= amount + total_fee(fee)
  BY DEF Spent, require_active
<1>2. VaultsOK /\ total_fee(fee) \in Nat
  BY SvmFeeType DEF SvmInv
<1>3. /\ VaultOK(Burned(v), tickets[v]) /\ Burned(v) \in SvmVaultType /\ vaults[v] \in SvmVaultType
      /\ Burned(v) = [vaults[v] EXCEPT !.nonce = vaults[v].nonce + 1]
  BY <1>1, <1>2, BurnedOK
<1>4. vaults[v].lamports - amount - total_fee(fee) \in Nat
  BY <1>1, <1>2, <1>3 DEF SvmVaultType
<1>5. Burned(v).lamports = vaults[v].lamports /\ Burned(v).status = "active"
  BY <1>1, <1>3 DEF SvmVaultType
<1>6. VaultOK(st, tickets[v]) /\ st.status = "active"
  BY <1>3, <1>4, <1>5 DEF VaultOK, SvmVaultType
<1>7. Left(v, st)
  BY <1>5 DEF Spent
<1> HIDE DEF st
<1>8. VaultsOK'
  BY <1>2, <1>6, <1>7, LeftOK DEF Spent
<1>9. TreasuryOK'
  BY EarnOK DEF Spent, FeeFits, SvmInv
<1> QED BY <1>8, <1>9 DEF Spent, SvmInv, SessionsOK

LEMMA ActivateOK ==
    ASSUME SvmInv, NEW v \in Addresses, NEW fee \in Nat, NEW max, NEW e, activate_v4(v, fee, max, e)
    PROVE  SvmInv'
<1> DEFINE funded == IF vaults[v].lamports < VaultRent THEN VaultRent ELSE vaults[v].lamports
           st == [NoVault EXCEPT !.status = "active", !.authority = ClaimKey(v),
                                 !.lamports = funded - total_fee(fee)]
<1>1. VaultsOK /\ total_fee(fee) \in Nat /\ VaultOK(vaults[v], tickets[v]) /\ vaults[v] \in SvmVaultType
  BY SvmFeeType DEF SvmInv, VaultsOK
<1>2. vaults[v].status = "none" /\ tickets[v].live = FALSE /\ tickets[v] \in TicketType
  BY <1>1 DEF activate_v4, Exists, VaultOK, TicketType
<1>3. funded - total_fee(fee) \in Nat
  <2>1. funded \in Nat /\ VaultRent \in Nat /\ funded >= VaultRent + total_fee(fee)
    BY <1>1, SvmConstants DEF activate_v4, SvmVaultType
  <2> HIDE DEF funded
  <2> QED BY <1>1, <2>1
<1>4. VaultOK(st, tickets[v]) /\ st.status = "active"
  <2>1. ClaimKey(v) \in PassKeys /\ VaultOK(NoVault, NoTicket) /\ NoVault \in SvmVaultType
    BY SvmConstants, NoVaultOK DEF ClaimKey
  <2> HIDE DEF funded
  <2> QED BY <1>2, <1>3, <2>1 DEF VaultOK, SvmVaultType, NoVault
<1>5. Left(v, st)
  BY DEF activate_v4
<1> HIDE DEF st
<1>6. VaultsOK'
  BY <1>1, <1>4, <1>5, LeftOK DEF activate_v4
<1>7. TreasuryOK'
  BY EarnOK DEF activate_v4, FeeFits, SvmInv
<1> QED BY <1>6, <1>7 DEF activate_v4, SvmInv, SessionsOK

LEMMA GenerationUp ==
    ASSUME NEW n \in Nat
    PROVE  /\ bump_session_generation(Saturated(n)) = Saturated(n + 1)
           /\ Saturated(n) \in 0..MaxEpoch
BY SvmConstants DEF bump_session_generation, Saturated

LEMMA RotateVaultOK ==
    ASSUME SvmInv, NEW v \in Addresses, NEW key \in PassKeys, NEW e,
           update_authority(v, key, e) \/ update_authority_v5(v, key, e)
    PROVE  SvmInv'
<1>1. MayStep(v) /\ VaultsOK
  BY DEF update_authority, update_authority_v5, SvmInv
<1>2. /\ VaultOK(Burned(v), tickets[v]) /\ Burned(v) \in SvmVaultType
      /\ VaultOK(vaults[v], tickets[v]) /\ vaults[v] \in SvmVaultType
      /\ Burned(v) = [vaults[v] EXCEPT !.nonce = vaults[v].nonce + 1]
  BY <1>1, BurnedOK
<1>3. VaultsOK'
  <2>1. CASE update_authority(v, key, e)
    <3> DEFINE gen == bump_session_generation(vaults[v].epoch)
               st == [Burned(v) EXCEPT !.authority = key, !.epoch = gen, !.turned = vaults[v].turned + 1]
    <3>1. Burned(v).epoch = vaults[v].epoch /\ Burned(v).turned = vaults[v].turned
      BY <1>2 DEF SvmVaultType
    <3>2. vaults' = [vaults EXCEPT ![v] = st] /\ UNCHANGED tickets
      BY <2>1, <3>1 DEF update_authority
    <3>3. gen = Saturated(vaults[v].turned + 1) /\ gen \in 0..MaxEpoch /\ vaults[v].turned + 1 \in Nat
      BY <1>2, GenerationUp DEF VaultOK, SvmVaultType
    <3>4. VaultOK(st, tickets[v])
      <4> HIDE DEF gen
      <4> QED BY <1>2, <3>3 DEF VaultOK, SvmVaultType
    <3> HIDE DEF st
    <3> QED BY <1>1, <3>2, <3>4, VaultAlone
  <2>2. CASE update_authority_v5(v, key, e)
    <3> DEFINE st == [Burned(v) EXCEPT !.authority = key]
    <3>1. vaults' = [vaults EXCEPT ![v] = st] /\ UNCHANGED tickets
      BY <2>2 DEF update_authority_v5
    <3>2. VaultOK(st, tickets[v])
      BY <1>2 DEF VaultOK, SvmVaultType
    <3> HIDE DEF st
    <3> QED BY <1>1, <3>1, <3>2, VaultAlone
  <2> QED BY <2>1, <2>2
<1>4. UNCHANGED <<sessions, tombs, revenue, chain>>
  BY DEF update_authority, update_authority_v5
<1> QED BY <1>3, <1>4 DEF SvmInv, SessionsOK, TreasuryOK

LEMMA CloseStepOK ==
    ASSUME SvmInv, NEW v \in Addresses, NEW e,
           close_request(v, e) \/ close_cancel(v, e) \/ close_finalize(v)
    PROVE  SvmInv'
<1>1. VaultsOK /\ SmallRent \in Nat
  BY SvmConstants DEF SvmInv
<1>2. VaultsOK' /\ tombs' \subseteq Pids /\ UNCHANGED <<sessions, revenue, chain>>
  <2>1. CASE close_request(v, e)
    <3> DEFINE st == [Burned(v) EXCEPT !.status = "closing", !.held = vaults[v].lamports]
               ticket == [live |-> TRUE, deadline |-> chain + CloseGrace]
    <3>1. /\ VaultOK(Burned(v), tickets[v]) /\ Burned(v) \in SvmVaultType
          /\ VaultOK(vaults[v], tickets[v]) /\ vaults[v] \in SvmVaultType
          /\ Burned(v) = [vaults[v] EXCEPT !.nonce = vaults[v].nonce + 1]
      BY <1>1, <2>1, BurnedOK DEF close_request
    <3>2. ticket \in TicketType
      BY SvmConstants DEF TicketType, SvmInv
    <3>3. VaultOK(st, ticket)
      <4>1. /\ st \in SvmVaultType /\ st.status = "closing" /\ st.held = st.lamports
            /\ st.epoch = vaults[v].epoch /\ st.turned = vaults[v].turned /\ st.lamports \in Nat
        BY <3>1 DEF SvmVaultType
      <4>2. ticket.live
        OBVIOUS
      <4> HIDE DEF st, ticket
      <4> QED BY <3>1, <3>2, <4>1, <4>2 DEF VaultOK
    <3>4. vaults' = [vaults EXCEPT ![v] = st] /\ tickets' = [tickets EXCEPT ![v] = ticket]
      BY <2>1 DEF close_request
    <3> HIDE DEF st, ticket
    <3>5. VaultsOK'
      BY <1>1, <3>3, <3>4, VaultWritten
    <3> QED BY <2>1, <3>5 DEF close_request, SvmInv
  <2>2. CASE close_cancel(v, e)
    <3> DEFINE st == [Burned(v) EXCEPT !.status = "active", !.lamports = vaults[v].lamports + SmallRent]
    <3>1. /\ VaultOK(Burned(v), tickets[v]) /\ Burned(v) \in SvmVaultType
          /\ VaultOK(vaults[v], tickets[v]) /\ vaults[v] \in SvmVaultType
          /\ Burned(v) = [vaults[v] EXCEPT !.nonce = vaults[v].nonce + 1]
      BY <1>1, <2>2, BurnedOK DEF close_cancel
    <3>2. NoTicket \in TicketType /\ ~NoTicket.live
      BY DEF TicketType, NoTicket
    <3>3. VaultOK(st, NoTicket)
      <4>1. vaults[v].lamports + SmallRent \in Nat
        BY <1>1, <3>1 DEF SvmVaultType
      <4>2. /\ st \in SvmVaultType /\ st.status = "active"
            /\ st.epoch = vaults[v].epoch /\ st.turned = vaults[v].turned
        BY <3>1, <4>1 DEF SvmVaultType
      <4> HIDE DEF st
      <4> QED BY <3>1, <3>2, <4>2 DEF VaultOK
    <3>4. Burned(v).lamports = vaults[v].lamports
      BY <3>1 DEF SvmVaultType
    <3>5. vaults' = [vaults EXCEPT ![v] = st] /\ tickets' = [tickets EXCEPT ![v] = NoTicket]
      BY <2>2, <3>4 DEF close_cancel
    <3> HIDE DEF st
    <3>6. VaultsOK'
      BY <1>1, <3>3, <3>5, VaultWritten
    <3> QED BY <2>2, <3>6 DEF close_cancel, SvmInv
  <2>3. CASE close_finalize(v)
    <3>1. VaultsOK'
      BY <1>1, <2>3, NoVaultOK, VaultWritten DEF close_finalize
    <3>2. PidOf(v) \in Pids
      BY SvmConstants DEF PidOf
    <3> QED BY <2>3, <3>1, <3>2 DEF close_finalize, SvmInv
  <2> QED BY <2>1, <2>2, <2>3
<1> QED BY <1>2 DEF SvmInv, SessionsOK, TreasuryOK

\* One session record is written.
LEMMA SessionWritten ==
    ASSUME SessionsOK, NEW v \in Addresses, NEW s \in SessionKeys, NEW x \in SvmSessionType,
           x.epoch = Saturated(x.born), sessions' = [sessions EXCEPT ![v][s] = x]
    PROVE  SessionsOK'
<1>1. sessions' \in [Addresses -> [SessionKeys -> SvmSessionType]]
  BY DEF SessionsOK
<1>2. \A w \in Addresses, t \in SessionKeys :
          sessions'[w][t] = IF w = v /\ t = s THEN x ELSE sessions[w][t]
  BY DEF SessionsOK
<1> QED BY <1>1, <1>2 DEF SessionsOK

LEMMA NonceSpent ==
    ASSUME VaultsOK, NEW v \in Addresses, MayStep(v),
           vaults' = [vaults EXCEPT ![v] = Burned(v)], UNCHANGED tickets
    PROVE  VaultsOK'
BY BurnedOK, VaultAlone

GameKeeps == VaultsOK' /\ SessionsOK' /\ UNCHANGED <<tickets, tombs, revenue, chain>>

LEMMA GameStepOK ==
    ASSUME SvmInv, GameStep
    PROVE  SvmInv'
<1>1. PICK v \in Addresses, s \in SessionKeys :
          \/ \E e \in Expiries :
                \/ \E x \in 0..(SvmHorizon + SessionTtl) : register_session(v, s, x, e)
                \/ revoke_session(v, s, e) \/ close_session(v, s, e)
          \/ \E seq \in 0..MaxNonce : session_execute(v, s, seq)
  BY DEF GameStep
<1>2. VaultsOK /\ SessionsOK /\ sessions[v][s] \in SvmSessionType /\ chain \in Nat
      /\ sessions[v][s].epoch = Saturated(sessions[v][s].born)
  BY DEF SvmInv, SessionsOK
<1>3. vaults[v] \in SvmVaultType /\ vaults[v].epoch = Saturated(vaults[v].turned)
  BY <1>2 DEF VaultsOK, VaultOK
<1>4. GameKeeps
  <2>1. ASSUME NEW e, NEW x \in 0..(SvmHorizon + SessionTtl), register_session(v, s, x, e) PROVE GameKeeps
    <3> DEFINE new == [status |-> "active", expires |-> x, used |-> chain, seq |-> 0,
                       epoch |-> vaults[v].epoch, born |-> vaults[v].turned]
    <3>1. x \in Nat /\ 0 \in 0..MaxNonce
      BY <2>1, SvmConstants
    <3>2. new \in SvmSessionType /\ new.epoch = Saturated(new.born)
      BY <1>2, <1>3, <3>1 DEF SvmSessionType, SvmVaultType
    <3>3. sessions' = [sessions EXCEPT ![v][s] = new]
      BY <2>1 DEF register_session
    <3> HIDE DEF new
    <3>4. SessionsOK'
      BY <1>2, <3>2, <3>3, SessionWritten
    <3>5. MayStep(v) /\ vaults' = [vaults EXCEPT ![v] = Burned(v)] /\ UNCHANGED <<tickets, tombs, revenue, chain>>
      BY <2>1 DEF register_session
    <3>6. VaultsOK'
      BY <1>2, <3>5, NonceSpent
    <3> QED BY <3>4, <3>5, <3>6 DEF GameKeeps
  <2>2. ASSUME NEW e, revoke_session(v, s, e) PROVE GameKeeps
    <3> DEFINE new == [sessions[v][s] EXCEPT !.status = "revoked"]
    <3>1. new \in SvmSessionType /\ new.epoch = Saturated(new.born)
      BY <1>2 DEF SvmSessionType
    <3>2. sessions' = [sessions EXCEPT ![v][s] = new]
      BY <1>2, <2>2 DEF revoke_session, SessionsOK
    <3> HIDE DEF new
    <3> QED BY <1>2, <2>2, <3>1, <3>2, SessionWritten, NonceSpent DEF GameKeeps, revoke_session
  <2>3. ASSUME NEW e, close_session(v, s, e) PROVE GameKeeps
    BY <1>2, <2>3, NoSessionOK, SessionWritten, NonceSpent DEF GameKeeps, close_session
  <2>4. ASSUME NEW seq, session_execute(v, s, seq) PROVE GameKeeps
    <3> DEFINE new == [sessions[v][s] EXCEPT !.seq = sessions[v][s].seq + 1, !.used = chain]
    <3>1. sessions[v][s].seq + 1 \in 0..MaxNonce
      BY <1>2, <2>4, SvmConstants DEF session_execute, SvmSessionType
    <3>2. new \in SvmSessionType /\ new.epoch = Saturated(new.born)
      BY <1>2, <3>1 DEF SvmSessionType
    <3>3. sessions' = [sessions EXCEPT ![v][s] = new]
      BY <1>2, <2>4 DEF session_execute, SessionsOK, SvmSessionType
    <3> HIDE DEF new
    <3> QED BY <1>2, <2>4, <3>2, <3>3, SessionWritten DEF GameKeeps, session_execute, VaultsOK
  <2> QED BY <1>1, <2>1, <2>2, <2>3, <2>4
<1> QED BY <1>4 DEF GameKeeps, SvmInv, TreasuryOK

---------------------------------------------------------------------------
\* The revenue vault

\* Removing slot i of a list without repetitions leaves one without.
LEMMA SwapRemoveKeeps ==
    ASSUME NEW list \in Seq(Officers), NEW i \in 1..Len(list),
           \A j, k \in 1..Len(list) : list[j] = list[k] => j = k
    PROVE  /\ SwapRemove(list, i) \in Seq(Officers)
           /\ Len(SwapRemove(list, i)) = Len(list) - 1
           /\ \A j, k \in 1..(Len(list) - 1) :
                 SwapRemove(list, i)[j] = SwapRemove(list, i)[k] => j = k
<1> DEFINE n == Len(list) - 1
           short == [k \in 1..n |-> IF k = i THEN list[Len(list)] ELSE list[k]]
<1>1. n \in Nat /\ Len(list) \in 1..Len(list) /\ Len(list) = n + 1 /\ 1..n \subseteq 1..Len(list)
  OBVIOUS
<1>2. \A k \in 1..Len(list) : list[k] \in Officers
  OBVIOUS
<1>3. short \in [1..n -> Officers]
  <2> HIDE DEF n
  <2> QED BY <1>1, <1>2
<1>4. short \in Seq(Officers) /\ Len(short) = n
  <2> HIDE DEF n, short
  <2> QED BY <1>1, <1>3
<1>5. \A j, k \in 1..n : short[j] = short[k] => j = k
  <2> SUFFICES ASSUME NEW j \in 1..n, NEW k \in 1..n, short[j] = short[k] PROVE j = k
    OBVIOUS
  <2>1. j \in 1..Len(list) /\ k \in 1..Len(list) /\ j # Len(list) /\ k # Len(list)
    <3>1. j <= n /\ k <= n
      OBVIOUS
    <3> HIDE DEF n, short
    <3> QED BY <1>1, <3>1
  <2>2. short[j] = IF j = i THEN list[Len(list)] ELSE list[j]
    OBVIOUS
  <2>3. short[k] = IF k = i THEN list[Len(list)] ELSE list[k]
    OBVIOUS
  <2> HIDE DEF short, n
  <2> QED BY <1>1, <2>1, <2>2, <2>3
<1> HIDE DEF short
<1> QED BY <1>4, <1>5 DEF SwapRemove, short

LEMMA RevenueStepOK ==
    ASSUME SvmInv, RevenueStep
    PROVE  SvmInv'
<1>1. PICK by \in Officers :
          \/ init_treasury(by)
          \/ \E a \in Officers : add_admin(by, a) \/ remove_admin(by, a)
          \/ \E amount \in Amounts : withdraw_revenue(by, amount)
  BY DEF RevenueStep
<1> USE DEF SvmInv
<1>2. TreasuryOK /\ SmallRent \in Nat /\ MaxOfficers \in Nat \ {0} /\ Amounts \subseteq Nat
  BY SvmConstants
<1>3. TreasuryOK' /\ UNCHANGED <<vaults, sessions, tickets, tombs, chain>>
  <2>1. CASE init_treasury(by)
    <3>1. << by >> \in Seq(Officers) /\ Len(<< by >>) = 1 /\ 1 \in 1..MaxOfficers
      BY <1>2
    <3>2. revenue' = [ready |-> TRUE, lamports |-> SmallRent, admins |-> << by >>]
      BY <2>1 DEF init_treasury
    <3> QED BY <1>2, <2>1, <3>1, <3>2 DEF init_treasury, TreasuryOK
  <2>2. ASSUME NEW a \in Officers, add_admin(by, a)
        PROVE  TreasuryOK' /\ UNCHANGED <<vaults, sessions, tickets, tombs, chain>>
    <3> DEFINE list == revenue.admins
               more == Append(list, a)
    <3>1. list \in Seq(Officers) /\ revenue.ready /\ Len(list) < MaxOfficers /\ Len(list) \in Nat
      BY <1>2, <2>2 DEF add_admin, TreasuryOK
    <3>2. \A i \in 1..Len(list) : list[i] # a
      BY <2>2 DEF add_admin, is_admin
    <3>3. /\ more \in Seq(Officers) /\ Len(more) = Len(list) + 1
          /\ \A i \in 1..Len(more) : more[i] = IF i = Len(list) + 1 THEN a ELSE list[i]
      BY <3>1
    <3>4. \A i, j \in 1..Len(list) : list[i] = list[j] => i = j
      BY <1>2, <3>1 DEF TreasuryOK
    <3>5. revenue' = [revenue EXCEPT !.admins = more]
      BY <2>2 DEF add_admin
    <3> HIDE DEF more
    <3>6. \A i, j \in 1..Len(more) : more[i] = more[j] => i = j
      <4> HIDE DEF list
      <4> QED BY <3>1, <3>2, <3>3, <3>4
    <3>7. Len(more) \in 1..MaxOfficers
      BY <1>2, <3>1, <3>3
    <3>8. /\ revenue' \in [ready: BOOLEAN, lamports: Nat, admins: Seq(Officers)]
          /\ revenue'.admins = more /\ revenue'.lamports = revenue.lamports
      BY <1>2, <3>3, <3>5 DEF TreasuryOK
    <3>9. TreasuryOK'
      BY <1>2, <3>1, <3>6, <3>7, <3>8 DEF TreasuryOK
    <3> QED BY <2>2, <3>9 DEF add_admin
  <2>3. ASSUME NEW a \in Officers, remove_admin(by, a)
        PROVE  TreasuryOK' /\ UNCHANGED <<vaults, sessions, tickets, tombs, chain>>
    <3> DEFINE list == revenue.admins
    <3>1. PICK i \in 1..Len(list) : revenue' = [revenue EXCEPT !.admins = SwapRemove(list, i)]
      BY <2>3 DEF remove_admin
    <3> DEFINE less == SwapRemove(list, i)
    <3>2. list \in Seq(Officers) /\ revenue.ready /\ Len(list) > 1 /\ Len(list) \in 1..MaxOfficers
      BY <1>2, <2>3 DEF remove_admin, TreasuryOK
    <3>3. \A j, k \in 1..Len(list) : list[j] = list[k] => j = k
      BY <1>2, <3>2 DEF TreasuryOK
    <3>4. /\ less \in Seq(Officers) /\ Len(less) = Len(list) - 1
          /\ \A j, k \in 1..(Len(list) - 1) : less[j] = less[k] => j = k
      <4> HIDE DEF list
      <4> QED BY <3>2, <3>3, SwapRemoveKeeps
    <3> HIDE DEF less
    <3>5. /\ revenue' \in [ready: BOOLEAN, lamports: Nat, admins: Seq(Officers)]
          /\ revenue'.admins = less /\ revenue'.lamports = revenue.lamports
      BY <1>2, <3>1, <3>4 DEF TreasuryOK, less
    <3>6. Len(less) \in 1..MaxOfficers
      BY <1>2, <3>2, <3>4
    <3>7. TreasuryOK'
      BY <1>2, <3>2, <3>4, <3>5, <3>6 DEF TreasuryOK
    <3> QED BY <2>3, <3>7 DEF remove_admin
  <2>4. ASSUME NEW amount \in Amounts, withdraw_revenue(by, amount)
        PROVE  TreasuryOK' /\ UNCHANGED <<vaults, sessions, tickets, tombs, chain>>
    <3>1. revenue.lamports \in Nat /\ amount \in Nat /\ amount <= revenue.lamports - SmallRent /\ revenue.ready
      BY <1>2, <2>4 DEF withdraw_revenue, TreasuryOK
    <3>2. revenue.lamports - amount \in Nat /\ revenue.lamports - amount >= SmallRent
      BY <1>2, <3>1
    <3>3. revenue' = [revenue EXCEPT !.lamports = revenue.lamports - amount]
      BY <2>4 DEF withdraw_revenue
    <3>4. TreasuryOK'
      BY <1>2, <3>1, <3>2, <3>3 DEF TreasuryOK
    <3> QED BY <2>4, <3>4 DEF withdraw_revenue
  <2> QED BY <1>1, <2>1, <2>2, <2>3, <2>4
<1> QED BY <1>3 DEF VaultsOK, SessionsOK

---------------------------------------------------------------------------

LEMMA VaultStepOK ==
    ASSUME SvmInv, VaultStep
    PROVE  SvmInv'
<1>1. SvmFees \subseteq Nat /\ Amounts \subseteq Nat
  BY SvmConstants
<1>2. PICK v \in Addresses, e \in Expiries :
        \/ \E fee \in SvmFees, max \in SvmCaps :
              \/ activate_v4(v, fee, max, e)
              \/ \E amount \in Amounts : withdraw_sol_v4(v, amount, fee, max, e)
              \/ withdraw_token_v4(v, fee, max, e)
              \/ execute_v4(v, fee, max, e)
              \/ execute_v5(v, fee, e)
        \/ \E key \in PassKeys : update_authority(v, key, e) \/ update_authority_v5(v, key, e)
        \/ close_request(v, e) \/ close_cancel(v, e) \/ close_finalize(v)
  BY DEF VaultStep
<1>3. ASSUME NEW fee \in SvmFees, NEW max \in SvmCaps,
             \/ activate_v4(v, fee, max, e)
             \/ \E amount \in Amounts : withdraw_sol_v4(v, amount, fee, max, e)
             \/ withdraw_token_v4(v, fee, max, e)
             \/ execute_v4(v, fee, max, e)
             \/ execute_v5(v, fee, e)
      PROVE  SvmInv'
  <2>1. fee \in Nat
    BY <1>1
  <2>2. CASE activate_v4(v, fee, max, e)
    BY <2>1, <2>2, ActivateOK
  <2>3. CASE \E amount \in Amounts : withdraw_sol_v4(v, amount, fee, max, e)
    BY <1>1, <2>1, <2>3, SpentOK DEF withdraw_sol_v4
  <2>4. CASE withdraw_token_v4(v, fee, max, e) \/ execute_v4(v, fee, max, e) \/ execute_v5(v, fee, e)
    BY <2>1, <2>4, SpentOK DEF withdraw_token_v4, execute_v4, execute_v5
  <2> QED BY <1>3, <2>2, <2>3, <2>4
<1> QED BY <1>2, <1>3, RotateVaultOK, CloseStepOK

LEMMA FundOK ==
    ASSUME SvmInv, NEW v \in Addresses, NEW amount \in Gifts, Fund(v, amount)
    PROVE  SvmInv'
<1> DEFINE st == [vaults[v] EXCEPT !.lamports = vaults[v].lamports + amount]
<1>1. VaultsOK /\ VaultOK(vaults[v], tickets[v]) /\ vaults[v] \in SvmVaultType /\ amount \in Nat
  BY SvmConstants DEF SvmInv, VaultsOK
<1>2. VaultOK(st, tickets[v])
  BY <1>1 DEF VaultOK, SvmVaultType
<1>3. vaults' = [vaults EXCEPT ![v] = st] /\ UNCHANGED tickets
  BY <1>1 DEF Fund, VaultsOK
<1> HIDE DEF st
<1>4. VaultsOK'
  BY <1>1, <1>2, <1>3, VaultAlone
<1> QED BY <1>4 DEF Fund, SvmInv, SessionsOK, TreasuryOK

LEMMA SvmStepOK == SvmInv /\ [SvmNext]_svmVars => SvmInv'
<1> SUFFICES ASSUME SvmInv, [SvmNext]_svmVars PROVE SvmInv'
  OBVIOUS
<1>1. CASE VaultStep
  BY <1>1, VaultStepOK
<1>2. CASE GameStep
  BY <1>2, GameStepOK
<1>3. CASE RevenueStep
  BY <1>3, RevenueStepOK
<1>4. CASE SvmTick
  BY <1>4 DEF SvmTick, SvmInv, VaultsOK, SessionsOK, TreasuryOK
<1>5. CASE \E v \in Addresses, amount \in Gifts : Fund(v, amount)
  BY <1>5, FundOK
<1>6. CASE UNCHANGED svmVars
  BY <1>6 DEF svmVars, SvmInv, VaultsOK, SessionsOK, TreasuryOK
<1> QED BY <1>1, <1>2, <1>3, <1>4, <1>5, <1>6 DEF SvmNext

\* Vaults, tickets, sessions and the revenue vault keep their types; the
\* generation of a vault and of a session says how many rotations it has seen.
THEOREM SvmInvariance == SvmSpec => []SvmInv
BY SvmInitOK, SvmStepOK, PTL DEF SvmSpec

\* A vault has a ticket exactly while it closes, and keeps what it had.
THEOREM ClosesOrderly == SvmSpec => []CloseOrderly
<1>1. SvmInv => CloseOrderly
  BY DEF SvmInv, VaultsOK, VaultOK, CloseOrderly
<1> QED BY <1>1, SvmInvariance, PTL

\* Below the ceiling a generation says how often the authority was rotated,
\* so a session that passes the comparison was born under the same one.
THEOREM SessionsEndWithAuthority == SvmSpec => SessionsDieOnRotation
<1> DEFINE Dies == \A v \in Addresses, s \in SessionKeys :
          sessions'[v][s].seq > sessions[v][s].seq =>
              sessions[v][s].born = vaults[v].turned \/ vaults[v].epoch = MaxEpoch
<1>1. SvmInv /\ [SvmNext]_svmVars => [Dies]_svmVars
  <2> SUFFICES ASSUME SvmInv, SvmNext, NEW v \in Addresses, NEW s \in SessionKeys,
                      sessions'[v][s].seq > sessions[v][s].seq, vaults[v].epoch # MaxEpoch
               PROVE  sessions[v][s].born = vaults[v].turned
    OBVIOUS
  <2>1. sessions \in [Addresses -> [SessionKeys -> SvmSessionType]] /\ sessions[v][s].seq \in Nat
    BY DEF SvmInv, SessionsOK, SvmSessionType
  <2>2. sessions' # sessions /\ sessions'[v][s] # sessions[v][s]
    BY <2>1
  <2>3. ASSUME NEW w \in Addresses, NEW t \in SessionKeys, NEW x, NEW e,
               register_session(w, t, x, e) PROVE FALSE
    <3>1. sessions'[v][s] = IF w = v /\ t = s
             THEN [status |-> "active", expires |-> x, used |-> chain, seq |-> 0,
                   epoch |-> vaults[w].epoch, born |-> vaults[w].turned]
             ELSE sessions[v][s]
      BY <2>1, <2>3 DEF register_session
    <3> QED BY <2>1, <2>2, <3>1
  <2>4. ASSUME NEW w \in Addresses, NEW t \in SessionKeys, NEW e,
               revoke_session(w, t, e) \/ close_session(w, t, e) PROVE FALSE
    <3>1. CASE revoke_session(w, t, e)
      <4>1. sessions' = [sessions EXCEPT ![w][t].status = "revoked"]
        BY <3>1 DEF revoke_session
      <4>2. sessions'[v][s].seq = sessions[v][s].seq
        <5>1. sessions[v][s] \in SvmSessionType
          BY <2>1
        <5> QED BY <2>1, <4>1, <5>1 DEF SvmSessionType
      <4> QED BY <2>1, <4>2
    <3>2. CASE close_session(w, t, e)
      <4>1. sessions'[v][s] = IF w = v /\ t = s THEN NoSession ELSE sessions[v][s]
        BY <2>1, <3>2 DEF close_session
      <4> QED BY <2>1, <2>2, <4>1 DEF NoSession
    <3> QED BY <2>4, <3>1, <3>2
  <2>5. ASSUME NEW w \in Addresses, NEW t \in SessionKeys, NEW seq, session_execute(w, t, seq)
        PROVE  check_session_generation(v, s)
    <3>1. w = v /\ t = s
      BY <2>1, <2>2, <2>5 DEF session_execute
    <3> QED BY <2>5, <3>1 DEF session_execute
  <2>6. sessions' = sessions \/ GameStep
    <3>1. VaultStep => UNCHANGED sessions
      <4>1. \A w, amount, fee, max, e : Spent(w, amount, fee, max, e) => UNCHANGED sessions
        BY DEF Spent
      <4>2. \A w, fee, max, e : activate_v4(w, fee, max, e) => UNCHANGED sessions
        BY DEF activate_v4
      <4>3. \A w, key, e : update_authority(w, key, e) \/ update_authority_v5(w, key, e) => UNCHANGED sessions
        BY DEF update_authority, update_authority_v5
      <4>4. \A w, e : close_request(w, e) \/ close_cancel(w, e) \/ close_finalize(w) => UNCHANGED sessions
        BY DEF close_request, close_cancel, close_finalize
      <4> QED
        BY <4>1, <4>2, <4>3, <4>4, Zenon DEF VaultStep, withdraw_sol_v4, withdraw_token_v4, execute_v4, execute_v5
    <3>2. RevenueStep => UNCHANGED sessions
      BY DEF RevenueStep, init_treasury, add_admin, remove_admin, withdraw_revenue
    <3>3. SvmTick \/ (\E w \in Addresses, amount \in Gifts : Fund(w, amount)) => UNCHANGED sessions
      BY DEF SvmTick, Fund
    <3> QED BY <3>1, <3>2, <3>3 DEF SvmNext
  <2>7. check_session_generation(v, s)
    BY <2>2, <2>3, <2>4, <2>5, <2>6 DEF GameStep
  <2>8. /\ sessions[v][s].epoch = Saturated(sessions[v][s].born) /\ sessions[v][s].born \in Nat
        /\ vaults[v].epoch = Saturated(vaults[v].turned) /\ vaults[v].turned \in Nat
    BY DEF SvmInv, SessionsOK, SvmSessionType, VaultsOK, VaultOK, SvmVaultType
  <2> QED BY <2>7, <2>8 DEF check_session_generation, Saturated
<1> QED BY <1>1, SvmInvariance, PTL DEF SvmSpec, SessionsDieOnRotation

\* The revenue vault has an administrator, each holds one slot, and its rent
\* stays.
THEOREM TreasuryNeverOrphaned == SvmSpec => []TreasuryManaged
<1>1. SvmInv => TreasuryManaged
  <2> SUFFICES ASSUME SvmInv, revenue.ready
               PROVE  Cardinality({revenue.admins[i] : i \in 1..Len(revenue.admins)}) = Len(revenue.admins)
    BY DEF SvmInv, TreasuryOK, TreasuryManaged
  <2> DEFINE list == revenue.admins
             S == {list[i] : i \in 1..Len(list)}
  <2>1. list \in Seq(Officers) /\ Len(list) \in Nat
    BY DEF SvmInv, TreasuryOK
  <2>2. \A i, j \in 1..Len(list) : list[i] = list[j] => i = j
    BY DEF SvmInv, TreasuryOK
  <2>3. [i \in 1..Len(list) |-> list[i]] \in Bijection(1..Len(list), S)
    <3> HIDE DEF list
    <3> QED BY <2>1, <2>2 DEF Bijection, Injection, Surjection, IsInjective
  <2>4. IsFiniteSet(1..Len(list)) /\ Cardinality(1..Len(list)) = Len(list)
    BY <2>1, FS_Interval
  <2>5. ExistsBijection(1..Len(list), S)
    BY <2>3, Zenon DEF ExistsBijection
  <2> HIDE DEF S, list
  <2>6. Cardinality(S) = Cardinality(1..Len(list))
    BY <2>4, <2>5, FS_Bijection
  <2> QED BY <2>4, <2>6 DEF S, list
<1> QED BY <1>1, SvmInvariance, PTL

---------------------------------------------------------------------------
\* Token extensions

\* What the walk decides of the list from place i, if ok says it of the rest.
WalkFrom(tlv, types, ok, i) ==
    LET rest == Len(tlv) - i + 1
        next == i + 4 + U16(tlv, i + 2) IN
    IF rest < 4 THEN AllZero(tlv, i)
    ELSE IF U16(tlv, i) = 0 THEN AllZero(tlv, i)
    ELSE next <= Len(tlv) + 1 /\ U16(tlv, i) \in types /\ ok[next]

\* ok says it of every place from the n-th to last on.
Walks(tlv, types, n, ok) ==
    /\ ok \in [(Len(tlv) + 1 - n)..(Len(tlv) + 1) -> BOOLEAN]
    /\ \A i \in (Len(tlv) + 1 - n)..(Len(tlv) + 1) : ok[i] = WalkFrom(tlv, types, ok, i)

LEMMA ElementIn ==
    ASSUME NEW D, NEW s \in Seq(D)
    PROVE  \A k \in 1..Len(s) : s[k] \in D
OBVIOUS

\* An entry leads further on.
LEMMA NextIsLater ==
    ASSUME NEW tlv \in Seq(0..255), NEW i \in 1..(Len(tlv) + 1), ~(Len(tlv) - i + 1 < 4)
    PROVE  /\ U16(tlv, i) \in Nat /\ U16(tlv, i + 2) \in Nat
           /\ i + 4 + U16(tlv, i + 2) \in Nat /\ i + 4 + U16(tlv, i + 2) > i
<1>1. Len(tlv) \in Nat /\ i \in 1..Len(tlv) /\ i + 1 \in 1..Len(tlv) /\ i + 2 \in 1..Len(tlv) /\ i + 3 \in 1..Len(tlv)
  OBVIOUS
<1>2. tlv[i] \in Nat /\ tlv[i + 1] \in Nat /\ tlv[i + 2] \in Nat /\ tlv[i + 3] \in Nat
  <2>1. \A k \in 1..Len(tlv) : tlv[k] \in 0..255
    BY ElementIn
  <2>2. \A k \in 1..Len(tlv) : tlv[k] \in Nat
    <3>1. \A x \in 0..255 : x \in Nat
      OBVIOUS
    <3> QED BY <2>1, <3>1, Zenon
  <2> QED BY <1>1, <2>2
<1>3. i + 2 + 1 = i + 3
  OBVIOUS
<1>4. U16(tlv, i) = tlv[i] + 256 * tlv[i + 1] /\ U16(tlv, i + 2) = tlv[i + 2] + 256 * tlv[i + 3]
  BY <1>3 DEF U16
<1>5. \A a, b \in Nat : a + 256 * b \in Nat
  OBVIOUS
<1>6. U16(tlv, i) \in Nat /\ U16(tlv, i + 2) \in Nat
  <2>1. tlv[i] + 256 * tlv[i + 1] \in Nat
    BY <1>2, <1>5, Zenon
  <2>2. tlv[i + 2] + 256 * tlv[i + 3] \in Nat
    BY <1>2, <1>5, Zenon
  <2> QED BY <1>4, <2>1, <2>2
<1> QED BY <1>6

\* Only what ok says further on matters.
LEMMA WalkAgrees ==
    ASSUME NEW tlv \in Seq(0..255), NEW types, NEW i \in 1..(Len(tlv) + 1), NEW ok, NEW other,
           \A j \in (i + 1)..(Len(tlv) + 1) : ok[j] = other[j]
    PROVE  WalkFrom(tlv, types, ok, i) = WalkFrom(tlv, types, other, i)
<1>1. CASE Len(tlv) - i + 1 < 4 \/ U16(tlv, i) = 0
  BY <1>1, Zenon DEF WalkFrom
<1>2. CASE ~(Len(tlv) - i + 1 < 4) /\ U16(tlv, i) # 0
  <2> DEFINE next == i + 4 + U16(tlv, i + 2)
  <2>1. next \in Nat /\ next > i
    BY <1>2, NextIsLater
  <2>2. /\ WalkFrom(tlv, types, ok, i) = (next <= Len(tlv) + 1 /\ U16(tlv, i) \in types /\ ok[next])
        /\ WalkFrom(tlv, types, other, i) = (next <= Len(tlv) + 1 /\ U16(tlv, i) \in types /\ other[next])
    BY <1>2, Zenon DEF WalkFrom
  <2> HIDE DEF next
  <2>3. Len(tlv) \in Nat
    OBVIOUS
  <2>4. next <= Len(tlv) + 1 => next \in (i + 1)..(Len(tlv) + 1)
    BY <2>1, <2>3
  <2>5. CASE next <= Len(tlv) + 1
    <3>1. ok[next] = other[next]
      BY <2>4, <2>5
    <3> QED BY <2>2, <3>1
  <2>6. CASE ~(next <= Len(tlv) + 1)
    BY <2>2, <2>6, Zenon
  <2> QED BY <2>5, <2>6
<1> QED BY <1>1, <1>2

LEMMA WalksExist ==
    ASSUME NEW tlv \in Seq(0..255), NEW types
    PROVE  \E ok : Walks(tlv, types, Len(tlv), ok)
<1> DEFINE end == Len(tlv) + 1
           bad == {n \in Nat : n <= Len(tlv) /\ ~\E ok : Walks(tlv, types, n, ok)}
<1>1. Len(tlv) \in Nat /\ end \in Nat /\ Len(tlv) = end - 1
  OBVIOUS
<1> SUFFICES bad = {}
  BY <1>1
<1> SUFFICES ASSUME bad # {} PROVE FALSE
  OBVIOUS
<1>2. PICK n \in bad : \A m \in bad : n <= m
  BY LeastNumber
<1> DEFINE first == end - n
<1>3. n \in Nat /\ n <= Len(tlv) /\ first \in 1..end /\ first \in Nat
  BY <1>1, <1>2
<1>4. PICK f : /\ f \in [(first + 1)..end -> BOOLEAN]
               /\ \A i \in (first + 1)..end : f[i] = WalkFrom(tlv, types, f, i)
  <2>1. CASE n = 0
    <3>1. (first + 1)..end = {}
      BY <1>1, <2>1
    <3>2. [i \in (first + 1)..end |-> TRUE] \in [(first + 1)..end -> BOOLEAN]
      OBVIOUS
    <3> QED BY <3>1, <3>2
  <2>2. CASE n # 0
    <3>1. n - 1 \in Nat /\ n - 1 <= Len(tlv) /\ n - 1 < n
      BY <1>3, <2>2, <1>1
    <3>2. n - 1 \notin bad
      <4> HIDE DEF bad
      <4> QED BY <1>2, <1>3, <3>1
    <3>3. PICK g : Walks(tlv, types, n - 1, g)
      BY <3>1, <3>2
    <3>4. Len(tlv) + 1 - (n - 1) = first + 1
      BY <1>1, <1>3
    <3> QED BY <3>3, <3>4 DEF Walks
  <2> QED BY <2>1, <2>2
<1> DEFINE here == WalkFrom(tlv, types, f, first)
           g == [i \in first..end |-> IF i = first THEN here ELSE f[i]]
<1>5. \A i \in first..end : i # first => i \in (first + 1)..end
  BY <1>1, <1>3
<1>6. here \in BOOLEAN
  <2> DEFINE h == [j \in {} |-> TRUE]
  <2>1. AllZero(tlv, first) \in BOOLEAN
    BY Zenon DEF AllZero
  <2> QED BY <2>1, Zenon DEF WalkFrom
<1>7. g \in [first..end -> BOOLEAN]
  <2> HIDE DEF here, first, end
  <2> QED BY <1>4, <1>5, <1>6
<1>8. \A i \in first..end : g[i] = IF i = first THEN here ELSE f[i]
  OBVIOUS
<1> HIDE DEF g
<1>9. ASSUME NEW i \in first..end PROVE g[i] = WalkFrom(tlv, types, g, i)
  <2>1. i \in 1..(Len(tlv) + 1)
    BY <1>1, <1>3
  <2>2. \A j \in (i + 1)..(Len(tlv) + 1) : f[j] = g[j]
    <3>1. \A j \in (i + 1)..(Len(tlv) + 1) : j \in first..end /\ j # first
      BY <1>1, <1>3
    <3> HIDE DEF here, first
    <3> QED BY <1>8, <3>1
  <2>3. WalkFrom(tlv, types, f, i) = WalkFrom(tlv, types, g, i)
    BY <2>1, <2>2, WalkAgrees
  <2>4. g[i] = WalkFrom(tlv, types, f, i)
    <3> HIDE DEF first, end
    <3>1. CASE i = first
      BY <1>8, <3>1
    <3>2. CASE i # first
      <4> HIDE DEF here
      <4> QED BY <1>4, <1>5, <1>8, <3>2
    <3> QED BY <3>1, <3>2
  <2> QED BY <2>3, <2>4
<1>10. Walks(tlv, types, n, g)
  <2> HIDE DEF here
  <2> QED BY <1>7, <1>9 DEF Walks
<1> QED BY <1>2, <1>10

\* A way to cut the list from place i on.
Cut(tlv, types, i, cuts) ==
    /\ cuts \subseteq i..(Len(tlv) + 1) /\ i \in cuts
    /\ \A c \in cuts :
        \/ AllZero(tlv, c) /\ \A j \in cuts : j <= c
        \/ /\ c + 3 < Len(tlv) + 1 /\ U16(tlv, c) \in types
           /\ c + 4 + U16(tlv, c + 2) \in cuts
           /\ \A j \in cuts : j <= c \/ j >= c + 4 + U16(tlv, c + 2)

\* Where the walk goes through, the list can be cut.
LEMMA WalkCuts ==
    ASSUME NEW tlv \in Seq(0..255), NEW types, NEW ok,
           \A i \in 1..(Len(tlv) + 1) : ok[i] => WalkFrom(tlv, types, ok, i), ok[1]
    PROVE  \E cuts : Cut(tlv, types, 1, cuts)
<1> DEFINE end == Len(tlv) + 1
           bad == {n \in Nat : n <= Len(tlv) /\ ok[end - n] /\ ~\E cuts : Cut(tlv, types, end - n, cuts)}
<1>1. Len(tlv) \in Nat /\ end \in Nat /\ end - Len(tlv) = 1 /\ Len(tlv) <= Len(tlv)
  OBVIOUS
<1>2. bad = {}
  <2> SUFFICES ASSUME bad # {} PROVE FALSE
    OBVIOUS
  <2>1. PICK n \in bad : \A m \in bad : n <= m
    BY LeastNumber
  <2> DEFINE i == end - n
  <2>2. n \in Nat /\ n <= Len(tlv) /\ ok[i] /\ i \in 1..end /\ i \in Nat
    BY <1>1, <2>1
  <2>3. WalkFrom(tlv, types, ok, i)
    BY <2>2
  <2>4. ~\E cuts : Cut(tlv, types, i, cuts)
    BY <2>1
  <2>5. ASSUME AllZero(tlv, i) PROVE FALSE
    <3>1. {i} \subseteq i..(Len(tlv) + 1) /\ \A j \in {i} : j <= i
      BY <1>1, <2>2
    <3>2. Cut(tlv, types, i, {i})
      <4> HIDE DEF i
      <4> QED BY <2>5, <3>1 DEF Cut
    <3> QED BY <2>4, <3>2
  <2> DEFINE next == i + 4 + U16(tlv, i + 2)
  <2>6. ~(Len(tlv) - i + 1 < 4) /\ U16(tlv, i) # 0 /\ next <= end /\ U16(tlv, i) \in types /\ ok[next]
    BY <2>3, <2>5, Zenon DEF WalkFrom
  <2>7. U16(tlv, i) \in Nat /\ U16(tlv, i + 2) \in Nat
    BY <2>2, <2>6, NextIsLater
  <2> DEFINE m == end - next
  <2>8. next \in Nat /\ next > i /\ m \in Nat /\ m < n /\ m <= Len(tlv) /\ end - m = next
    BY <1>1, <2>2, <2>6, <2>7
  <2>9. m \notin bad
    <3> HIDE DEF bad, m
    <3> QED BY <2>1, <2>2, <2>8
  <2>10. PICK cuts : Cut(tlv, types, next, cuts)
    BY <2>6, <2>8, <2>9
  <2> DEFINE more == cuts \cup {i}
  <2>11. \A c \in cuts : c \in Nat /\ c >= next /\ c > i /\ c <= end
    <3>1. cuts \subseteq next..end
      BY <2>10 DEF Cut
    <3>2. \A c \in next..end : c \in Nat /\ c >= next /\ c > i /\ c <= end
      BY <2>2, <2>8, <1>1
    <3> QED BY <3>1, <3>2
  <2>12. Cut(tlv, types, i, more)
    <3>1. more \subseteq i..(Len(tlv) + 1) /\ i \in more
      BY <1>1, <2>2, <2>11
    <3>2. ASSUME NEW c \in more
          PROVE  \/ AllZero(tlv, c) /\ \A j \in more : j <= c
                 \/ /\ c + 3 < Len(tlv) + 1 /\ U16(tlv, c) \in types
                    /\ c + 4 + U16(tlv, c + 2) \in more
                    /\ \A j \in more : j <= c \/ j >= c + 4 + U16(tlv, c + 2)
      <4>1. CASE c = i
        <5>1. i + 3 < Len(tlv) + 1
          BY <1>1, <2>2, <2>6
        <5>2. next \in more
          BY <2>10 DEF Cut
        <5>3. \A j \in more : j <= i \/ j >= next
          BY <2>2, <2>11
        <5> QED BY <2>6, <4>1, <5>1, <5>2, <5>3
      <4>2. CASE c \in cuts
        <5>1. i <= c
          BY <2>2, <2>11, <4>2
        <5> HIDE DEF i, next
        <5> QED BY <2>10, <4>2, <5>1 DEF Cut
      <4> QED BY <4>1, <4>2
    <3> HIDE DEF more, i
    <3> QED BY <3>1, <3>2 DEF Cut
  <2> QED BY <2>4, <2>12
<1> QED BY <1>1, <1>2

\* The recursive function of walk_tlv exists, for accounts and for mints, and
\* is what WalkFrom says.
LEMMA AccountWalk ==
    ASSUME NEW tlv \in Seq(0..255), walk_tlv(tlv, check_account_extension)
    PROVE  \E cuts : Cut(tlv, {7}, 1, cuts)
<1> DEFINE end == Len(tlv) + 1
           ok == CHOOSE f : f = [i \in 1..(Len(tlv) + 1) |->
                    IF Len(tlv) - i + 1 < 4 THEN AllZero(tlv, i)
                    ELSE IF U16(tlv, i) = 0 THEN AllZero(tlv, i)
                    ELSE i + 4 + U16(tlv, i + 2) <= Len(tlv) + 1
                         /\ check_account_extension(U16(tlv, i)) /\ f[i + 4 + U16(tlv, i + 2)]]
<1>1. ok[1]
  BY Zenon DEF walk_tlv
<1>2. \A t : check_account_extension(t) <=> t \in {7}
  BY DEF check_account_extension
<1>3. PICK f : Walks(tlv, {7}, Len(tlv), f)
  BY WalksExist
<1>4. Len(tlv) \in Nat /\ Len(tlv) + 1 - Len(tlv) = 1
  OBVIOUS
<1>5. f \in [1..(Len(tlv) + 1) -> BOOLEAN] /\ \A i \in 1..(Len(tlv) + 1) : f[i] = WalkFrom(tlv, {7}, f, i)
  BY <1>3, <1>4 DEF Walks
<1>6. f = [i \in 1..(Len(tlv) + 1) |->
                    IF Len(tlv) - i + 1 < 4 THEN AllZero(tlv, i)
                    ELSE IF U16(tlv, i) = 0 THEN AllZero(tlv, i)
                    ELSE i + 4 + U16(tlv, i + 2) <= Len(tlv) + 1
                         /\ check_account_extension(U16(tlv, i)) /\ f[i + 4 + U16(tlv, i + 2)]]
  BY <1>2, <1>5 DEF WalkFrom
<1>7. ok = [i \in 1..(Len(tlv) + 1) |->
                    IF Len(tlv) - i + 1 < 4 THEN AllZero(tlv, i)
                    ELSE IF U16(tlv, i) = 0 THEN AllZero(tlv, i)
                    ELSE i + 4 + U16(tlv, i + 2) <= Len(tlv) + 1
                         /\ check_account_extension(U16(tlv, i)) /\ ok[i + 4 + U16(tlv, i + 2)]]
  BY <1>6, Zenon
<1> HIDE DEF ok
<1>8. \A i \in 1..(Len(tlv) + 1) : ok[i] => WalkFrom(tlv, {7}, ok, i)
  BY <1>2, <1>7 DEF WalkFrom
<1> QED BY <1>1, <1>8, WalkCuts

LEMMA MintWalk ==
    ASSUME NEW tlv \in Seq(0..255), walk_tlv(tlv, check_mint_extension)
    PROVE  \E cuts : Cut(tlv, 18..23, 1, cuts)
<1> DEFINE end == Len(tlv) + 1
           ok == CHOOSE f : f = [i \in 1..(Len(tlv) + 1) |->
                    IF Len(tlv) - i + 1 < 4 THEN AllZero(tlv, i)
                    ELSE IF U16(tlv, i) = 0 THEN AllZero(tlv, i)
                    ELSE i + 4 + U16(tlv, i + 2) <= Len(tlv) + 1
                         /\ check_mint_extension(U16(tlv, i)) /\ f[i + 4 + U16(tlv, i + 2)]]
<1>1. ok[1]
  BY Zenon DEF walk_tlv
<1>2. \A t : check_mint_extension(t) <=> t \in 18..23
  BY DEF check_mint_extension
<1>3. PICK f : Walks(tlv, 18..23, Len(tlv), f)
  BY WalksExist
<1>4. Len(tlv) \in Nat /\ Len(tlv) + 1 - Len(tlv) = 1
  OBVIOUS
<1>5. f \in [1..(Len(tlv) + 1) -> BOOLEAN] /\ \A i \in 1..(Len(tlv) + 1) : f[i] = WalkFrom(tlv, 18..23, f, i)
  BY <1>3, <1>4 DEF Walks
<1>6. f = [i \in 1..(Len(tlv) + 1) |->
                    IF Len(tlv) - i + 1 < 4 THEN AllZero(tlv, i)
                    ELSE IF U16(tlv, i) = 0 THEN AllZero(tlv, i)
                    ELSE i + 4 + U16(tlv, i + 2) <= Len(tlv) + 1
                         /\ check_mint_extension(U16(tlv, i)) /\ f[i + 4 + U16(tlv, i + 2)]]
  BY <1>2, <1>5 DEF WalkFrom
<1>7. ok = [i \in 1..(Len(tlv) + 1) |->
                    IF Len(tlv) - i + 1 < 4 THEN AllZero(tlv, i)
                    ELSE IF U16(tlv, i) = 0 THEN AllZero(tlv, i)
                    ELSE i + 4 + U16(tlv, i + 2) <= Len(tlv) + 1
                         /\ check_mint_extension(U16(tlv, i)) /\ ok[i + 4 + U16(tlv, i + 2)]]
  BY <1>6, Zenon
<1> HIDE DEF ok
<1>8. \A i \in 1..(Len(tlv) + 1) : ok[i] => WalkFrom(tlv, 18..23, ok, i)
  BY <1>2, <1>7 DEF WalkFrom
<1> QED BY <1>1, <1>8, WalkCuts

\* An area that the program supports is admissible.
LEMMA AccountsAdmissible ==
    ASSUME NEW data, data.tail \in Seq(0..255), check_token_account_supported(data)
    PROVE  Admissible(data.tail, 2, {7})
<1> DEFINE tail == data.tail
<1>1. CASE tail = <<>>
  <2>1. AllZero(tail, 1)
    BY <1>1 DEF AllZero
  <2> QED BY <2>1 DEF Admissible
<1>2. CASE tail # <<>> /\ Head(tail) = 0 /\ AllZero(tail, 1)
  BY <1>2 DEF Admissible
<1>3. CASE tail # <<>> /\ Head(tail) = 2 /\ walk_tlv(Tail(tail), check_account_extension)
  <2>1. Tail(tail) \in Seq(0..255)
    BY <1>3
  <2>2. PICK cuts : Cut(Tail(tail), {7}, 1, cuts)
    BY <1>3, <2>1, AccountWalk
  <2> QED BY <1>3, <2>2, Zenon DEF Cut, Admissible
<1> QED BY <1>1, <1>2, <1>3, Zenon DEF check_token_account_supported, Supported

LEMMA MintsAdmissible ==
    ASSUME NEW data, data.tail \in Seq(0..255), check_token_mint_supported(data)
    PROVE  Admissible(data.tail, 1, 18..23)
<1> DEFINE tail == data.tail
<1>1. CASE tail = <<>>
  <2>1. AllZero(tail, 1)
    BY <1>1 DEF AllZero
  <2> QED BY <2>1 DEF Admissible
<1>2. CASE tail # <<>> /\ Head(tail) = 0 /\ AllZero(tail, 1)
  BY <1>2 DEF Admissible
<1>3. CASE tail # <<>> /\ Head(tail) = 1 /\ walk_tlv(Tail(tail), check_mint_extension)
  <2>1. Tail(tail) \in Seq(0..255)
    BY <1>3
  <2>2. PICK cuts : Cut(Tail(tail), 18..23, 1, cuts)
    BY <1>3, <2>1, MintWalk
  <2> QED BY <1>3, <2>2, Zenon DEF Cut, Admissible
<1> QED BY <1>1, <1>2, <1>3, Zenon DEF check_token_mint_supported, Supported

---------------------------------------------------------------------------
\* The call of a game

AcctType == [lamports: Nat, owner: Owners, data: [body: Int, tail: Seq(0..255)]]
RecordType == [seq: Int, seen: [slot: Int, auth: Int]]

\* The call under way has its fields, the vault is out of its reach, and what
\* it was started from is the snapshot that is compared after it.
CallOK ==
    /\ call = [open |-> TRUE, before |-> call.before, record |-> call.record, protected |-> call.protected,
               snapshot |-> call.snapshot, writable |-> call.writable, effects |-> call.effects]
    /\ call.before \in [Addrs -> AcctType] /\ call.record \in RecordType
    /\ call.protected \subseteq Addrs
    /\ acct["vault"] = call.before["vault"] /\ "vault" \notin call.writable
    /\ record.seen = parse_programdata
    /\ \A p \in call.protected : call.snapshot[p][1] = call.before[p]
    /\ "purse" \in call.protected /\ call.before["purse"].owner = "token program" =>
          check_token_account_supported(call.before["purse"].data)

\* What was supported when it was pinned or moved.
SupportedOnly ==
    /\ done.open /\ done.before["purse"].owner = "token program"
          /\ (done.what = "withdrawal" \/ "purse" \in done.protected) =>
          check_token_account_supported(done.before["purse"].data)
    /\ done.open /\ done.what = "withdrawal" => check_token_mint_supported(acct["mint"].data)

GameInv ==
    /\ acct \in [Addrs -> AcctType] /\ record \in RecordType
    /\ program \in [loader: Loaders, slot: Int, auth: Int]
    /\ call = NoCall \/ CallOK
    /\ \/ done = NoCall
       \/ done.open = TRUE /\ call = NoCall /\ done.before \in [Addrs -> AcctType]
    /\ GamesConfined /\ SupportedOnly

LEMMA NothingDone == ASSUME done = NoCall PROVE GamesConfined /\ SupportedOnly
BY DEF NoCall, GamesConfined, SupportedOnly

LEMMA GameInitOK == SessionVmInit => GameInv
<1> SUFFICES ASSUME SessionVmInit PROVE GameInv
  OBVIOUS
<1>1. PICK tail \in Tails, mint \in MintTails :
        acct = [a \in Addrs |->
              [lamports |-> 1,
               owner |-> CASE a \in {"vault", "session"} -> "account program"
                           [] a \in {"purse", "mint"} -> "token program"
                           [] OTHER -> "game",
               data |-> Data(0, CASE a = "purse" -> tail [] a = "mint" -> mint [] OTHER -> <<>>)]]
  BY DEF SessionVmInit
<1>2. tail \in Seq(0..255) /\ mint \in Seq(0..255) /\ << >> \in Seq(0..255)
  BY SessionVmConstants
<1> DEFINE kept(a) == CASE a = "purse" -> tail [] a = "mint" -> mint [] OTHER -> <<>>
           by(a) == CASE a \in {"vault", "session"} -> "account program"
                      [] a \in {"purse", "mint"} -> "token program"
                      [] OTHER -> "game"
<1>3. \A a \in Addrs : kept(a) \in Seq(0..255) /\ by(a) \in Owners
  <2>1. \A a \in Addrs : kept(a) \in Seq(0..255)
    <3> SUFFICES ASSUME NEW a \in Addrs PROVE kept(a) \in Seq(0..255)
      OBVIOUS
    <3>1. CASE a = "purse"
      BY <1>2, <3>1
    <3>2. CASE a = "mint"
      BY <1>2, <3>2
    <3>3. CASE a # "purse" /\ a # "mint"
      BY <1>2, <3>3
    <3> QED BY <3>1, <3>2, <3>3
  <2>2. \A a \in Addrs : by(a) \in Owners
    BY DEF Owners, Addrs
  <2> QED BY <2>1, <2>2
<1>4. \A a \in Addrs : acct[a] = [lamports |-> 1, owner |-> by(a), data |-> Data(0, kept(a))]
  BY <1>1
<1>5. DOMAIN acct = Addrs /\ acct = [a \in Addrs |-> acct[a]]
  BY <1>1
<1> HIDE DEF kept, by
<1>6. acct \in [Addrs -> AcctType]
  <2>1. \A a \in Addrs : acct[a] \in AcctType
    <3> SUFFICES ASSUME NEW a \in Addrs PROVE acct[a] \in AcctType
      OBVIOUS
    <3> DEFINE d == Data(0, kept(a))
    <3>1. d \in [body: Int, tail: Seq(0..255)]
      BY <1>3 DEF Data
    <3>2. acct[a] = [lamports |-> 1, owner |-> by(a), data |-> d]
      BY <1>4
    <3> HIDE DEF d
    <3> QED BY <1>3, <3>1, <3>2 DEF AcctType
  <2> QED BY <1>5, <2>1
<1>7. record \in RecordType /\ program \in [loader: Loaders, slot: Int, auth: Int]
  <2>1. \A n \in 0..(MaxCalls - 1) : n \in Int
    OBVIOUS
  <2>2. Unseen \in [slot: Int, auth: Int]
    BY DEF Unseen
  <2>3. record \in [seq: 0..(MaxCalls - 1), seen: {Unseen}] /\ program \in [loader: Loaders, slot: {1}, auth: {1}]
    BY DEF SessionVmInit
  <2>4. record \in RecordType
    <3> HIDE DEF Unseen
    <3> QED BY <2>1, <2>2, <2>3 DEF RecordType
  <2> QED BY <2>3, <2>4
<1>8. call = NoCall /\ done = NoCall
  BY DEF SessionVmInit
<1> QED BY <1>6, <1>7, <1>8, NothingDone DEF GameInv

LEMMA CallGameOK ==
    ASSUME GameInv, NEW metas, NEW passed, NEW protected \in SUBSET (Addrs \ {"vault", "mint"}), NEW evidence,
           NEW seq \in Int, callGame(metas, passed, protected, evidence, seq)
    PROVE  GameInv'
<1> DEFINE snap == [p \in protected |-> Observed(p, record')]
           reach == {metas[i].addr : i \in {j \in 1..Len(metas) : Writable(metas[j].flags)}}
<1>1. /\ call' = [open |-> TRUE, before |-> acct, record |-> record, protected |-> protected,
                  snapshot |-> snap, writable |-> reach, effects |-> 0]
      /\ record' = [seq |-> seq + 1, seen |-> parse_programdata]
      /\ done' = NoCall /\ UNCHANGED <<acct, program>>
  BY DEF callGame
<1>2. "vault" \notin reach
  BY DEF callGame, VaultAbsent
<1>3. \A p \in protected : snap[p][1] = acct[p]
  BY DEF Observed
<1>4. "purse" \in protected /\ acct["purse"].owner = "token program" =>
          check_token_account_supported(acct["purse"].data)
  BY DEF callGame, Protectable
<1> HIDE DEF snap, reach
<1>5. parse_programdata \in [slot: Int, auth: Int] /\ parse_programdata' = parse_programdata
  BY <1>1 DEF GameInv, parse_programdata, Unseen
<1>6. CallOK'
  <2>1. /\ call'.before = acct /\ call'.record = record /\ call'.protected = protected
        /\ call'.snapshot = snap /\ call'.writable = reach
    BY <1>1
  <2>2. call' = [open |-> TRUE, before |-> call'.before, record |-> call'.record, protected |-> call'.protected,
               snapshot |-> call'.snapshot, writable |-> call'.writable, effects |-> call'.effects]
    BY <1>1
  <2>3. record'.seen = parse_programdata
    BY <1>1
  <2> QED BY <1>1, <1>2, <1>3, <1>4, <1>5, <2>1, <2>2, <2>3 DEF CallOK, GameInv
<1>7. record' \in RecordType
  BY <1>1, <1>5 DEF RecordType
<1>8. GamesConfined' /\ SupportedOnly'
  BY <1>1 DEF NoCall, GamesConfined, SupportedOnly
<1> QED BY <1>1, <1>6, <1>7, <1>8 DEF GameInv

LEMMA OpenCall == ASSUME GameInv, call.open PROVE CallOK /\ done = NoCall
BY DEF GameInv, NoCall

LEMMA ClosedCall == ASSUME GameInv, ~call.open PROVE call = NoCall
<1>1. CallOK => call.open
  <2> SUFFICES ASSUME CallOK PROVE call.open
    OBVIOUS
  <2>1. call = [open |-> TRUE, before |-> call.before, record |-> call.record, protected |-> call.protected,
               snapshot |-> call.snapshot, writable |-> call.writable, effects |-> call.effects]
    BY DEF CallOK
  <2> QED BY <2>1
<1> QED BY <1>1 DEF GameInv

LEMMA EffectOK ==
    ASSUME GameInv, NEW a \in Addrs, GameEffect(a)
    PROVE  GameInv'
<1>1. CallOK /\ done = NoCall /\ a \in call.writable /\ acct \in [Addrs -> AcctType]
  BY OpenCall DEF GameEffect, GameInv
<1>2. a # "vault" /\ "vault" \in Addrs
  BY <1>1 DEF CallOK, Addrs
<1>3. acct' \in [Addrs -> AcctType] /\ acct'["vault"] = acct["vault"]
  <2>1. acct[a] \in AcctType
    BY <1>1
  <2>2. \E x \in AcctType : acct' = [acct EXCEPT ![a] = x]
    <3>1. ASSUME NEW n \in 0..2, acct' = [acct EXCEPT ![a].lamports = n] PROVE <2>2
      <4> DEFINE x == [acct[a] EXCEPT !.lamports = n]
      <4>1. n \in Nat
        BY <3>1
      <4>2. x \in AcctType
        BY <2>1, <4>1 DEF AcctType
      <4>3. acct' = [acct EXCEPT ![a] = x]
        BY <1>1, <3>1
      <4> HIDE DEF x
      <4> QED BY <4>2, <4>3
    <3>2. CASE acct' = [acct EXCEPT ![a].owner = "thief"]
      <4> DEFINE x == [acct[a] EXCEPT !.owner = "thief"]
      <4>1. x \in AcctType
        BY <2>1 DEF AcctType, Owners
      <4>2. acct' = [acct EXCEPT ![a] = x]
        BY <1>1, <3>2
      <4> HIDE DEF x
      <4> QED BY <4>1, <4>2
    <3>3. CASE acct' = [acct EXCEPT ![a].data.body = 1 - @]
      <4> DEFINE b == 1 - acct[a].data.body
                 d == [acct[a].data EXCEPT !.body = b]
                 x == [acct[a] EXCEPT !.data = d]
      <4>1. acct[a].data \in [body: Int, tail: Seq(0..255)]
        BY <2>1 DEF AcctType
      <4>2. b \in Int
        BY <4>1
      <4>3. d \in [body: Int, tail: Seq(0..255)]
        <5> HIDE DEF b
        <5> QED BY <4>1, <4>2
      <4>4. x \in AcctType
        <5> HIDE DEF d
        <5> QED BY <2>1, <4>3 DEF AcctType
      <4>5. acct' = [acct EXCEPT ![a] = x]
        BY <1>1, <3>3
      <4> HIDE DEF x
      <4> QED BY <4>4, <4>5
    <3> QED BY <3>1, <3>2, <3>3 DEF GameEffect
  <2>3. PICK x \in AcctType : acct' = [acct EXCEPT ![a] = x]
    BY <2>2
  <2> QED BY <1>1, <1>2, <2>3
<1> DEFINE e == call.effects + 1
<1>4. call' = [call EXCEPT !.effects = e] /\ UNCHANGED <<program, record, done>>
  BY DEF GameEffect
<1> HIDE DEF e
<1>5. /\ call'.before = call.before /\ call'.record = call.record /\ call'.protected = call.protected
      /\ call'.snapshot = call.snapshot /\ call'.writable = call.writable
      /\ call' = [open |-> TRUE, before |-> call.before, record |-> call.record, protected |-> call.protected,
                  snapshot |-> call.snapshot, writable |-> call.writable, effects |-> call'.effects]
  <2>1. call = [open |-> TRUE, before |-> call.before, record |-> call.record, protected |-> call.protected,
               snapshot |-> call.snapshot, writable |-> call.writable, effects |-> call.effects]
    BY <1>1 DEF CallOK
  <2>2. PICK b, r, p, s, w, f :
          call = [open |-> TRUE, before |-> b, record |-> r, protected |-> p, snapshot |-> s, writable |-> w,
                  effects |-> f]
    BY <2>1
  <2>3. call' = [open |-> TRUE, before |-> b, record |-> r, protected |-> p, snapshot |-> s, writable |-> w,
                 effects |-> e]
    BY <1>4, <2>2
  <2> QED BY <2>2, <2>3
<1>6. parse_programdata' = parse_programdata
  BY <1>4 DEF parse_programdata
<1>7. CallOK'
  BY <1>1, <1>3, <1>4, <1>5, <1>6 DEF CallOK
<1>8. GamesConfined' /\ SupportedOnly'
  BY <1>1, <1>4 DEF NoCall, GamesConfined, SupportedOnly
<1> QED BY <1>1, <1>3, <1>4, <1>7, <1>8 DEF GameInv

LEMMA EndCallOK ==
    ASSUME GameInv, endCall
    PROVE  GameInv'
<1>1. CallOK /\ done = NoCall
  BY OpenCall DEF endCall
<1>2. /\ done' = [open |-> TRUE, what |-> "call", before |-> call.before,
                  protected |-> call.protected, writable |-> call.writable]
      /\ call' = NoCall /\ UNCHANGED <<acct, program, record>>
  BY DEF endCall
<1>3. \A p \in call.protected : acct[p] = call.before[p]
  <2> SUFFICES ASSUME NEW p \in call.protected PROVE acct[p] = call.before[p]
    OBVIOUS
  <2>1. Observed(p, record) = call.snapshot[p]
    BY DEF endCall, PostChecksHold, Unchanged
  <2>2. Observed(p, record)[1] = acct[p]
    BY DEF Observed
  <2> QED BY <1>1, <2>1, <2>2 DEF CallOK
<1>4. acct["session"].lamports >= call.before["session"].lamports
  BY DEF endCall, PostChecksHold, check_session_spend_pinned
<1>5. GamesConfined'
  BY <1>1, <1>2, <1>3, <1>4 DEF GamesConfined, CallOK, parse_programdata
<1>6. SupportedOnly'
  BY <1>1, <1>2 DEF SupportedOnly, CallOK
<1>7. done'.before \in [Addrs -> AcctType] /\ done'.open = TRUE
  BY <1>1, <1>2 DEF CallOK
<1> QED BY <1>2, <1>5, <1>6, <1>7 DEF GameInv

LEMMA WithdrawTokenOK ==
    ASSUME GameInv, withdraw_token
    PROVE  GameInv'
<1>1. call = NoCall /\ acct \in [Addrs -> AcctType] /\ "purse" \in Addrs /\ "mint" \in Addrs
  BY ClosedCall DEF withdraw_token, GameInv, Addrs
<1>2. /\ acct' = [acct EXCEPT !["purse"].data.body = 1]
      /\ done' = [open |-> TRUE, what |-> "withdrawal", before |-> acct,
                  protected |-> {}, writable |-> {"purse"}]
      /\ UNCHANGED <<program, record, call>>
  BY DEF withdraw_token
<1>3. acct' \in [Addrs -> AcctType] /\ acct'["mint"] = acct["mint"]
  <2> DEFINE d == [acct["purse"].data EXCEPT !.body = 1]
             x == [acct["purse"] EXCEPT !.data = d]
  <2>1. acct["purse"] \in AcctType /\ acct["purse"].data \in [body: Int, tail: Seq(0..255)]
    BY <1>1 DEF AcctType
  <2>2. d \in [body: Int, tail: Seq(0..255)]
    <3>1. \A y \in [body: Int, tail: Seq(0..255)] : [y EXCEPT !.body = 1] \in [body: Int, tail: Seq(0..255)]
      OBVIOUS
    <3> QED BY <2>1, <3>1, Zenon
  <2>3. x \in AcctType
    <3> HIDE DEF d
    <3> QED BY <2>1, <2>2 DEF AcctType
  <2>4. acct' = [acct EXCEPT !["purse"] = x]
    BY <1>1, <1>2
  <2> HIDE DEF x
  <2> QED BY <1>1, <2>3, <2>4
<1>4. GamesConfined'
  BY <1>2 DEF GamesConfined
<1>5. SupportedOnly'
  <2>1. check_token_account_supported(acct["purse"].data) /\ check_token_mint_supported(acct["mint"].data)
    BY DEF withdraw_token
  <2>2. done'.before = acct /\ acct'["mint"].data = acct["mint"].data
    BY <1>2, <1>3
  <2> QED BY <2>1, <2>2 DEF SupportedOnly
<1>6. done'.before \in [Addrs -> AcctType] /\ done'.open = TRUE
  BY <1>1, <1>2
<1> QED BY <1>1, <1>2, <1>3, <1>4, <1>5, <1>6 DEF GameInv

LEMMA GameStepKeeps == GameInv /\ [SessionVmNext]_sessionVmVars => GameInv'
<1> SUFFICES ASSUME GameInv, [SessionVmNext]_sessionVmVars PROVE GameInv'
  OBVIOUS
<1>1. CASE \E metas \in MetaLists, passed \in PassedLists, protected \in SUBSET (Addrs \ {"vault", "mint"}),
             evidence \in {"programdata", "program"}, seq \in 0..MaxCalls :
             callGame(metas, passed, protected, evidence, seq)
  <2>1. \A seq \in 0..MaxCalls : seq \in Int
    OBVIOUS
  <2> QED BY <1>1, <2>1, CallGameOK
<1>2. CASE \E a \in Addrs : GameEffect(a)
  BY <1>2, EffectOK
<1>3. CASE endCall
  BY <1>3, EndCallOK
<1>4. CASE revertCall
  <2>1. CallOK
    BY <1>4, OpenCall DEF revertCall
  <2>2. call' = NoCall /\ done' = NoCall /\ UNCHANGED program
        /\ acct' \in [Addrs -> AcctType] /\ record' \in RecordType
    BY <1>4, <2>1 DEF revertCall, CallOK
  <2>3. GamesConfined' /\ SupportedOnly'
    BY <2>2 DEF NoCall, GamesConfined, SupportedOnly
  <2> QED BY <2>2, <2>3 DEF GameInv
<1>5. CASE withdraw_token
  BY <1>5, WithdrawTokenOK
<1>6. CASE UpgradeGame
  <2>1. call = NoCall
    BY <1>6, ClosedCall DEF UpgradeGame
  <2>2. done' = NoCall /\ UNCHANGED <<acct, record, call>>
    BY <1>6 DEF UpgradeGame
  <2>3. program' \in [loader: Loaders, slot: Int, auth: Int]
    <3>1. program \in [loader: Loaders, slot: Int, auth: Int]
      BY DEF GameInv
    <3>2. PICK auth \in {0, 1} : program' = [program EXCEPT !.slot = @ + 1, !.auth = auth]
      BY <1>6 DEF UpgradeGame
    <3> DEFINE n == program.slot + 1
    <3>3. n \in Int /\ auth \in Int
      BY <3>1
    <3>4. program' = [program EXCEPT !.slot = n, !.auth = auth]
      BY <3>2
    <3> HIDE DEF n
    <3> QED BY <3>1, <3>3, <3>4
  <2>4. GamesConfined' /\ SupportedOnly'
    BY <2>2 DEF NoCall, GamesConfined, SupportedOnly
  <2> QED BY <2>1, <2>2, <2>3, <2>4 DEF GameInv
<1>7. CASE UNCHANGED sessionVmVars
  BY <1>7 DEF sessionVmVars, GameInv, CallOK, parse_programdata, GamesConfined, SupportedOnly
<1> QED BY <1>1, <1>2, <1>3, <1>4, <1>5, <1>6, <1>7, Zenon DEF SessionVmNext

\* While a game runs, the vault is out of its reach and everything that is
\* protected is compared with what it was; only supported extensions pass.
THEOREM GameInvariance == SessionVmSpec => []GameInv
BY GameInitOK, GameStepKeeps, PTL DEF SessionVmSpec

---------------------------------------------------------------------------
\* The Stellar contracts

\* f[k] is what the first k sequences of s make when put together.
Joined(D, s, n, f) ==
    /\ f \in [1..n -> Seq(D)]
    /\ \A k \in 1..n : f[k] = IF k = 1 THEN s[k] ELSE f[k - 1] \o s[k]

LEMMA JoinedExists ==
    ASSUME NEW D, NEW s \in Seq(Seq(D))
    PROVE  \E f : Joined(D, s, Len(s), f)
<1> DEFINE bad == {n \in Nat : n <= Len(s) /\ ~\E f : Joined(D, s, n, f)}
<1>1. Len(s) \in Nat /\ \A k \in 1..Len(s) : s[k] \in Seq(D)
  OBVIOUS
<1> SUFFICES bad = {}
  BY <1>1
<1> SUFFICES ASSUME bad # {} PROVE FALSE
  OBVIOUS
<1>2. PICK n \in bad : \A m \in bad : n <= m
  BY LeastNumber
<1>3. n # 0
  <2>1. Joined(D, s, 0, [k \in 1..0 |-> <<>>])
    BY DEF Joined
  <2> QED BY <1>2, <2>1
<1>4. n \in Nat /\ n - 1 \in Nat /\ n - 1 <= Len(s) /\ n - 1 \notin bad /\ n \in 1..Len(s)
  <2>1. n \in Nat /\ n <= Len(s) /\ n - 1 \in Nat /\ n \in 1..Len(s) /\ n - 1 < n /\ n - 1 <= Len(s)
    BY <1>1, <1>2, <1>3
  <2>2. n - 1 \notin bad
    <3> HIDE DEF bad
    <3> QED BY <1>2, <2>1
  <2> QED BY <2>1, <2>2
<1>5. PICK f : Joined(D, s, n - 1, f)
  BY <1>4
<1> DEFINE last == IF n = 1 THEN s[n] ELSE f[n - 1] \o s[n]
           g == [k \in 1..n |-> IF k = n THEN last ELSE f[k]]
<1>6. s[n] \in Seq(D) /\ \A k \in 1..(n - 1) : f[k] \in Seq(D)
  BY <1>1, <1>4, <1>5 DEF Joined
<1>7. last \in Seq(D)
  <2>1. n # 1 => n - 1 \in 1..(n - 1)
    BY <1>4
  <2> QED BY <1>6, <2>1
<1>8. \A k \in 1..n : k # n => k \in 1..(n - 1) /\ (k # 1 => k - 1 \in 1..(n - 1) /\ k - 1 \in 1..n /\ k - 1 # n)
  BY <1>4
<1>9. n # 1 => n - 1 \in 1..n /\ n - 1 # n
  BY <1>4
<1>10. Joined(D, s, n, g)
  <2>1. g \in [1..n -> Seq(D)]
    <3> HIDE DEF last
    <3> QED BY <1>6, <1>7, <1>8
  <2>2. \A k \in 1..n : g[k] = IF k = n THEN last ELSE f[k]
    OBVIOUS
  <2>3. \A k \in 1..(n - 1) : f[k] = IF k = 1 THEN s[k] ELSE f[k - 1] \o s[k]
    BY <1>5 DEF Joined
  <2>4. ASSUME NEW k \in 1..n PROVE g[k] = IF k = 1 THEN s[k] ELSE g[k - 1] \o s[k]
    <3>1. CASE k = n
      <4>1. n # 1 => g[n - 1] = f[n - 1]
        <5> HIDE DEF g
        <5> QED BY <1>9, <2>2
      <4>2. g[n] = last
        BY <1>4
      <4> HIDE DEF g
      <4> QED BY <3>1, <4>1, <4>2
    <3>2. CASE k # n
      <4> HIDE DEF g, last
      <4> QED BY <1>8, <2>2, <2>3, <3>2
    <3> QED BY <3>1, <3>2
  <2> HIDE DEF g
  <2> QED BY <2>1, <2>4 DEF Joined
<1> HIDE DEF g
<1> QED BY <1>2, <1>10

LEMMA FlattenType ==
    ASSUME NEW D, NEW s \in Seq(Seq(D))
    PROVE  FlattenSeq(s) \in Seq(D)
<1>1. CASE Len(s) = 0
  <2>1. FlattenSeq(s) = s
    BY <1>1 DEF FlattenSeq
  <2>2. s = <<>>
    BY <1>1
  <2>3. << >> \in Seq(D)
    OBVIOUS
  <2> QED BY <2>1, <2>2, <2>3, Zenon
<1>2. CASE Len(s) # 0
  <2> DEFINE flat == CHOOSE g : g = [i \in 1..Len(s) |-> IF i = 1 THEN s[i] ELSE g[i - 1] \o s[i]]
  <2>1. FlattenSeq(s) = flat[Len(s)]
    BY <1>2, Zenon DEF FlattenSeq
  <2>2. PICK f : Joined(D, s, Len(s), f)
    BY JoinedExists
  <2>3. f = [i \in 1..Len(s) |-> IF i = 1 THEN s[i] ELSE f[i - 1] \o s[i]]
    BY <2>2 DEF Joined
  <2>4. flat = [i \in 1..Len(s) |-> IF i = 1 THEN s[i] ELSE flat[i - 1] \o s[i]]
    BY <2>3, Zenon
  <2>5. \A i \in 1..Len(s) : flat[i] = IF i = 1 THEN s[i] ELSE flat[i - 1] \o s[i]
    <3> HIDE DEF flat
    <3> QED BY <2>4
  <2>6. Len(s) \in Nat /\ Len(s) \in 1..Len(s) /\ \A k \in 1..Len(s) : s[k] \in Seq(D)
    BY <1>2
  <2> HIDE DEF flat
  <2> DEFINE bad == {k \in Nat : k \in 1..Len(s) /\ flat[k] \notin Seq(D)}
  <2>7. bad = {}
    <3> SUFFICES ASSUME bad # {} PROVE FALSE
      OBVIOUS
    <3>1. PICK k \in bad : \A m \in bad : k <= m
      BY LeastNumber
    <3>2. k \in 1..Len(s) /\ flat[k] \notin Seq(D) /\ s[k] \in Seq(D)
      BY <2>6, <3>1
    <3>3. k # 1
      BY <2>5, <3>2
    <3>4. k - 1 \in 1..Len(s) /\ k - 1 \in Nat /\ k - 1 < k /\ k \in Nat
      BY <2>6, <3>2, <3>3
    <3>5. k - 1 \notin bad
      <4> HIDE DEF bad
      <4> QED BY <3>1, <3>4
    <3>6. flat[k - 1] \in Seq(D)
      BY <3>4, <3>5
    <3>7. flat[k - 1] \o s[k] \in Seq(D)
      <4> HIDE DEF bad
      <4> QED BY <3>2, <3>6
    <3>8. flat[k] = flat[k - 1] \o s[k]
      BY <2>5, <3>2, <3>3
    <3> QED BY <3>2, <3>7, <3>8
  <2> QED BY <2>1, <2>6, <2>7
<1> QED BY <1>1, <1>2

LEMMA CanonicalType ==
    ASSUME NEW s \in Scopes
    PROVE  scope_canonical(s) \in Seq(Nat) /\ scope_canonical(s) # <<>>
<1>1. s.tag \in Seq(Nat) /\ s.contracts \in Seq(Nat) /\ s.fns \in Seq(Seq(Nat))
  BY StellarConstants
<1> DEFINE parts == [i \in DOMAIN s.fns |-> <<Len(s.fns[i])>> \o s.fns[i]]
<1>2. parts \in Seq(Seq(Nat))
  <2>1. DOMAIN s.fns = 1..Len(s.fns) /\ Len(s.fns) \in Nat
    BY <1>1
  <2>2. \A i \in 1..Len(s.fns) : <<Len(s.fns[i])>> \o s.fns[i] \in Seq(Nat)
    <3>1. \A i \in 1..Len(s.fns) : s.fns[i] \in Seq(Nat)
      BY <1>1
    <3>2. \A t \in Seq(Nat) : << Len(t) >> \o t \in Seq(Nat)
      <4>1. \A t \in Seq(Nat) : Len(t) \in Nat /\ << Len(t) >> \in Seq(Nat)
        OBVIOUS
      <4> QED BY <4>1
    <3> QED BY <3>1, <3>2
  <2>3. parts \in [1..Len(s.fns) -> Seq(Nat)]
    BY <2>1, <2>2
  <2> QED BY <2>1, <2>3
<1>3. Encoded(s.fns) \in Seq(Nat)
  BY <1>2, FlattenType DEF Encoded
<1> DEFINE a == s.tag \o << 0 >>
           b == a \o << Len(s.contracts) >>
           c == b \o s.contracts
           d == c \o << Len(s.fns) >>
<1>4. << 0 >> \in Seq(Nat) /\ << Len(s.contracts) >> \in Seq(Nat) /\ << Len(s.fns) >> \in Seq(Nat)
  BY <1>1
<1>5. a \in Seq(Nat) /\ Len(a) >= 1
  BY <1>1, <1>4
<1>6. b \in Seq(Nat) /\ Len(b) >= 1
  <2> HIDE DEF a
  <2> QED BY <1>4, <1>5
<1>7. c \in Seq(Nat) /\ Len(c) >= 1
  <2> HIDE DEF b
  <2> QED BY <1>1, <1>6
<1>8. d \in Seq(Nat) /\ Len(d) >= 1
  <2> HIDE DEF c
  <2> QED BY <1>4, <1>7
<1>9. scope_canonical(s) = d \o Encoded(s.fns)
  BY DEF scope_canonical
<1>10. d \o Encoded(s.fns) \in Seq(Nat) /\ Len(d \o Encoded(s.fns)) >= 1
  <2> HIDE DEF d
  <2> QED BY <1>3, <1>8
<1> QED BY <1>9, <1>10

SnapshotType == [version: Versions, rows: [OzIds -> [rule_hash: Seq(Nat), valid_until: Nat]]]

\* Every account has signers, a row is empty or holds what was pinned in it, and
\* no call has moved assets.
StellarInv ==
    /\ \A a \in DOMAIN accounts : a[1] \in Issuers /\ accounts[a] # {}
    /\ snapshot \in SnapshotType
    /\ \A i \in OzIds : snapshot.rows[i] = NoRow \/ snapshot.rows[i].rule_hash \in RuleHashes
    /\ moved = FALSE

LEMMA StellarInitOK == StellarInit => StellarInv
<1>1. NoRow \in [rule_hash: Seq(Nat), valid_until: Nat] /\ 1 \in Versions
  BY StellarConstants DEF NoRow
<1>2. DOMAIN << >> = {}
  OBVIOUS
<1> QED BY <1>1, <1>2 DEF StellarInit, StellarInv, SnapshotType

LEMMA StellarStepOK == StellarInv /\ [StellarNext]_stellarVars => StellarInv'
<1> SUFFICES ASSUME StellarInv, [StellarNext]_stellarVars PROVE StellarInv'
  OBVIOUS
<1>1. ASSUME NEW d \in Issuers, NEW salt, NEW s \in SignerLists, deploy_inner(<<d, salt>>, s) PROVE StellarInv'
  <2>1. s \in Seq(ToSet(s)) /\ s # <<>>
    BY <1>1, StellarConstants DEF deploy_inner
  <2>2. ToSet(s) # {}
    <3>1. Len(s) # 0 /\ Len(s) \in Nat /\ DOMAIN s = 1..Len(s)
      BY <2>1
    <3>2. s[1] \in ToSet(s)
      BY <3>1 DEF ToSet
    <3> QED BY <3>2
  <2>3. \A a \in DOMAIN accounts' : a[1] \in Issuers /\ accounts'[a] # {}
    <3> DEFINE new == <<d, salt>>
    <3>1. accounts' = [a \in DOMAIN accounts \cup {new} |->
                         IF a \in DOMAIN accounts THEN accounts[a] ELSE ToSet(s)]
      BY <1>1 DEF deploy_inner
    <3>2. new[1] \in Issuers
      OBVIOUS
    <3> HIDE DEF new
    <3> QED BY <2>2, <3>1, <3>2 DEF StellarInv
  <2> QED BY <1>1, <2>3 DEF deploy_inner, StellarInv
<1>2. ASSUME NEW a \in DOMAIN accounts, NEW s \in SignerLists, batch_add_signer(a, s) PROVE StellarInv'
  BY <1>2 DEF batch_add_signer, StellarInv
<1>3. ASSUME NEW h \in RuleHashes, NEW id \in OzIds, NEW u \in Untils, register_snapshot_entry(h, id, u)
      PROVE  StellarInv'
  <2> DEFINE row == [rule_hash |-> h, valid_until |-> u]
  <2>1. row \in [rule_hash: Seq(Nat), valid_until: Nat] /\ row.rule_hash \in RuleHashes
    BY CanonicalType, StellarConstants DEF RuleHashes
  <2>2. snapshot' = [snapshot EXCEPT !.rows[id] = row] /\ UNCHANGED <<accounts, moved>>
    BY <1>3 DEF register_snapshot_entry
  <2> HIDE DEF row
  <2>3. snapshot' \in SnapshotType /\ snapshot'.rows = [snapshot.rows EXCEPT ![id] = row]
    BY <2>1, <2>2 DEF StellarInv, SnapshotType
  <2>4. snapshot.rows \in [OzIds -> [rule_hash: Seq(Nat), valid_until: Nat]]
    BY DEF StellarInv, SnapshotType
  <2>5. \A i \in OzIds : snapshot'.rows[i] = NoRow \/ snapshot'.rows[i].rule_hash \in RuleHashes
    <3> SUFFICES ASSUME NEW i \in OzIds
                 PROVE  snapshot'.rows[i] = NoRow \/ snapshot'.rows[i].rule_hash \in RuleHashes
      OBVIOUS
    <3>1. snapshot'.rows[i] = IF i = id THEN row ELSE snapshot.rows[i]
      BY <2>3, <2>4
    <3> QED BY <2>1, <3>1 DEF StellarInv
  <2> QED BY <2>2, <2>3, <2>5 DEF StellarInv
<1>4. ASSUME NEW v \in Versions, set_snapshot_version(v) PROVE StellarInv'
  BY <1>4 DEF set_snapshot_version, StellarInv, SnapshotType
<1>5. ASSUME NEW c \in Contexts, sessionCall(c) PROVE StellarInv'
  <2>1. ~Moves(c)
    BY <1>5 DEF sessionCall, enforce, Moves
  <2> QED BY <1>5, <2>1 DEF sessionCall, StellarInv
<1>6. CASE UNCHANGED stellarVars
  BY <1>6 DEF stellarVars, StellarInv
<1> QED BY <1>1, <1>2, <1>3, <1>4, <1>5, <1>6 DEF StellarNext, deploy, predict_address, deploy_with_salt

\* Deployed accounts have signers, a row is empty or was pinned, and what a
\* session rule lets through moves no assets.
THEOREM StellarInvariance == StellarSpec => []StellarInv
BY StellarInitOK, StellarStepOK, PTL DEF StellarSpec

---------------------------------------------------------------------------
\* The properties of the run, which composes the chains: one contract is
\* busy, the others stand still

THEOREM AccountsCompose ==
    MCAccountsSpec => EvmSpec /\ SvmSpec /\ SessionVmSpec /\ StellarSpec
<1>1. MCAccountsInit => EvmInit /\ SvmInit /\ SessionVmInit /\ StellarInit
  BY DEF MCAccountsInit
<1>2. [MCAccountsNext]_accountVars => [EvmNext]_evmVars
  BY DEF MCAccountsNext, accountVars
<1>3. [MCAccountsNext]_accountVars => [SvmNext]_svmVars
  BY DEF MCAccountsNext, accountVars
<1>4. [MCAccountsNext]_accountVars => [SessionVmNext]_sessionVmVars
  BY DEF MCAccountsNext, accountVars
<1>5. [MCAccountsNext]_accountVars => [StellarNext]_stellarVars
  BY DEF MCAccountsNext, accountVars
<1> QED
  BY <1>1, <1>2, <1>3, <1>4, <1>5, PTL DEF MCAccountsSpec, EvmSpec, SvmSpec, SessionVmSpec, StellarSpec

\* The state of every contract keeps its type.
THEOREM AccountsTyped == MCAccountsSpec => []AccountsTypeOK
<1>1. EvmInv => EvmTypeOK
  BY DEF EvmInv, EvmTypeOK, Sound
<1>2. SvmInv => SvmTypeOK
  BY DEF SvmInv, SvmTypeOK, VaultsOK, SvmVaultType, SessionsOK, SvmSessionType, TreasuryOK, TicketType
<1>3. StellarInv => StellarTypeOK
  BY DEF StellarInv, StellarTypeOK, SnapshotType
<1>4. EvmTypeOK /\ SvmTypeOK /\ StellarTypeOK => AccountsTypeOK
  BY DEF AccountsTypeOK
<1> QED BY <1>1, <1>2, <1>3, <1>4, AccountsCompose, EvmInvariance, SvmInvariance, StellarInvariance, PTL

\* Fees can always be collected on both chains: factory and revenue vault keep
\* an administrator, and count and list agree with who is one.
THEOREM AlwaysManaged == MCAccountsSpec => []AdminsManaged
<1>1. FactoryManaged /\ TreasuryManaged => AdminsManaged
  BY DEF AdminsManaged
<1> QED BY <1>1, AccountsCompose, FactoryNeverOrphaned, TreasuryNeverOrphaned, PTL

\* A session never reaches what its owner kept from it: assets on Stellar, the
\* vault and the protected accounts in a game, and tokens whose extensions
\* could hide or redirect them.
THEOREM SessionsStayConfined == MCAccountsSpec => []SessionsConfined
<1>1. StellarInv => SessionsMoveNothing
  BY DEF StellarInv, SessionsMoveNothing
<1>2. GameInv => GamesConfined /\ ExtensionsHarmless
  <2> SUFFICES ASSUME GameInv PROVE ExtensionsHarmless
    BY DEF GameInv
  <2>1. /\ acct["mint"].data.tail \in Seq(0..255)
        /\ done.open => done.before["purse"].data.tail \in Seq(0..255)
    <3>1. "mint" \in Addrs /\ "purse" \in Addrs
      BY DEF Addrs
    <3>2. acct["mint"] \in AcctType /\ (done.open => done.before["purse"] \in AcctType)
      BY <3>1 DEF GameInv, NoCall
    <3> QED BY <3>2 DEF AcctType
  <2>2. SupportedOnly
    BY DEF GameInv
  <2> QED BY <2>1, <2>2, AccountsAdmissible, MintsAdmissible DEF SupportedOnly, ExtensionsHarmless
<1>3. SessionsMoveNothing /\ GamesConfined /\ ExtensionsHarmless => SessionsConfined
  BY DEF SessionsConfined
<1> QED BY <1>1, <1>2, <1>3, AccountsCompose, StellarInvariance, GameInvariance, PTL
=============================================================================
