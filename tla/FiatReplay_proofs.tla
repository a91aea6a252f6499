-------------------------- MODULE FiatReplay_proofs --------------------------
(***************************************************************************)
(* Proofs about the sums over the journal: the balance the guard reads is  *)
(* the one the wallet shows, the audit is clean, money is conserved, the   *)
(* refunds of a payment are bounded, and the rail implements the atomic    *)
(* ledger, for every set of identities, requests, intents, deposits,       *)
(* credits and payments.                                                   *)
(***************************************************************************)
EXTENDS FiatReplay, FiatLedger_proofs, Sums_proofs

---------------------------------------------------------------------------
\* Sums over sets of rows

AmountsIn(S) == [row \in S |-> row.amount]

\* SumOf is such a sum.
LEMMA SumOfAdds ==
    ASSUME NEW S, IsFiniteSet(S)
    PROVE  \E g : Adds(g, AmountsIn(S), Chooser(S), S) /\ SumOf(S) = g[S]
<1> DEFINE Eq(it) == it = [t \in SUBSET S |-> IF t = {} THEN 0
                           ELSE (CHOOSE x \in t : TRUE).amount + it[t \ {CHOOSE x \in t : TRUE}]]
<1> DEFINE c == Chooser(S)
<1> DEFINE f == AmountsIn(S)
<1>1. SumOf(S) = (CHOOSE it : Eq(it))[S]
  BY Zenon DEF SumOf, MapThenSumSet, MapThenFoldSet
<1>2. \A t \in SUBSET S : t # {} => (CHOOSE x \in t : TRUE) \in t
  BY Zenon
<1>3. \A t \in SUBSET S : t # {} => c[t] \in t /\ c[t] = (CHOOSE x \in t : TRUE)
  BY <1>2 DEF Chooser
<1> HIDE DEF c, f
<1>4. \A t \in SUBSET S : t # {} => f[c[t]] = (CHOOSE x \in t : TRUE).amount
  BY <1>3 DEF AmountsIn, f
<1>5. \A it : Adds(it, f, c, S) <=> Eq(it)
  <2> TAKE it
  <2> DEFINE L == [t \in SUBSET S |-> IF t = {} THEN 0 ELSE f[c[t]] + it[t \ {c[t]}]]
  <2> DEFINE R == [t \in SUBSET S |-> IF t = {} THEN 0
                           ELSE (CHOOSE x \in t : TRUE).amount + it[t \ {CHOOSE x \in t : TRUE}]]
  <2>1. L = R
    BY <1>3, <1>4
  <2>2. Adds(it, f, c, S) <=> it = L
    BY DEF Adds
  <2>3. Eq(it) <=> it = R
    BY DEF Eq
  <2> HIDE DEF L, R, Eq
  <2> QED BY <2>1, <2>2, <2>3
<1>6. \E it : Adds(it, f, c, S)
  BY <1>3, AddsExists
<1> HIDE DEF Eq
<1>7. Eq(CHOOSE it : Eq(it))
  BY <1>5, <1>6, Zenon
<1>8. Adds(CHOOSE it : Eq(it), f, c, S)
  BY <1>5, <1>7
<1> QED BY <1>1, <1>8 DEF f, c

\* What one takes out is what is missing.
LEMMA SumAdd ==
    ASSUME NEW S, IsFiniteSet(S), \A row \in S : row.amount \in Int
    PROVE  /\ SumOf(S) \in Int /\ (S = {} => SumOf(S) = 0)
           /\ \A x : x \notin S /\ x.amount \in Int => SumOf(S \cup {x}) = SumOf(S) + x.amount
<1>1. PICK g : Adds(g, AmountsIn(S), Chooser(S), S) /\ SumOf(S) = g[S]
  BY SumOfAdds
<1>2. AmountsIn(S) \in [S -> Int]
  BY DEF AmountsIn
<1>3. \A t : t # {} => (CHOOSE x \in t : TRUE) \in t
  BY Zenon
<1>4. \A T : \A t \in SUBSET T : t # {} => Chooser(T)[t] \in t /\ Chooser(T)[t] = (CHOOSE x \in t : TRUE)
  BY <1>3 DEF Chooser
<1>5. SumOf(S) \in Int /\ (S = {} => SumOf(S) = 0)
  <2>1. PICK c, f : c = Chooser(S) /\ f = AmountsIn(S)
    OBVIOUS
  <2>4. f \in [S -> Int] /\ \A t \in SUBSET S : t # {} => c[t] \in t
    BY <1>2, <1>4, <2>1
  <2>5. Adds(g, f, c, S)
    BY <1>1, <2>1
  <2>6. S \in SUBSET S
    OBVIOUS
  <2>7. g[S] \in Int
    BY <2>4, <2>5, <2>6, AddsAnyOrder
  <2>2. S = {} => g[S] = 0
    BY <1>1 DEF Adds
  <2> QED BY <1>1, <2>7, <2>2
<1>6. ASSUME NEW x, x \notin S, x.amount \in Int PROVE SumOf(S \cup {x}) = SumOf(S) + x.amount
  <2> DEFINE T == S \cup {x}
  <2>1. IsFiniteSet(T)
    BY FS_AddElement
  <2>2. PICK h : Adds(h, AmountsIn(T), Chooser(T), T) /\ SumOf(T) = h[T]
    BY <2>1, SumOfAdds
  <2>3. AmountsIn(T) \in [T -> Int] /\ AmountsIn(T)[x] = x.amount
    BY <1>6 DEF AmountsIn
  <2>4. \A y \in S : AmountsIn(T)[y] = AmountsIn(S)[y]
    BY DEF AmountsIn
  <2>5. T \ {x} = S /\ T \in SUBSET T /\ S \in SUBSET T /\ S \in SUBSET S
    BY <1>6
  <2>6. x \in T
    OBVIOUS
  <2> HIDE DEF T
  <2>7. h[T] = x.amount + h[S]
    <3>1. \A t \in SUBSET T : t # {} => Chooser(T)[t] \in t
      BY <1>4
    <3>2. \A t \in SUBSET T : h[t] \in Int /\ \A y \in t : h[t] = AmountsIn(T)[y] + h[t \ {y}]
      <4>1. PICK f \in [T -> Int] : f = AmountsIn(T)
        BY <2>3
      <4>2. PICK c : c = Chooser(T)
        OBVIOUS
      <4>3. Adds(h, f, c, T) /\ \A t \in SUBSET T : t # {} => c[t] \in t
        BY <2>2, <3>1, <4>1, <4>2
      <4>4. \A t \in SUBSET T : h[t] \in Int /\ \A y \in t : h[t] = f[y] + h[t \ {y}]
        BY <2>1, <4>3, AddsAnyOrder
      <4> QED BY <4>1, <4>4
    <3>3. h[T] = AmountsIn(T)[x] + h[T \ {x}]
      BY <2>5, <2>6, <3>2
    <3> QED BY <2>3, <2>5, <3>3
  <2>8. \A t \in SUBSET S : t \in SUBSET T /\ t # {} =>
           Chooser(T)[t] = Chooser(S)[t] /\ AmountsIn(T)[Chooser(S)[t]] = AmountsIn(S)[Chooser(S)[t]]
    BY <1>4, <2>4
  <2>9. \A t \in SUBSET S : t # {} => Chooser(S)[t] \in t
    BY <1>4
  <2>10. g[S] = h[S]
    BY <1>1, <2>2, <2>5, <2>8, <2>9, AddsAgree
  <2>11. SumOf(T) = x.amount + SumOf(S)
    BY <1>1, <2>2, <2>7, <2>10
  <2>12. \A a, b \in Int : a + b = b + a
    OBVIOUS
  <2> QED BY <1>5, <1>6, <2>11, <2>12 DEF T
<1> QED BY <1>5, <1>6

TotalOf(b, S) == MapThenSumSet(LAMBDA p : b[p], S)

\* Sums over the values of a function.
LEMMA TotalAdds ==
    ASSUME NEW S, IsFiniteSet(S), NEW b
    PROVE  \E g : Adds(g, b, Chooser(S), S) /\ TotalOf(b, S) = g[S]
<1> DEFINE Eq(it) == it = [t \in SUBSET S |-> IF t = {} THEN 0
                           ELSE b[CHOOSE x \in t : TRUE] + it[t \ {CHOOSE x \in t : TRUE}]]
<1> DEFINE c == Chooser(S)
<1>1. TotalOf(b, S) = (CHOOSE it : Eq(it))[S]
  BY Zenon DEF TotalOf, MapThenSumSet, MapThenFoldSet
<1>2. \A t \in SUBSET S : t # {} => (CHOOSE x \in t : TRUE) \in t
  BY Zenon
<1>3. \A t \in SUBSET S : t # {} => c[t] \in t /\ c[t] = (CHOOSE x \in t : TRUE)
  BY <1>2 DEF Chooser
<1> HIDE DEF c
<1>5. \A it : Adds(it, b, c, S) <=> Eq(it)
  <2> TAKE it
  <2> DEFINE L == [t \in SUBSET S |-> IF t = {} THEN 0 ELSE b[c[t]] + it[t \ {c[t]}]]
  <2> DEFINE R == [t \in SUBSET S |-> IF t = {} THEN 0
                           ELSE b[CHOOSE x \in t : TRUE] + it[t \ {CHOOSE x \in t : TRUE}]]
  <2>1. L = R
    BY <1>3
  <2>2. Adds(it, b, c, S) <=> it = L
    BY DEF Adds
  <2>3. Eq(it) <=> it = R
    BY DEF Eq
  <2> HIDE DEF L, R, Eq
  <2> QED BY <2>1, <2>2, <2>3
<1>6. \E it : Adds(it, b, c, S)
  BY <1>3, AddsExists
<1> HIDE DEF Eq
<1>7. Eq(CHOOSE it : Eq(it))
  BY <1>5, <1>6, Zenon
<1>8. Adds(CHOOSE it : Eq(it), b, c, S)
  BY <1>5, <1>7
<1> QED BY <1>1, <1>8 DEF c

\* One value changes: the total changes by as much.
LEMMA TotalUpdate ==
    ASSUME NEW S, IsFiniteSet(S), NEW b \in [S -> Int], NEW d \in [S -> Int], NEW q \in S,
           \A p \in S \ {q} : d[p] = b[p]
    PROVE  /\ TotalOf(b, S) \in Int /\ TotalOf(d, S) \in Int
           /\ TotalOf(d, S) = TotalOf(b, S) + (d[q] - b[q])
<1>1. PICK g : Adds(g, b, Chooser(S), S) /\ TotalOf(b, S) = g[S]
  BY TotalAdds
<1>2. PICK h : Adds(h, d, Chooser(S), S) /\ TotalOf(d, S) = h[S]
  BY TotalAdds
<1>3. \A t : t # {} => (CHOOSE x \in t : TRUE) \in t
  BY Zenon
<1>4. \A t \in SUBSET S : t # {} => Chooser(S)[t] \in t
  BY <1>3 DEF Chooser
<1> DEFINE R == S \ {q}
<1>5. S \in SUBSET S /\ R \in SUBSET S /\ IsFiniteSet(R)
  BY FS_RemoveElement
<1>6. g[S] = b[q] + g[R] /\ g[R] \in Int /\ g[S] \in Int
  BY <1>1, <1>4, <1>5, AddsAnyOrder
<1>7. h[S] = d[q] + h[R] /\ h[R] \in Int /\ h[S] \in Int
  BY <1>2, <1>4, <1>5, AddsAnyOrder
<1>8. g[R] = h[R]
  <2> DEFINE gr == [t \in SUBSET R |-> g[t]]
  <2>1. Adds(gr, b, Chooser(S), R)
    <3>1. \A t \in SUBSET R : t # {} => Chooser(S)[t] \in t /\ t \ {Chooser(S)[t]} \in SUBSET R
      BY <1>4, <1>5
    <3>2. \A t \in SUBSET R : g[t] = IF t = {} THEN 0 ELSE b[Chooser(S)[t]] + g[t \ {Chooser(S)[t]}]
      BY <1>1, <1>5 DEF Adds
    <3>3. \A t \in SUBSET R : gr[t] = IF t = {} THEN 0 ELSE b[Chooser(S)[t]] + gr[t \ {Chooser(S)[t]}]
      BY <3>1, <3>2
    <3>4. gr = [t \in SUBSET R |-> gr[t]]
      OBVIOUS
    <3> HIDE DEF gr
    <3> QED BY <3>3, <3>4 DEF Adds
  <2>2. gr[R] = g[R]
    OBVIOUS
  <2> HIDE DEF gr
  <2>3. \A t \in SUBSET R : t # {} => Chooser(S)[t] \in t
    BY <1>4, <1>5
  <2>4. \A t \in SUBSET R : t # {} => d[Chooser(S)[t]] = b[Chooser(S)[t]]
    BY <2>3
  <2>5. R \in SUBSET R
    OBVIOUS
  <2>6. \A t \in SUBSET R : t \in SUBSET S /\ t # {} =>
           Chooser(S)[t] = Chooser(S)[t] /\ d[Chooser(S)[t]] = b[Chooser(S)[t]]
    BY <2>4
  <2>7. \A t \in SUBSET R : t \in SUBSET S => gr[t] = h[t]
    <3> HIDE DEF R
    <3> QED BY <1>2, <1>5, <2>1, <2>3, <2>6, AddsAgree
  <2>8. gr[R] = h[R]
    BY <1>5, <2>5, <2>7
  <2> QED BY <2>2, <2>8
<1>9. b[q] \in Int /\ d[q] \in Int
  OBVIOUS
<1> HIDE DEF R
<1>10. PICK k \in Int : g[R] = k
  BY <1>6
<1>11. PICK x \in Int, y \in Int : b[q] = x /\ d[q] = y
  BY <1>9
<1>12. g[S] = x + k /\ h[S] = y + k
  BY <1>6, <1>7, <1>8, <1>10, <1>11
<1>13. x + k \in Int /\ y + k \in Int /\ y + k = (x + k) + (y - x)
  BY <1>10, <1>11
<1> QED BY <1>1, <1>2, <1>11, <1>12, <1>13

---------------------------------------------------------------------------
\* What appending a leg adds to a sum

\* A row without its place in the chain.
Body(row) == [key |-> row.key, kind |-> row.kind, pid |-> row.pid, amount |-> row.amount, dir |-> row.dir]

\* The rows of J whose body is in sel.
Selected(J, sel) == {row \in J : Body(row) \in sel}

Share(leg, sel) == IF leg \in sel THEN leg.amount ELSE 0

\* Numbered rows: all sums over them are integers.
Numbered(J, n) == IsFiniteSet(J) /\ \A row \in J : row.amount \in Nat /\ row.seq \in Nat /\ row.seq <= n

\* The row one more leg becomes.
LEMMA ChainedOne ==
    ASSUME NEW s \in Seq(LegType), NEW leg \in LegType, NEW h \in HeadType
    PROVE  \E row : /\ Chained(s \o <<leg>>, h) = Chained(s, h) \cup {row}
                    /\ row.seq = h.seq + (Len(s) + 1) /\ row.amount = leg.amount /\ Body(row) = leg
<1> DEFINE u == s \o <<leg>>
<1> DEFINE n == Len(s)
<1> DEFINE Row(w, k) == [key |-> w[k].key, kind |-> w[k].kind, pid |-> w[k].pid,
                         amount |-> w[k].amount, dir |-> w[k].dir, seq |-> h.seq + k,
                         prev |-> IF k = 1 THEN h.key ELSE w[k - 1].key]
<1>1. n \in Nat /\ Len(u) = n + 1 /\ u[n + 1] = leg /\ \A k \in 1..n : u[k] = s[k]
  OBVIOUS
<1>2. Chained(u, h) = {Row(u, k) : k \in 1..(n + 1)} /\ Chained(s, h) = {Row(s, k) : k \in 1..n}
  BY <1>1 DEF Chained
<1>3. \A k \in 1..n : Row(u, k) = Row(s, k)
  <2> TAKE k \in 1..n
  <2>1. k = 1 \/ k - 1 \in 1..n
    BY <1>1
  <2> QED BY <1>1, <2>1
<1>4. leg = [key |-> leg.key, kind |-> leg.kind, pid |-> leg.pid, amount |-> leg.amount, dir |-> leg.dir]
  BY DEF LegType
<1>5. LET row == Row(u, n + 1)
      IN  row.seq = h.seq + (n + 1) /\ row.amount = leg.amount /\ Body(row) = leg
  BY <1>1, <1>4 DEF Body
<1> HIDE DEF Row, u
<1>6. {Row(u, k) : k \in 1..(n + 1)} = {Row(s, k) : k \in 1..n} \cup {Row(u, n + 1)}
  <2>1. \A k : k \in 1..(n + 1) <=> k \in 1..n \/ k = n + 1
    BY <1>1
  <2> QED BY <1>3, <2>1
<1> QED BY <1>2, <1>5, <1>6 DEF u

\* The journal J with the legs s chained after h; its bodies, and its sums.
With(J, s, h)      == J \cup Chained(s, h)
Bodies(J)          == {Body(row) : row \in J}
Carried(J, sel)    == SumOf(Selected(J, sel))
If(c, leg)         == IF c THEN {leg} ELSE {}
IfShare(c, leg, sel) == IF c THEN Share(leg, sel) ELSE 0
Sound(J, s, h)     == s \in Seq(LegType) /\ Numbered(With(J, s, h), h.seq + Len(s))

Grown(J1, J2, c, leg) ==
    /\ Bodies(J2) = Bodies(J1) \cup If(c, leg)
    /\ \A sel : Carried(J2, sel) = Carried(J1, sel) + IfShare(c, leg, sel)

\* One leg more: its amount goes to the sums it belongs to.
LEMMA OneMore ==
    ASSUME NEW J, NEW s, NEW leg \in LegType, NEW c, NEW h \in HeadType, Sound(J, s, h)
    PROVE  Sound(J, s \o When(c, leg), h) /\ Grown(With(J, s, h), With(J, s \o When(c, leg), h), c, leg)
<1>0. s \in Seq(LegType) /\ Numbered(J \cup Chained(s, h), h.seq + Len(s))
  BY DEF Sound, With
<1> DEFINE u == s \o When(c, leg)
<1> DEFINE J1 == J \cup Chained(s, h)
<1> DEFINE J2 == J \cup Chained(u, h)
<1>1. h.seq \in Nat /\ Len(s) \in Nat /\ leg.amount \in Nat
  BY <1>0 DEF HeadType, LegType
<1>2. ASSUME NEW sel PROVE IsFiniteSet(Selected(J1, sel)) /\ \A row \in Selected(J1, sel) : row.amount \in Int
  BY <1>0, FS_Subset DEF Selected, Numbered
<1>3. ASSUME NEW sel PROVE SumOf(Selected(J1, sel)) \in Int
  BY <1>2, SumAdd
<1>4. CASE ~c
  <2>1. u = s
    BY <1>4 DEF When
  <2> HIDE DEF u
  <2>2. J2 = J1
    BY <2>1
  <2> HIDE DEF J1, J2
  <2>3. \A sel : SumOf(Selected(J2, sel)) = SumOf(Selected(J1, sel)) + 0
    BY <1>3, <2>2
  <2>4. \A sel : If(c, leg) = {} /\ IfShare(c, leg, sel) = 0
    BY <1>4 DEF If, IfShare
  <2> QED BY <1>0, <2>1, <2>2, <2>3, <2>4 DEF u, J1, J2, Sound, With, Bodies, Carried, Grown
<1>5. CASE c
  <2>1. u = s \o <<leg>>
    BY <1>5 DEF When
  <2>2. PICK row : /\ Chained(s \o <<leg>>, h) = Chained(s, h) \cup {row}
                   /\ row.seq = h.seq + (Len(s) + 1) /\ row.amount = leg.amount /\ Body(row) = leg
    BY <1>0, ChainedOne
  <2>3. u \in Seq(LegType) /\ Len(u) = Len(s) + 1
    BY <1>0, <2>1
  <2> HIDE DEF u
  <2>4. J2 = J1 \cup {row}
    BY <2>1, <2>2
  <2>5. row \notin J1
    BY <1>0, <1>1, <2>2 DEF Numbered
  <2> HIDE DEF J1, J2
  <2>6. Numbered(J2, h.seq + Len(u))
    <3>1. IsFiniteSet(J2)
      BY <1>0, <2>4, FS_AddElement DEF Numbered, J1
    <3>2. \A o \in J1 : o.amount \in Nat /\ o.seq \in Nat /\ o.seq <= h.seq + Len(s)
      BY <1>0 DEF Numbered, J1
    <3>3. \A o \in J1 : o.seq <= h.seq + Len(u)
      BY <1>1, <2>3, <3>2
    <3>4. row.amount \in Nat /\ row.seq \in Nat /\ row.seq <= h.seq + Len(u)
      BY <1>1, <2>2, <2>3
    <3> QED BY <2>4, <3>1, <3>2, <3>3, <3>4 DEF Numbered
  <2>7. {Body(o) : o \in J2} = {Body(o) : o \in J1} \cup {leg}
    BY <2>2, <2>4
  <2>8. ASSUME NEW sel PROVE SumOf(Selected(J2, sel)) = SumOf(Selected(J1, sel)) + Share(leg, sel)
    <3>1. CASE leg \notin sel
      <4>1. Selected(J2, sel) = Selected(J1, sel)
        BY <2>2, <2>4, <3>1 DEF Selected
      <4>2. Share(leg, sel) = 0
        BY <3>1 DEF Share
      <4>3. PICK k \in Int : SumOf(Selected(J1, sel)) = k
        BY <1>3 DEF J1
      <4>4. k = k + 0
        OBVIOUS
      <4> QED BY <4>1, <4>2, <4>3, <4>4
    <3>2. CASE leg \in sel
      <4> DEFINE S == Selected(J1, sel)
      <4>1. Selected(J2, sel) = S \cup {row}
        BY <2>2, <2>4, <3>2 DEF Selected
      <4>2. row \notin S /\ row.amount \in Int
        BY <1>1, <2>2, <2>5 DEF Selected
      <4>3. IsFiniteSet(S) /\ \A o \in S : o.amount \in Int
        BY <1>2 DEF J1
      <4> HIDE DEF S
      <4>4. SumOf(S \cup {row}) = SumOf(S) + row.amount
        BY <4>2, <4>3, SumAdd
      <4> QED BY <2>2, <3>2, <4>1, <4>4 DEF Share, S
    <3> QED BY <3>1, <3>2
  <2>9. \A sel : If(c, leg) = {leg} /\ IfShare(c, leg, sel) = Share(leg, sel)
    BY <1>5 DEF If, IfShare
  <2> QED BY <2>3, <2>6, <2>7, <2>8, <2>9 DEF u, J1, J2, Sound, With, Bodies, Carried, Grown
<1> QED BY <1>4, <1>5

---------------------------------------------------------------------------
\* What a posting adds to the sums

OutLeg(po) == Leg(po, "OUT", OutKind(po), po.from, po.gross, "out")
InLeg(po)  == Leg(po, "IN", InKind(po), po.to, po.net, "in")
FeeLeg(po) == Leg(po, "FEE", "fiat_fee", FeePid(po), po.fee, "out")
TaxLeg(po) == Leg(po, "TAX", "fiat_tax", FeePid(po), po.tax, "out")
AppLeg(po) == Leg(po, "APPFEE", "fiat_app_fee", po.owner, po.appFee, "in")

LegSet(po) == If(po.from # NoPid, OutLeg(po)) \cup {InLeg(po)} \cup If(po.fee > 0, FeeLeg(po))
              \cup If(po.tax > 0, TaxLeg(po)) \cup If(po.appFee > 0, AppLeg(po))

LegSum(po, sel) ==
      IfShare(po.from # NoPid, OutLeg(po), sel) + Share(InLeg(po), sel) + IfShare(po.fee > 0, FeeLeg(po), sel)
    + IfShare(po.tax > 0, TaxLeg(po), sel) + IfShare(po.appFee > 0, AppLeg(po), sel)

LEMMA FiveLegs ==
    ASSUME NEW po \in PostingType, po.group \in Groups
    PROVE  /\ OutLeg(po) \in LegType /\ InLeg(po) \in LegType /\ FeeLeg(po) \in LegType
           /\ TaxLeg(po) \in LegType /\ AppLeg(po) \in LegType
<1>1. ASSUME NEW name \in LegNames, NEW kind \in Kinds, NEW pid \in Pids \cup {NoPid},
             NEW amount \in Nat, NEW dir \in {"in", "out"}
      PROVE  Leg(po, name, kind, pid, amount, dir) \in LegType
  <2>1. <<po.group, name>> \in KeyType
    BY DEF KeyType
  <2> QED BY <2>1 DEF Leg, LegType
<1>2. /\ po.from \in Pids \cup {NoPid} /\ po.to \in Pids \cup {NoPid}
      /\ po.owner \in Pids \cup {NoPid} /\ po.kind \in PostingKinds
      /\ po.gross \in Nat /\ po.net \in Nat /\ po.fee \in Nat /\ po.tax \in Nat
      /\ po.appFee \in Nat
  BY DEF PostingType
<1>3. FeePid(po) \in Pids \cup {NoPid}
  BY <1>2 DEF FeePid
<1>4. OutKind(po) \in Kinds /\ InKind(po) \in Kinds
  BY <1>2 DEF OutKind, InKind, Kinds, PostingKinds
<1>5. {"fiat_fee", "fiat_tax", "fiat_app_fee"} \subseteq Kinds /\ {"OUT", "IN", "FEE", "TAX", "APPFEE"} \subseteq LegNames
  BY DEF Kinds, LegNames
<1> QED BY <1>1, <1>2, <1>3, <1>4, <1>5 DEF OutLeg, InLeg, FeeLeg, TaxLeg, AppLeg

\* A posting adds its legs, and what they carry, to the journal.
LEMMA PostAdds ==
    ASSUME NEW J, NEW po \in PostingType, po.group \in Groups, NEW h \in HeadType, Numbered(J, h.seq)
    PROVE  LET J2 == J \cup Chained(Legs(po), h)
           IN  /\ IsFiniteSet(J2) /\ Bodies(J2) = Bodies(J) \cup LegSet(po)
               /\ \A sel : Carried(J, sel) \in Int /\ Carried(J2, sel) = Carried(J, sel) + LegSum(po, sel)
<1>1. OutLeg(po) \in LegType /\ InLeg(po) \in LegType /\ FeeLeg(po) \in LegType /\ TaxLeg(po) \in LegType /\ AppLeg(po) \in LegType
  BY FiveLegs
<1> DEFINE c1 == po.from # NoPid
<1> DEFINE c3 == po.fee > 0
<1> DEFINE c4 == po.tax > 0
<1> DEFINE c5 == po.appFee > 0
<1>3. PICK c2 \in BOOLEAN : c2 = TRUE
  OBVIOUS
<1> DEFINE s0 == << >>
<1> DEFINE s1 == s0 \o When(c1, OutLeg(po))
<1> DEFINE s2 == s1 \o When(c2, InLeg(po))
<1> DEFINE s3 == s2 \o When(c3, FeeLeg(po))
<1> DEFINE s4 == s3 \o When(c4, TaxLeg(po))
<1> DEFINE s5 == s4 \o When(c5, AppLeg(po))
<1>4. Sound(J, s0, h) /\ With(J, s0, h) = J
  <2>1. Chained(s0, h) = {}
    BY DEF Chained
  <2>2. h.seq + Len(s0) = h.seq
    BY DEF HeadType
  <2>3. s0 \in Seq(LegType) /\ With(J, s0, h) = J
    BY <2>1 DEF With
  <2> QED BY <2>2, <2>3 DEF Sound
<1>5. Legs(po) = s5
  <2>1. When(c2, InLeg(po)) = <<InLeg(po)>>
    BY <1>3 DEF When
  <2>2. When(c1, OutLeg(po)) \in Seq(LegType)
    BY <1>1 DEF When
  <2>3. s0 \o When(c1, OutLeg(po)) = When(c1, OutLeg(po))
    BY <2>2
  <2> QED BY <2>1, <2>3 DEF Legs, OutLeg, InLeg, FeeLeg, TaxLeg, AppLeg
<1> HIDE DEF s0, c1, c3, c4, c5
<1>6. Sound(J, s1, h) /\ Grown(With(J, s0, h), With(J, s1, h), c1, OutLeg(po))
  BY <1>1, <1>4, OneMore
<1> HIDE DEF s1
<1>7. Sound(J, s2, h) /\ Grown(With(J, s1, h), With(J, s2, h), c2, InLeg(po))
  BY <1>1, <1>6, OneMore
<1> HIDE DEF s2
<1>8. Sound(J, s3, h) /\ Grown(With(J, s2, h), With(J, s3, h), c3, FeeLeg(po))
  BY <1>1, <1>7, OneMore
<1> HIDE DEF s3
<1>9. Sound(J, s4, h) /\ Grown(With(J, s3, h), With(J, s4, h), c4, TaxLeg(po))
  BY <1>1, <1>8, OneMore
<1> HIDE DEF s4
<1>10. Sound(J, s5, h) /\ Grown(With(J, s4, h), With(J, s5, h), c5, AppLeg(po))
  BY <1>1, <1>9, OneMore
<1> HIDE DEF s5
<1>11. IsFiniteSet(With(J, s5, h)) /\ With(J, s5, h) = J \cup Chained(Legs(po), h)
  BY <1>5, <1>10 DEF Sound, Numbered, With
<1>12. If(c2, InLeg(po)) = {InLeg(po)} /\ \A sel : IfShare(c2, InLeg(po), sel) = Share(InLeg(po), sel)
  BY <1>3 DEF If, IfShare
<1>13. Bodies(With(J, s5, h)) = Bodies(J) \cup LegSet(po)
  <2>1. Bodies(With(J, s5, h)) = Bodies(J) \cup If(c1, OutLeg(po)) \cup {InLeg(po)} \cup If(c3, FeeLeg(po))
                                  \cup If(c4, TaxLeg(po)) \cup If(c5, AppLeg(po))
    BY <1>4, <1>6, <1>7, <1>8, <1>9, <1>10, <1>12 DEF Grown
  <2> QED BY <2>1 DEF LegSet, c1, c3, c4, c5
<1>14. ASSUME NEW sel
       PROVE  Carried(J, sel) \in Int /\ Carried(With(J, s5, h), sel) = Carried(J, sel) + LegSum(po, sel)
  <2>1. Carried(J, sel) \in Int
    <3>1. IsFiniteSet(Selected(J, sel)) /\ \A row \in Selected(J, sel) : row.amount \in Int
      BY FS_Subset DEF Selected, Numbered
    <3> QED BY <3>1, SumAdd DEF Carried
  <2>2. \A leg \in LegType : Share(leg, sel) \in Int
    BY DEF Share, LegType
  <2> DEFINE a1 == IfShare(c1, OutLeg(po), sel)
  <2> DEFINE a2 == Share(InLeg(po), sel)
  <2> DEFINE a3 == IfShare(c3, FeeLeg(po), sel)
  <2> DEFINE a4 == IfShare(c4, TaxLeg(po), sel)
  <2> DEFINE a5 == IfShare(c5, AppLeg(po), sel)
  <2>3. a1 \in Int /\ a2 \in Int /\ a3 \in Int /\ a4 \in Int /\ a5 \in Int
    BY <1>1, <2>2 DEF IfShare
  <2>4. LegSum(po, sel) = a1 + a2 + a3 + a4 + a5
    BY DEF LegSum, c1, c3, c4, c5
  <2> HIDE DEF a1, a2, a3, a4, a5
  <2>5. Carried(With(J, s5, h), sel) = ((((Carried(J, sel) + a1) + a2) + a3) + a4) + a5
    BY <1>4, <1>6, <1>7, <1>8, <1>9, <1>10, <1>12 DEF a1, a2, a3, a4, a5, Grown
  <2>6. \A x0, x1, x2, x3, x4, x5 \in Int : ((((x0 + x1) + x2) + x3) + x4) + x5 = x0 + (x1 + x2 + x3 + x4 + x5)
    OBVIOUS
  <2> QED BY <2>1, <2>3, <2>4, <2>5, <2>6
<1> QED BY <1>11, <1>13, <1>14

---------------------------------------------------------------------------
\* The sums of the ledger, and the share each leg has in them

CreditsOf(p) == {leg \in LegType : leg.pid = p /\ CreditsRow(leg)}
DebitsOf(p)  == {leg \in LegType : leg.pid = p /\ DebitsRow(leg)}
OfKind(kind) == {leg \in LegType : leg.kind = kind}
OutOf(g)     == {leg \in LegType : leg.key[1] = g /\ ReplayOut(leg)}
InOf(g)      == {leg \in LegType : leg.key[1] = g /\ ~ReplayOut(leg)}
FromSources  == {leg \in LegType : leg.key[1] \in Sources}
RefundsOf(p) == {leg \in LegType : \E x \in RefundIds : leg.key = <<<<p, x>>, "OUT">>}

\* The sums of the code are sums of selected rows.
LEMMA SumsSelected ==
    ASSUME NEW J \in SUBSET RowType
    PROVE  /\ \A p : {row \in J : row.pid = p /\ CreditsRow(row)} = Selected(J, CreditsOf(p))
           /\ \A p : {row \in J : row.pid = p /\ DebitsRow(row)} = Selected(J, DebitsOf(p))
           /\ \A kind : {row \in J : row.kind = kind} = Selected(J, OfKind(kind))
           /\ \A g : {row \in J : row.key[1] = g /\ ReplayOut(row)} = Selected(J, OutOf(g))
           /\ \A g : {row \in J : row.key[1] = g /\ ~ReplayOut(row)} = Selected(J, InOf(g))
           /\ {row \in J : row.key[1] \in Deposits \cup Credits \cup Payments} = Selected(J, FromSources)
           /\ \A p : {row \in J : \E x \in RefundIds : row.key = <<<<p, x>>, "OUT">>} = Selected(J, RefundsOf(p))
<1>1. \A row \in J : /\ Body(row) \in LegType /\ Body(row).key = row.key /\ Body(row).kind = row.kind
                     /\ Body(row).pid = row.pid /\ Body(row).dir = row.dir
  BY DEF Body, LegType, RowType
<1>2. \A row \in J : /\ CreditsRow(Body(row)) <=> CreditsRow(row)
                     /\ DebitsRow(Body(row)) <=> DebitsRow(row)
                     /\ ReplayOut(Body(row)) <=> ReplayOut(row)
  BY <1>1 DEF CreditsRow, DebitsRow, ReplayOut
<1>3. \A p : {row \in J : row.pid = p /\ CreditsRow(row)} = Selected(J, CreditsOf(p))
  BY <1>1, <1>2 DEF Selected, CreditsOf
<1>4. \A p : {row \in J : row.pid = p /\ DebitsRow(row)} = Selected(J, DebitsOf(p))
  BY <1>1, <1>2 DEF Selected, DebitsOf
<1>5. \A kind : {row \in J : row.kind = kind} = Selected(J, OfKind(kind))
  BY <1>1 DEF Selected, OfKind
<1>6. \A g : {row \in J : row.key[1] = g /\ ReplayOut(row)} = Selected(J, OutOf(g))
  BY <1>1, <1>2 DEF Selected, OutOf
<1>7. \A g : {row \in J : row.key[1] = g /\ ~ReplayOut(row)} = Selected(J, InOf(g))
  BY <1>1, <1>2 DEF Selected, InOf
<1>8. {row \in J : row.key[1] \in Deposits \cup Credits \cup Payments} = Selected(J, FromSources)
  BY <1>1 DEF Selected, FromSources, Sources
<1>9. \A p : {row \in J : \E x \in RefundIds : row.key = <<<<p, x>>, "OUT">>} = Selected(J, RefundsOf(p))
  BY <1>1 DEF Selected, RefundsOf
<1> QED BY <1>3, <1>4, <1>5, <1>6, <1>7, <1>8, <1>9

\* What the legs are.
LEMMA LegFields ==
    ASSUME NEW po \in PostingType
    PROVE  /\ OutLeg(po).key = <<po.group, "OUT">> /\ OutLeg(po).kind \in {"fiat_transfer_out", "fiat_adjust"}
           /\ OutLeg(po).pid = po.from /\ OutLeg(po).amount = po.gross /\ OutLeg(po).dir = "out"
           /\ InLeg(po).key = <<po.group, "IN">> /\ InLeg(po).pid = po.to
           /\ InLeg(po).kind \in {"fiat_transfer_in", "fiat_adjust", "fiat_issue", "fiat_payment_in"}
           /\ InLeg(po).amount = po.net /\ InLeg(po).dir = "in"
           /\ FeeLeg(po).key = <<po.group, "FEE">> /\ FeeLeg(po).kind = "fiat_fee"
           /\ FeeLeg(po).amount = po.fee /\ FeeLeg(po).dir = "out"
           /\ TaxLeg(po).key = <<po.group, "TAX">> /\ TaxLeg(po).kind = "fiat_tax"
           /\ TaxLeg(po).amount = po.tax /\ TaxLeg(po).dir = "out"
           /\ AppLeg(po).key = <<po.group, "APPFEE">> /\ AppLeg(po).kind = "fiat_app_fee"
           /\ AppLeg(po).pid = po.owner /\ AppLeg(po).amount = po.appFee /\ AppLeg(po).dir = "in"
<1>1. po.kind \in PostingKinds
  BY DEF PostingType
<1>2. OutKind(po) \in {"fiat_transfer_out", "fiat_adjust"}
  BY DEF OutKind
<1>3. InKind(po) \in {"fiat_transfer_in", "fiat_adjust", "fiat_issue", "fiat_payment_in"}
  BY <1>1 DEF InKind, PostingKinds
<1> QED BY <1>2, <1>3 DEF OutLeg, InLeg, FeeLeg, TaxLeg, AppLeg, Leg

\* Which sums each leg belongs to.
LEMMA LegBelongs ==
    ASSUME NEW po \in PostingType, po.group \in Groups
    PROVE  /\ \A p : /\ OutLeg(po) \notin CreditsOf(p) /\ (OutLeg(po) \in DebitsOf(p) <=> po.from = p)
                     /\ (InLeg(po) \in CreditsOf(p) <=> po.to = p) /\ InLeg(po) \notin DebitsOf(p)
                     /\ FeeLeg(po) \notin CreditsOf(p) /\ FeeLeg(po) \notin DebitsOf(p)
                     /\ TaxLeg(po) \notin CreditsOf(p) /\ TaxLeg(po) \notin DebitsOf(p)
                     /\ (AppLeg(po) \in CreditsOf(p) <=> po.owner = p) /\ AppLeg(po) \notin DebitsOf(p)
           /\ \A kind \in {"fiat_fee", "fiat_tax"} :
                     /\ OutLeg(po) \notin OfKind(kind) /\ InLeg(po) \notin OfKind(kind) /\ AppLeg(po) \notin OfKind(kind)
                     /\ FeeLeg(po) \in OfKind(kind) <=> kind = "fiat_fee"
                     /\ TaxLeg(po) \in OfKind(kind) <=> kind = "fiat_tax"
           /\ \A g : /\ (OutLeg(po) \in OutOf(g) <=> po.group = g) /\ InLeg(po) \notin OutOf(g)
                     /\ FeeLeg(po) \notin OutOf(g) /\ TaxLeg(po) \notin OutOf(g) /\ AppLeg(po) \notin OutOf(g)
                     /\ OutLeg(po) \notin InOf(g) /\ (InLeg(po) \in InOf(g) <=> po.group = g)
                     /\ (FeeLeg(po) \in InOf(g) <=> po.group = g) /\ (TaxLeg(po) \in InOf(g) <=> po.group = g)
                     /\ (AppLeg(po) \in InOf(g) <=> po.group = g)
           /\ \A leg \in {OutLeg(po), InLeg(po), FeeLeg(po), TaxLeg(po), AppLeg(po)} :
                     leg \in FromSources <=> po.group \in Sources
           /\ \A p : /\ (OutLeg(po) \in RefundsOf(p) <=> \E x \in RefundIds : po.group = <<p, x>>)
                     /\ InLeg(po) \notin RefundsOf(p) /\ FeeLeg(po) \notin RefundsOf(p)
                     /\ TaxLeg(po) \notin RefundsOf(p) /\ AppLeg(po) \notin RefundsOf(p)
<1>1. OutLeg(po) \in LegType /\ InLeg(po) \in LegType /\ FeeLeg(po) \in LegType /\ TaxLeg(po) \in LegType /\ AppLeg(po) \in LegType
  BY FiveLegs
<1>2. \A p : /\ OutLeg(po) \notin CreditsOf(p) /\ (OutLeg(po) \in DebitsOf(p) <=> po.from = p)
             /\ (InLeg(po) \in CreditsOf(p) <=> po.to = p) /\ InLeg(po) \notin DebitsOf(p)
             /\ FeeLeg(po) \notin CreditsOf(p) /\ FeeLeg(po) \notin DebitsOf(p)
             /\ TaxLeg(po) \notin CreditsOf(p) /\ TaxLeg(po) \notin DebitsOf(p)
             /\ (AppLeg(po) \in CreditsOf(p) <=> po.owner = p) /\ AppLeg(po) \notin DebitsOf(p)
  BY <1>1, LegFields DEF CreditsOf, DebitsOf, CreditsRow, DebitsRow, CreditKinds
<1>3. \A kind \in {"fiat_fee", "fiat_tax"} :
             /\ OutLeg(po) \notin OfKind(kind) /\ InLeg(po) \notin OfKind(kind) /\ AppLeg(po) \notin OfKind(kind)
             /\ FeeLeg(po) \in OfKind(kind) <=> kind = "fiat_fee"
             /\ TaxLeg(po) \in OfKind(kind) <=> kind = "fiat_tax"
  BY <1>1, LegFields DEF OfKind
<1>4. \A g : /\ (OutLeg(po) \in OutOf(g) <=> po.group = g) /\ InLeg(po) \notin OutOf(g)
             /\ FeeLeg(po) \notin OutOf(g) /\ TaxLeg(po) \notin OutOf(g) /\ AppLeg(po) \notin OutOf(g)
             /\ OutLeg(po) \notin InOf(g) /\ (InLeg(po) \in InOf(g) <=> po.group = g)
             /\ (FeeLeg(po) \in InOf(g) <=> po.group = g) /\ (TaxLeg(po) \in InOf(g) <=> po.group = g)
             /\ (AppLeg(po) \in InOf(g) <=> po.group = g)
  BY <1>1, LegFields DEF OutOf, InOf, ReplayOut
<1>5. \A leg \in {OutLeg(po), InLeg(po), FeeLeg(po), TaxLeg(po), AppLeg(po)} : leg \in FromSources <=> po.group \in Sources
  BY <1>1, LegFields DEF FromSources
<1>6. \A p : /\ (OutLeg(po) \in RefundsOf(p) <=> \E x \in RefundIds : po.group = <<p, x>>)
             /\ InLeg(po) \notin RefundsOf(p) /\ FeeLeg(po) \notin RefundsOf(p)
             /\ TaxLeg(po) \notin RefundsOf(p) /\ AppLeg(po) \notin RefundsOf(p)
  <2>1. \A p : OutLeg(po) \in RefundsOf(p) <=> \E x \in RefundIds : OutLeg(po).key = <<<<p, x>>, "OUT">>
    BY <1>1 DEF RefundsOf
  <2>2. \A p, x : OutLeg(po).key = <<<<p, x>>, "OUT">> <=> po.group = <<p, x>>
    <3>1. OutLeg(po).key = <<po.group, "OUT">>
      BY LegFields
    <3>2. \A a, b : <<a, "OUT">> = <<b, "OUT">> <=> a = b
      OBVIOUS
    <3> QED BY <3>1, <3>2, Zenon
  <2>3. \A p : \A leg \in {InLeg(po), FeeLeg(po), TaxLeg(po), AppLeg(po)} : leg \notin RefundsOf(p)
    <3>1. \A leg \in {InLeg(po), FeeLeg(po), TaxLeg(po), AppLeg(po)} : leg.key[2] # "OUT"
      BY LegFields
    <3>2. \A p : \A leg \in RefundsOf(p) : leg.key[2] = "OUT"
      BY DEF RefundsOf
    <3> QED BY <3>1, <3>2
  <2> QED BY <2>1, <2>2, <2>3
<1> QED BY <1>2, <1>3, <1>4, <1>5, <1>6

\* What a posting adds to each sum.
LEMMA LegShares ==
    ASSUME NEW po \in PostingType, po.group \in Groups
    PROVE  /\ \A p \in Pids : LegSum(po, CreditsOf(p)) = (IF p = po.to THEN po.net ELSE 0)
                                                         + (IF p = po.owner THEN po.appFee ELSE 0)
           /\ \A p \in Pids : LegSum(po, DebitsOf(p)) = IF p = po.from THEN po.gross ELSE 0
           /\ LegSum(po, OfKind("fiat_fee")) = po.fee /\ LegSum(po, OfKind("fiat_tax")) = po.tax
           /\ \A g : LegSum(po, OutOf(g)) = IF po.group = g /\ po.from # NoPid THEN po.gross ELSE 0
           /\ \A g : LegSum(po, InOf(g)) = IF po.group = g THEN po.net + po.fee + po.tax + po.appFee ELSE 0
           /\ LegSum(po, FromSources) = IF po.group \in Sources
                                        THEN (IF po.from # NoPid THEN po.gross ELSE 0)
                                             + po.net + po.fee + po.tax + po.appFee
                                        ELSE 0
           /\ \A p : LegSum(po, RefundsOf(p)) = IF po.from # NoPid /\ \E x \in RefundIds : po.group = <<p, x>>
                                                THEN po.gross ELSE 0
<1>1. /\ po.gross \in Nat /\ po.net \in Nat /\ po.fee \in Nat /\ po.tax \in Nat /\ po.appFee \in Nat
  BY DEF PostingType
<1>2. /\ OutLeg(po).amount = po.gross /\ InLeg(po).amount = po.net /\ FeeLeg(po).amount = po.fee
      /\ TaxLeg(po).amount = po.tax /\ AppLeg(po).amount = po.appFee
  BY LegFields
<1>3. \A sel : LegSum(po, sel) = (IF po.from # NoPid /\ OutLeg(po) \in sel THEN po.gross ELSE 0)
                                 + (IF InLeg(po) \in sel THEN po.net ELSE 0)
                                 + (IF FeeLeg(po) \in sel THEN po.fee ELSE 0)
                                 + (IF TaxLeg(po) \in sel THEN po.tax ELSE 0)
                                 + (IF AppLeg(po) \in sel THEN po.appFee ELSE 0)
  BY <1>1, <1>2 DEF LegSum, IfShare, Share
<1>4. \A p \in Pids : p # NoPid
  BY JournalAssumption DEF NoPid
<1>5. ASSUME NEW p \in Pids
      PROVE  /\ LegSum(po, CreditsOf(p)) = (IF p = po.to THEN po.net ELSE 0) + (IF p = po.owner THEN po.appFee ELSE 0)
             /\ LegSum(po, DebitsOf(p)) = IF p = po.from THEN po.gross ELSE 0
  BY <1>1, <1>3, <1>4, LegBelongs
<1>6. LegSum(po, OfKind("fiat_fee")) = po.fee /\ LegSum(po, OfKind("fiat_tax")) = po.tax
  BY <1>1, <1>3, LegBelongs
<1>7. ASSUME NEW g
      PROVE  /\ LegSum(po, OutOf(g)) = IF po.group = g /\ po.from # NoPid THEN po.gross ELSE 0
             /\ LegSum(po, InOf(g)) = IF po.group = g THEN po.net + po.fee + po.tax + po.appFee ELSE 0
  BY <1>1, <1>3, LegBelongs
<1>8. LegSum(po, FromSources) = IF po.group \in Sources
                                THEN (IF po.from # NoPid THEN po.gross ELSE 0) + po.net + po.fee + po.tax + po.appFee
                                ELSE 0
  <2>1. \A leg \in {OutLeg(po), InLeg(po), FeeLeg(po), TaxLeg(po), AppLeg(po)} : leg \in FromSources <=> po.group \in Sources
    BY LegBelongs
  <2> QED BY <1>1, <1>3, <2>1
<1>9. ASSUME NEW p
      PROVE  LegSum(po, RefundsOf(p)) = IF po.from # NoPid /\ \E x \in RefundIds : po.group = <<p, x>> THEN po.gross ELSE 0
  BY <1>1, <1>3, LegBelongs
<1> QED BY <1>5, <1>6, <1>7, <1>8, <1>9

---------------------------------------------------------------------------
\* A commit keeps the books

\* What a commit does to the rows and to every sum over them.
LEMMA PostSums ==
    ASSUME Core, IsFiniteSet(journal), NEW r \in Reqs, NEW events, PostLegs(r, events)
    PROVE  LET po == tx[r].po
           IN  /\ po \in PostingType /\ po.group \in Groups
               /\ IsFiniteSet(journal') /\ Bodies(journal') = Bodies(journal) \cup LegSet(po)
               /\ \A sel : Carried(journal, sel) \in Int /\ Carried(journal', sel) = Carried(journal, sel) + LegSum(po, sel)
               /\ <<po.group, "IN">> \notin Keys
               /\ bal' = [p \in Pids |-> bal[p] + Delta(po, p)]
<1> DEFINE po == tx[r].po
<1> DEFINE h == tx[r].head
<1>1. tx \in [Reqs -> TxType] /\ tx[r] \in TxType /\ RequestOK(r) /\ tx[r].pc = "append"
  BY DEF Core, CoreTypes, PostLegs, At
<1>2. po \in PostingType /\ po.group \in Groups /\ h \in HeadType
  BY <1>1 DEF TxType, RequestOK, Subject
<1>3. Numbered(journal, h.seq)
  <2>1. IsHead(h)
    BY <1>1 DEF RequestOK, HeadHeld, At
  <2>2. \A row \in journal : row.amount \in Nat /\ row.seq \in Nat
    BY DEF Core, CoreTypes, RowType
  <2> QED BY <2>1, <2>2 DEF Numbered, IsHead
<1>4. /\ journal' = journal \cup Chained(Legs(po), h) /\ ~DuplicateKey(r)
      /\ bal' = [p \in Pids |-> bal[p] + Delta(po, p)]
  BY DEF PostLegs
<1> HIDE DEF po, h
<1>5. /\ IsFiniteSet(journal') /\ Bodies(journal') = Bodies(journal) \cup LegSet(po)
      /\ \A sel : Carried(journal, sel) \in Int /\ Carried(journal', sel) = Carried(journal, sel) + LegSum(po, sel)
  BY <1>2, <1>3, <1>4, PostAdds
<1>6. <<po.group, "IN">> \notin Keys
  <2>1. Numbered({}, h.seq)
    BY FS_EmptySet DEF Numbered
  <2>2. Bodies({} \cup Chained(Legs(po), h)) = Bodies({}) \cup LegSet(po)
    BY <1>2, <2>1, PostAdds
  <2>3. InLeg(po) \in Bodies(Chained(Legs(po), h))
    BY <2>2 DEF LegSet
  <2>4. PICK row \in Chained(Legs(po), h) : Body(row) = InLeg(po)
    BY <2>3 DEF Bodies
  <2>5. PICK k \in 1..Len(Legs(po)) : row.key = Legs(po)[k].key
    BY <2>4 DEF Chained
  <2>6. Legs(po)[k].key = <<po.group, "IN">>
    <3>1. Body(row).key = row.key
      BY DEF Body
    <3>2. InLeg(po).key = <<po.group, "IN">>
      BY <1>2, LegFields
    <3> QED BY <2>4, <2>5, <3>1, <3>2
  <2> QED BY <1>4, <2>6 DEF DuplicateKey, po
<1> QED BY <1>2, <1>4, <1>5, <1>6 DEF po

\* The rows of a fair posting are fair.
LEMMA PostRowsFair ==
    ASSUME Core, RowsFair, NEW r \in Reqs, NEW events, PostLegs(r, events), FairPosting(tx[r].po)
    PROVE  RowsFair'
<1> DEFINE po == tx[r].po
<1> DEFINE Fair(b) == b.amount > 0 /\ b.dir \in ExpectedDir(b)
<1>1. /\ po \in PostingType /\ po.group \in Groups /\ IsFiniteSet(journal')
      /\ Bodies(journal') = Bodies(journal) \cup LegSet(po)
  BY PostSums DEF RowsFair
<1>2. FairPosting(po)
  OBVIOUS
<1> HIDE DEF po
<1>3. ASSUME NEW b \in LegSet(po) PROVE Fair(b) /\ b.key[1] = po.group
  <2>1. /\ po.gross \in Nat /\ po.net \in Nat /\ po.fee \in Nat /\ po.tax \in Nat /\ po.appFee \in Nat
    BY <1>1 DEF PostingType
  <2>2. CASE b = OutLeg(po) /\ po.from # NoPid
    <3>1. po.gross > 0
      BY <1>2, <2>1, <2>2 DEF FairPosting
    <3>2. b.amount = po.gross /\ b.kind \in {"fiat_transfer_out", "fiat_adjust"} /\ b.dir = "out" /\ b.key = <<po.group, "OUT">>
      BY <1>1, <2>2, LegFields
    <3> QED BY <3>1, <3>2 DEF ExpectedDir, CreditKinds
  <2>3. CASE b = InLeg(po)
    <3>1. po.net > 0
      BY <1>2 DEF FairPosting
    <3>2. /\ b.amount = po.net /\ b.dir = "in" /\ b.key = <<po.group, "IN">>
          /\ b.kind \in {"fiat_transfer_in", "fiat_adjust", "fiat_issue", "fiat_payment_in"}
      BY <1>1, <2>3, LegFields
    <3> QED BY <3>1, <3>2 DEF ExpectedDir, CreditKinds
  <2>4. CASE b = FeeLeg(po) /\ po.fee > 0
    BY <1>1, <2>4, LegFields DEF ExpectedDir, CreditKinds
  <2>5. CASE b = TaxLeg(po) /\ po.tax > 0
    BY <1>1, <2>5, LegFields DEF ExpectedDir, CreditKinds
  <2>6. CASE b = AppLeg(po) /\ po.appFee > 0
    BY <1>1, <2>6, LegFields DEF ExpectedDir, CreditKinds
  <2>7. \/ b = OutLeg(po) /\ po.from # NoPid
        \/ b = InLeg(po)
        \/ b = FeeLeg(po) /\ po.fee > 0
        \/ b = TaxLeg(po) /\ po.tax > 0
        \/ b = AppLeg(po) /\ po.appFee > 0
    <3>1. /\ b \in If(po.from # NoPid, OutLeg(po)) => po.from # NoPid /\ b = OutLeg(po)
          /\ b \in If(po.fee > 0, FeeLeg(po)) => po.fee > 0 /\ b = FeeLeg(po)
          /\ b \in If(po.tax > 0, TaxLeg(po)) => po.tax > 0 /\ b = TaxLeg(po)
          /\ b \in If(po.appFee > 0, AppLeg(po)) => po.appFee > 0 /\ b = AppLeg(po)
      BY DEF If
    <3>2. \/ b \in If(po.from # NoPid, OutLeg(po))
          \/ b = InLeg(po)
          \/ b \in If(po.fee > 0, FeeLeg(po))
          \/ b \in If(po.tax > 0, TaxLeg(po))
          \/ b \in If(po.appFee > 0, AppLeg(po))
      BY DEF LegSet
    <3> QED BY <3>1, <3>2
  <2> QED BY <2>2, <2>3, <2>4, <2>5, <2>6, <2>7
<1>4. \A row : /\ Body(row).key = row.key /\ Body(row).amount = row.amount
               /\ Body(row).dir = row.dir /\ Body(row).kind = row.kind
  BY DEF Body
<1>5. \A row : Fair(Body(row)) <=> Fair(row)
  BY <1>4 DEF ExpectedDir
<1>6. <<po.group, "IN">> \in Keys'
  <2>1. InLeg(po) \in Bodies(journal')
    BY <1>1 DEF LegSet
  <2>2. PICK row \in journal' : Body(row) = InLeg(po)
    BY <2>1 DEF Bodies
  <2>3. row.key = <<po.group, "IN">>
    BY <1>1, <1>4, <2>2, LegFields
  <2> QED BY <2>3 DEF Keys
<1>7. \A k \in Keys : k \in Keys'
  <2>1. ASSUME NEW row \in journal PROVE row.key \in Keys'
    <3>1. Body(row) \in Bodies(journal')
      BY <1>1 DEF Bodies
    <3>2. PICK o \in journal' : Body(o) = Body(row)
      BY <3>1 DEF Bodies
    <3>3. o.key = row.key
      BY <1>4, <3>2
    <3> QED BY <3>3 DEF Keys
  <2> QED BY <2>1 DEF Keys
<1>8. ASSUME NEW row \in journal' PROVE Fair(row) /\ <<row.key[1], "IN">> \in Keys'
  <2>1. Body(row) \in Bodies(journal) \/ Body(row) \in LegSet(po)
    BY <1>1 DEF Bodies
  <2>2. CASE Body(row) \in LegSet(po)
    <3>1. Fair(Body(row)) /\ Body(row).key[1] = po.group
      BY <1>3, <2>2
    <3> HIDE DEF Fair
    <3> QED BY <1>4, <1>5, <1>6, <3>1
  <2>3. CASE Body(row) \in Bodies(journal)
    <3>1. PICK o \in journal : Body(o) = Body(row)
      BY <2>3 DEF Bodies
    <3>2. Fair(o) /\ <<o.key[1], "IN">> \in Keys
      BY DEF RowsFair
    <3> HIDE DEF Fair
    <3>3. Fair(row) /\ row.key = o.key
      BY <1>4, <1>5, <3>1, <3>2
    <3> QED BY <1>7, <3>2, <3>3
  <2> QED BY <2>1, <2>2, <2>3
<1> QED BY <1>1, <1>8 DEF RowsFair

\* A total is an integer.
LEMMA TotalIsInt ==
    ASSUME NEW S, IsFiniteSet(S), NEW b \in [S -> Int]
    PROVE  TotalOf(b, S) \in Int
<1>1. CASE S = {}
  <2>1. PICK g : Adds(g, b, Chooser(S), S) /\ TotalOf(b, S) = g[S]
    BY TotalAdds
  <2> QED BY <1>1, <2>1 DEF Adds
<1>2. CASE S # {}
  <2>1. PICK q \in S : TRUE
    BY <1>2
  <2>2. \A p \in S \ {q} : b[p] = b[p]
    OBVIOUS
  <2> QED BY <2>1, <2>2, TotalUpdate
<1> QED BY <1>1, <1>2

\* d is b with k added to the value of q.
Adjusted(d, b, S, q, k) == \A p \in S : d[p] = b[p] + (IF p = q THEN k ELSE 0)

\* An amount added to one of the values is added to their total.
LEMMA TotalPlus ==
    ASSUME NEW S, IsFiniteSet(S), NEW b \in [S -> Int], NEW q, NEW k \in Int,
           NEW d \in [S -> Int], Adjusted(d, b, S, q, k)
    PROVE  TotalOf(d, S) = TotalOf(b, S) + (IF q \in S THEN k ELSE 0)
<1>1. CASE q \in S
  <2>1. \A p \in S \ {q} : d[p] = b[p]
    BY DEF Adjusted
  <2>2. TotalOf(d, S) = TotalOf(b, S) + (d[q] - b[q])
    BY <1>1, <2>1, TotalUpdate
  <2>3. d[q] - b[q] = k
    BY <1>1 DEF Adjusted
  <2> QED BY <1>1, <2>2, <2>3
<1>2. CASE q \notin S
  <2>1. \A p \in S : d[p] = b[p]
    BY <1>2 DEF Adjusted
  <2>2. d = b
    BY <2>1
  <2>3. PICK t \in Int : TotalOf(b, S) = t
    BY TotalIsInt
  <2>4. t = t + 0
    OBVIOUS
  <2> QED BY <1>2, <2>2, <2>3, <2>4
<1> QED BY <1>1, <1>2

\* What a posting adds to all balances together.
LEMMA TotalOfDelta ==
    ASSUME NEW b \in [Pids -> Int], NEW po \in PostingType, po.to \in Pids, po.appFee > 0 => po.owner \in Pids
    PROVE  LET d == [p \in Pids |-> b[p] + Delta(po, p)]
           IN  /\ TotalOf(b, Pids) \in Int
               /\ TotalOf(d, Pids) = TotalOf(b, Pids) + po.net + po.appFee - (IF po.from \in Pids THEN po.gross ELSE 0)
<1>1. po.gross \in Nat /\ po.net \in Nat /\ po.appFee \in Nat
  BY DEF PostingType
<1>2. IsFiniteSet(Pids)
  BY PidsAssumption
<1> DEFINE d == [p \in Pids |-> b[p] + Delta(po, p)]
<1> DEFINE b1 == [p \in Pids |-> b[p] + (IF p = po.to THEN po.net ELSE 0)]
<1> DEFINE b2 == [p \in Pids |-> b1[p] + (IF p = po.owner THEN po.appFee ELSE 0)]
<1>3. b1 \in [Pids -> Int] /\ b2 \in [Pids -> Int]
  BY <1>1
<1>4. d \in [Pids -> Int] /\ \A p \in Pids : d[p] = b2[p] + (IF p = po.from THEN -po.gross ELSE 0)
  <2> SUFFICES ASSUME NEW p \in Pids
               PROVE  /\ b[p] + Delta(po, p) \in Int
                      /\ b[p] + Delta(po, p) = b2[p] + (IF p = po.from THEN -po.gross ELSE 0)
    OBVIOUS
  <2> DEFINE u == IF p = po.to THEN po.net ELSE 0
  <2> DEFINE v == IF p = po.owner THEN po.appFee ELSE 0
  <2> DEFINE w == IF p = po.from THEN po.gross ELSE 0
  <2>1. u \in Int /\ v \in Int /\ w \in Int /\ (IF p = po.from THEN -po.gross ELSE 0) = -w
    BY <1>1
  <2>2. PICK x \in Int : x = b[p]
    OBVIOUS
  <2>3. b2[p] = (x + u) + v
    BY <2>2
  <2>4. Delta(po, p) = (u + v) - w
    BY <1>1 DEF Delta
  <2>5. x + ((u + v) - w) \in Int /\ x + ((u + v) - w) = ((x + u) + v) + (-w)
    <3> HIDE DEF u, v, w
    <3> QED BY <2>1
  <2> QED BY <2>1, <2>2, <2>3, <2>4, <2>5
<1>5. Adjusted(b1, b, Pids, po.to, po.net)
  BY DEF Adjusted
<1>6. Adjusted(b2, b1, Pids, po.owner, po.appFee)
  BY DEF Adjusted
<1>14. Adjusted(d, b2, Pids, po.from, -po.gross)
  <2> HIDE DEF d, b2
  <2> QED BY <1>4 DEF Adjusted
<1> HIDE DEF b1, b2, d
<1>7. TotalOf(b1, Pids) = TotalOf(b, Pids) + (IF po.to \in Pids THEN po.net ELSE 0)
  <2>1. po.net \in Int
    BY <1>1
  <2> QED BY <1>2, <1>3, <1>5, <2>1, TotalPlus
<1>8. TotalOf(b2, Pids) = TotalOf(b1, Pids) + (IF po.owner \in Pids THEN po.appFee ELSE 0)
  <2>1. po.appFee \in Int
    BY <1>1
  <2> QED BY <1>2, <1>3, <1>6, <2>1, TotalPlus
<1>9. TotalOf(d, Pids) = TotalOf(b2, Pids) + (IF po.from \in Pids THEN -po.gross ELSE 0)
  <2>1. -po.gross \in Int
    BY <1>1
  <2> QED BY <1>2, <1>3, <1>4, <1>14, <2>1, TotalPlus
<1>10. (IF po.owner \in Pids THEN po.appFee ELSE 0) = po.appFee
  BY <1>1
<1>11. PICK t \in Int : TotalOf(b, Pids) = t
  BY <1>2, TotalIsInt
<1>12. TotalOf(d, Pids) = ((t + po.net) + po.appFee) + (IF po.from \in Pids THEN -po.gross ELSE 0)
  BY <1>7, <1>8, <1>9, <1>10, <1>11
<1>13. TotalOf(d, Pids) = t + po.net + po.appFee - (IF po.from \in Pids THEN po.gross ELSE 0)
  BY <1>1, <1>12
<1> QED BY <1>11, <1>13 DEF d

\* The sums of the specification, before and after a step.
LEMMA SumsAre ==
    ASSUME journal \in SUBSET RowType
    PROVE  /\ \A p : SumPosted(p) = Carried(journal, CreditsOf(p)) - Carried(journal, DebitsOf(p))
           /\ \A kind : Bucket(kind) = Carried(journal, OfKind(kind))
           /\ \A g : GroupOut(g) = Carried(journal, OutOf(g)) /\ GroupIn(g) = Carried(journal, InOf(g))
           /\ Conservation <=> TotalOf(bal, Pids) + Bucket("fiat_fee") + Bucket("fiat_tax") = Carried(journal, FromSources)
           /\ \A p : SumOf({row \in journal : \E x \in RefundIds : row.key = <<<<p, x>>, "OUT">>}) = Carried(journal, RefundsOf(p))
<1>1. \A p : SumPosted(p) = Carried(journal, CreditsOf(p)) - Carried(journal, DebitsOf(p))
  BY SumsSelected DEF SumPosted, Carried
<1>2. \A kind : Bucket(kind) = Carried(journal, OfKind(kind))
  BY SumsSelected DEF Bucket, Carried
<1>3. \A g : GroupOut(g) = Carried(journal, OutOf(g)) /\ GroupIn(g) = Carried(journal, InOf(g))
  BY SumsSelected DEF GroupOut, GroupIn, Carried
<1>4. Conservation <=> TotalOf(bal, Pids) + Bucket("fiat_fee") + Bucket("fiat_tax") = Carried(journal, FromSources)
  BY SumsSelected DEF Conservation, TotalOf, Carried
<1>5. \A p : SumOf({row \in journal : \E x \in RefundIds : row.key = <<<<p, x>>, "OUT">>}) = Carried(journal, RefundsOf(p))
  BY SumsSelected DEF Carried
<1> QED BY <1>1, <1>2, <1>3, <1>4, <1>5

LEMMA SumsAreNext ==
    ASSUME journal' \in SUBSET RowType
    PROVE  /\ \A p : SumPosted(p)' = Carried(journal', CreditsOf(p)) - Carried(journal', DebitsOf(p))
           /\ \A kind : Bucket(kind)' = Carried(journal', OfKind(kind))
           /\ \A g : GroupOut(g)' = Carried(journal', OutOf(g)) /\ GroupIn(g)' = Carried(journal', InOf(g))
           /\ Conservation' <=> TotalOf(bal', Pids) + Bucket("fiat_fee")' + Bucket("fiat_tax")' = Carried(journal', FromSources)
           /\ \A p : SumOf({row \in journal' : \E x \in RefundIds : row.key = <<<<p, x>>, "OUT">>}) = Carried(journal', RefundsOf(p))
<1>1. \A p : SumPosted(p)' = Carried(journal', CreditsOf(p)) - Carried(journal', DebitsOf(p))
  BY SumsSelected DEF SumPosted, Carried
<1>2. \A kind : Bucket(kind)' = Carried(journal', OfKind(kind))
  BY SumsSelected DEF Bucket, Carried
<1>3. \A g : GroupOut(g)' = Carried(journal', OutOf(g)) /\ GroupIn(g)' = Carried(journal', InOf(g))
  BY SumsSelected DEF GroupOut, GroupIn, Carried
<1>4. Conservation' <=> TotalOf(bal', Pids) + Bucket("fiat_fee")' + Bucket("fiat_tax")' = Carried(journal', FromSources)
  BY SumsSelected DEF Conservation, TotalOf, Carried, MapThenSumSet, MapThenFoldSet
<1>5. \A p : SumOf({row \in journal' : \E x \in RefundIds : row.key = <<<<p, x>>, "OUT">>}) = Carried(journal', RefundsOf(p))
  BY SumsSelected DEF Carried
<1> QED BY <1>1, <1>2, <1>3, <1>4, <1>5

\* A fair posting keeps the books balanced.
LEMMA PostBooks ==
    ASSUME Core, RowsFair, BooksBalance, NEW r \in Reqs, NEW events, PostLegs(r, events), FairPosting(tx[r].po)
    PROVE  BooksBalance'
<1> DEFINE po == tx[r].po
<1>1. /\ po \in PostingType /\ po.group \in Groups
      /\ \A sel : Carried(journal, sel) \in Int /\ Carried(journal', sel) = Carried(journal, sel) + LegSum(po, sel)
      /\ <<po.group, "IN">> \notin Keys
      /\ bal' = [p \in Pids |-> bal[p] + Delta(po, p)]
  BY PostSums DEF RowsFair
<1>2. FairPosting(po)
  OBVIOUS
<1>3. journal \in SUBSET RowType /\ bal \in [Pids -> Int]
  BY DEF Core, CoreTypes
<1>4. journal' \in SUBSET RowType
  BY PostKeepsCore DEF Core, CoreTypes
<1>5. \A g : Posted(g)' <=> Posted(g) \/ g = po.group
  BY PostedBy
<1> HIDE DEF po
<1>6. /\ po.gross \in Nat /\ po.net \in Nat /\ po.fee \in Nat /\ po.tax \in Nat /\ po.appFee \in Nat
  BY <1>1 DEF PostingType
<1>7. ASSUME NEW p \in Pids PROVE bal'[p] = SumPosted(p)'
  <2>1. PICK c \in Int : Carried(journal, CreditsOf(p)) = c
    BY <1>1
  <2>2. PICK d \in Int : Carried(journal, DebitsOf(p)) = d
    BY <1>1
  <2>3. bal[p] = c - d
    BY <1>3, <2>1, <2>2, SumsAre DEF BooksBalance
  <2>4. Carried(journal', CreditsOf(p)) = c + ((IF p = po.to THEN po.net ELSE 0) + (IF p = po.owner THEN po.appFee ELSE 0))
    BY <1>1, <2>1, LegShares
  <2>5. Carried(journal', DebitsOf(p)) = d + (IF p = po.from THEN po.gross ELSE 0)
    BY <1>1, <2>2, LegShares
  <2>6. SumPosted(p)' = Carried(journal', CreditsOf(p)) - Carried(journal', DebitsOf(p))
    BY <1>4, SumsAreNext
  <2>7. bal'[p] = (c - d) + Delta(po, p)
    BY <1>1, <2>3
  <2> QED BY <1>6, <2>4, <2>5, <2>6, <2>7 DEF Delta
<1>8. \A row \in journal : row.key[1] # po.group
  BY <1>1 DEF RowsFair
<1>9. ASSUME NEW g, Posted(g)' PROVE GroupOut(g)' = 0 \/ GroupOut(g)' = GroupIn(g)'
  <2>1. /\ GroupOut(g)' = Carried(journal, OutOf(g)) + LegSum(po, OutOf(g))
        /\ GroupIn(g)' = Carried(journal, InOf(g)) + LegSum(po, InOf(g))
    BY <1>1, <1>4, SumsAreNext
  <2>2. /\ LegSum(po, OutOf(g)) = IF po.group = g /\ po.from # NoPid THEN po.gross ELSE 0
        /\ LegSum(po, InOf(g)) = IF po.group = g THEN po.net + po.fee + po.tax + po.appFee ELSE 0
    BY <1>1, LegShares
  <2>3. CASE g = po.group
    <3>1. Selected(journal, OutOf(g)) = {} /\ Selected(journal, InOf(g)) = {}
      BY <1>8, <2>3 DEF Selected, OutOf, InOf, Body
    <3>2. Carried(journal, OutOf(g)) = 0 /\ Carried(journal, InOf(g)) = 0
      BY <3>1, FS_EmptySet, SumAdd DEF Carried
    <3>3. po.from = NoPid \/ po.gross = po.net + po.fee + po.tax + po.appFee
      BY <1>2 DEF FairPosting
    <3> QED BY <1>6, <2>1, <2>2, <2>3, <3>2, <3>3
  <2>4. CASE g # po.group
    <3>1. Posted(g)
      BY <1>5, <1>9, <2>4
    <3>2. g \in GroupsPosted
      BY <3>1 DEF Posted, GroupsPosted
    <3>3. GroupOut(g) = 0 \/ GroupOut(g) = GroupIn(g)
      BY <3>2 DEF BooksBalance, BadGroups
    <3>4. PICK a \in Int : Carried(journal, OutOf(g)) = a
      BY <1>1
    <3>5. PICK b \in Int : Carried(journal, InOf(g)) = b
      BY <1>1
    <3>6. a = 0 \/ a = b
      BY <1>3, <3>3, <3>4, <3>5, SumsAre
    <3>7. GroupOut(g)' = a + 0 /\ GroupIn(g)' = b + 0
      BY <2>1, <2>2, <2>4, <3>4, <3>5
    <3> QED BY <3>6, <3>7
  <2> QED BY <2>3, <2>4
<1>10. BadGroups' = {}
  <2>1. \A g \in GroupsPosted' : Posted(g)'
    BY DEF GroupsPosted, Posted
  <2> QED BY <1>9, <2>1 DEF BadGroups
<1>11. Conservation'
  <2>1. PICK t \in Int : TotalOf(bal, Pids) = t
    BY <1>3, PidsAssumption, TotalIsInt
  <2>2. TotalOf(bal', Pids) = t + po.net + po.appFee - (IF po.from \in Pids THEN po.gross ELSE 0)
    <3>1. po.to \in Pids /\ (po.appFee > 0 => po.owner \in Pids)
      BY <1>2 DEF FairPosting
    <3> QED BY <1>1, <1>3, <2>1, <3>1, TotalOfDelta
  <2>3. PICK f \in Int : Carried(journal, OfKind("fiat_fee")) = f
    BY <1>1
  <2>4. PICK x \in Int : Carried(journal, OfKind("fiat_tax")) = x
    BY <1>1
  <2>5. PICK s \in Int : Carried(journal, FromSources) = s
    BY <1>1
  <2>6. t + f + x = s
    BY <1>3, <2>1, <2>3, <2>4, <2>5, SumsAre DEF BooksBalance
  <2>7. Bucket("fiat_fee")' = f + po.fee /\ Bucket("fiat_tax")' = x + po.tax
    BY <1>1, <1>4, <2>3, <2>4, LegShares, SumsAreNext
  <2>8. Carried(journal', FromSources) = s + (IF po.group \in Sources
                                             THEN (IF po.from # NoPid THEN po.gross ELSE 0)
                                                  + po.net + po.fee + po.tax + po.appFee
                                             ELSE 0)
    BY <1>1, <2>5, LegShares
  <2>9. TotalOf(bal', Pids) + Bucket("fiat_fee")' + Bucket("fiat_tax")' = Carried(journal', FromSources)
    <3>1. NoPid \notin Pids
      BY JournalAssumption DEF NoPid
    <3>2. CASE po.group \in Sources
      <4>1. po.from = NoPid
        BY <1>2, <3>2 DEF FairPosting
      <4>2. TotalOf(bal', Pids) = t + po.net + po.appFee
        BY <1>6, <2>2, <3>1, <4>1
      <4>3. Carried(journal', FromSources) = s + (po.net + po.fee + po.tax + po.appFee)
        BY <1>6, <2>8, <3>2, <4>1
      <4> QED BY <1>6, <2>6, <2>7, <4>2, <4>3
    <3>3. CASE po.group \notin Sources
      <4>1. po.from \in Pids /\ po.gross = po.net + po.fee + po.tax + po.appFee
        BY <1>2, <3>3 DEF FairPosting
      <4>2. TotalOf(bal', Pids) = t + po.net + po.appFee - po.gross
        BY <2>2, <4>1
      <4>3. Carried(journal', FromSources) = s
        BY <2>8, <3>3
      <4>4. \A n, e, y, a \in Nat : (t + n + a - (n + e + y + a)) + (f + e) + (x + y) = t + f + x
        OBVIOUS
      <4>5. TotalOf(bal', Pids) = t + po.net + po.appFee - (po.net + po.fee + po.tax + po.appFee)
        BY <4>1, <4>2
      <4>6. TotalOf(bal', Pids) + Bucket("fiat_fee")' + Bucket("fiat_tax")' = t + f + x
        BY <1>6, <2>7, <4>4, <4>5
      <4> QED BY <2>6, <4>3, <4>6
    <3> QED BY <3>2, <3>3
  <2> QED BY <1>4, <2>9, SumsAreNext
<1> QED BY <1>7, <1>10, <1>11 DEF BooksBalance

---------------------------------------------------------------------------
\* Requests stay fair

\* A step leaves the journal, the balances and the refunds alone.
BooksAlone ==
    /\ journal' = journal /\ bal' = bal
    /\ \A p \in Payments : pay'[p].refunded = pay[p].refunded

\* A step posts for request r, and only a refund counts as refunded.
Posts(r) ==
    /\ \E events : PostLegs(r, events)
    /\ FairPosting(tx[r].po)
    /\ \A p \in Payments : pay'[p].refunded
          = pay[p].refunded + (IF tx[r].op = "refund" /\ p = tx[r].ref THEN tx[r].po.gross ELSE 0)

StepFair == FairRequests' /\ (BooksAlone \/ \E r \in Reqs : Posts(r))

Known == IndInv /\ Settling /\ FairRequests

LEMMA IdleIsFair ==
    ASSUME NEW r \in Reqs, tx'[r] = IdleTx
    PROVE  FairRequest(r)'
BY DEF FairRequest, IdleTx, Past

\* A request that keeps its posting stays fair.
LEMMA SamePosting ==
    ASSUME NEW r \in Reqs, FairRequest(r),
           tx'[r].op = tx[r].op, tx'[r].ref = tx[r].ref, tx'[r].po = tx[r].po,
           tx'[r].pc \in {"chain", "append"} => Past(r) \/ FairPosting(tx[r].po)
    PROVE  FairRequest(r)'
<1>1. Past(r)' => Past(r) \/ FairPosting(tx[r].po)
  BY DEF Past
<1>2. FairPosting(tx[r].po)' <=> FairPosting(tx[r].po)
  BY DEF FairPosting
<1> QED BY <1>1, <1>2 DEF FairRequest, FairPosting

\* One request moves, the intents are left alone.
LEMMA OneMoves ==
    ASSUME Known, NEW r \in Reqs, \A s \in Reqs \ {r} : tx'[s] = tx[s], FairRequest(r)', intent' = intent
    PROVE  FairRequests'
<1>1. \A s \in Reqs \ {r} : FairRequest(s)'
  BY DEF Known, FairRequests, FairRequest, Past, FairPosting
<1>2. \A i \in Intents : intent'[i].st # "none" => FairPosting(intent'[i].po)
  BY DEF Known, FairRequests
<1> QED BY <1>1, <1>2 DEF FairRequests, FairPosting

\* A request ends.
LEMMA EndIsFair ==
    ASSUME Known, NEW r \in Reqs, End(r), intent' = intent
    PROVE  FairRequests'
<1>1. tx \in [Reqs -> TxType]
  BY DEF Known, IndInv, Core, CoreTypes
<1>2. tx'[r] = IdleTx /\ \A s \in Reqs \ {r} : tx'[s] = tx[s]
  BY <1>1 DEF End
<1> QED BY <1>2, IdleIsFair, OneMoves

\* A request goes on to its next program point.
LEMMA GotoIsFair ==
    ASSUME Known, NEW r \in Reqs, NEW pc, Goto(r, pc), intent' = intent,
           pc \in {"chain", "append"} => Past(r) \/ FairPosting(tx[r].po)
    PROVE  FairRequests'
<1>1. tx \in [Reqs -> TxType] /\ tx[r] \in TxType
  BY DEF Known, IndInv, Core, CoreTypes
<1>2. tx' = [tx EXCEPT ![r].pc = pc]
  BY DEF Goto
<1>3. /\ tx'[r].op = tx[r].op /\ tx'[r].ref = tx[r].ref /\ tx'[r].po = tx[r].po /\ tx'[r].pc = pc
      /\ \A s \in Reqs \ {r} : tx'[s] = tx[s]
  BY <1>1, <1>2 DEF TxType
<1>4. FairRequest(r)
  BY DEF Known, FairRequests
<1>5. FairRequest(r)'
  BY <1>3, <1>4, SamePosting
<1> QED BY <1>3, <1>5, OneMoves

\* A request begins.
LEMMA BeginIsFair ==
    ASSUME Known, NEW r \in Reqs, NEW op, NEW ref, NEW po, NEW need, NEW pc,
           Begin(r, op, ref, po, need, pc), intent' = intent, pc \notin {"chain", "append"},
           op \in {"confirm", "adjust", "mint"} => FairPosting(po),
           op = "issue" => po = IssuePosting(ref),
           op = "refund" => /\ po.from \in Pids /\ po.to \in Pids
                            /\ po.fee = 0 /\ po.tax = 0 /\ po.appFee = 0
    PROVE  FairRequests'
<1>1. tx \in [Reqs -> TxType]
  BY DEF Known, IndInv, Core, CoreTypes
<1> DEFINE t == [IdleTx EXCEPT !.op = op, !.ref = ref, !.po = po, !.need = need, !.pc = pc]
<1>2. tx' = [tx EXCEPT ![r] = t]
  BY DEF Begin
<1>3. t.op = op /\ t.ref = ref /\ t.po = po /\ t.pc = pc
  BY DEF IdleTx
<1> HIDE DEF t
<1>4. /\ tx'[r].op = op /\ tx'[r].ref = ref /\ tx'[r].po = po /\ tx'[r].pc = pc
      /\ \A s \in Reqs \ {r} : tx'[s] = tx[s]
  BY <1>1, <1>2, <1>3
<1>5. FairRequest(r)'
  BY <1>4 DEF FairRequest, Past, FairPosting
<1> QED BY <1>4, <1>5, OneMoves

\* A commit is a fair posting.
LEMMA CommitIsFair ==
    ASSUME Known, NEW r \in Reqs, NEW events, PostLegs(r, events)
    PROVE  FairPosting(tx[r].po) /\ End(r)
<1>1. Past(r) /\ End(r)
  BY DEF PostLegs, At, Past
<1> QED BY <1>1 DEF Known, FairRequests, FairRequest

LEMMA JournalStepFair ==
    ASSUME Known, JournalStep, UNCHANGED <<transferVars, payVars>>
    PROVE  StepFair
<1>1. intent' = intent /\ pay' = pay
  BY DEF transferVars, payVars
<1>2. tx \in [Reqs -> TxType]
  BY DEF Known, IndInv, Core, CoreTypes
<1>3. ASSUME NEW r \in Reqs, LockAccount(r) PROVE StepFair
  <2>1. journal' = journal /\ bal' = bal
    BY <1>3 DEF LockAccount
  <2> DEFINE q == NextToLock(tx[r].need)
  <2> DEFINE need == tx[r].need \ {q}
  <2> DEFINE pc == IF tx[r].need = {q} THEN "check" ELSE "lock"
  <2>2. tx' = [tx EXCEPT ![r].need = need, ![r].pc = pc] /\ pc \notin {"chain", "append"}
    BY <1>3 DEF LockAccount
  <2> HIDE DEF q, need, pc
  <2>3. /\ tx'[r].op = tx[r].op /\ tx'[r].ref = tx[r].ref /\ tx'[r].po = tx[r].po /\ tx'[r].pc = pc
        /\ \A s \in Reqs \ {r} : tx'[s] = tx[s]
    BY <1>2, <2>2 DEF TxType
  <2>4. FairRequest(r)'
    BY <2>2, <2>3, SamePosting DEF Known, FairRequests
  <2> QED BY <1>1, <2>1, <2>3, <2>4, OneMoves DEF StepFair, BooksAlone
<1>4. ASSUME NEW r \in Reqs, LockChain(r) PROVE StepFair
  <2>1. journal' = journal /\ bal' = bal /\ Past(r)
    BY <1>4 DEF LockChain, At, Past
  <2>2. tx' = [tx EXCEPT ![r].pc = "append", ![r].head = chainHead]
    BY <1>4 DEF LockChain
  <2>3. /\ tx'[r].op = tx[r].op /\ tx'[r].ref = tx[r].ref /\ tx'[r].po = tx[r].po
        /\ \A s \in Reqs \ {r} : tx'[s] = tx[s]
    BY <1>2, <2>2 DEF TxType
  <2>4. FairRequest(r)'
    BY <2>1, <2>3, SamePosting DEF Known, FairRequests
  <2> QED BY <1>1, <2>1, <2>3, <2>4, OneMoves DEF StepFair, BooksAlone
<1>5. ASSUME NEW r \in Reqs, UniqueViolation(r) \/ DeadlockVictim(r) \/ Fault(r) PROVE StepFair
  <2>1. End(r) /\ journal' = journal /\ bal' = bal
    BY <1>5 DEF UniqueViolation, DeadlockVictim, Fault, Abort
  <2> QED BY <1>1, <2>1, EndIsFair DEF StepFair, BooksAlone
<1>6. ASSUME (\E a \in Apps : SetAppActive(a)) \/ setFrozenOverride PROVE StepFair
  <2>1. journal' = journal /\ bal' = bal /\ tx' = tx
    BY <1>6 DEF SetAppActive, setFrozenOverride
  <2>2. FairRequests'
    BY <1>1, <2>1 DEF Known, FairRequests, FairRequest, Past, FairPosting
  <2> QED BY <1>1, <2>1, <2>2 DEF StepFair, BooksAlone
<1> QED BY <1>3, <1>4, <1>5, <1>6 DEF JournalStep

\* The posting of a correction, a mint, an issue and a payment is fair.
LEMMA FairPostings ==
    /\ \A q \in Adjusts, from, to \in Pids, amount \in Amounts : FairPosting(Move(q, "adjust", from, to, amount))
    /\ \A c \in Credits, p \in Pids, amount \in MintAmounts :
          FairPosting([NoPosting EXCEPT !.group = c, !.to = p, !.net = amount])
    /\ \A d \in Deposits : DepositQuote[d].net >= MinNet => FairPosting(IssuePosting(d))
    /\ \A p \in Payments : FairPosting(PaymentPosting(p))
<1>1. ASSUME NEW q \in Adjusts, NEW from \in Pids, NEW to \in Pids, NEW amount \in Amounts
      PROVE  FairPosting(Move(q, "adjust", from, to, amount))
  <2>1. q \notin Sources
    BY SubjectsApart DEF Sources
  <2>2. amount \in Nat /\ amount > 0
    BY TransferAssumption
  <2> QED BY <2>1, <2>2 DEF FairPosting, Move, NoPosting
<1>2. ASSUME NEW c \in Credits, NEW p \in Pids, NEW amount \in MintAmounts
      PROVE  FairPosting([NoPosting EXCEPT !.group = c, !.to = p, !.net = amount])
  <2>1. amount \in Nat /\ amount > 0
    BY TransferAssumption
  <2> QED BY <2>1 DEF FairPosting, NoPosting, Sources
<1>3. ASSUME NEW d \in Deposits, DepositQuote[d].net >= MinNet PROVE FairPosting(IssuePosting(d))
  <2>1. /\ DepositQuote[d].pid \in Pids /\ DepositQuote[d].owner \in Pids /\ DepositQuote[d].net \in Nat
        /\ MinNet \in Nat \ {0}
    BY TransferAssumption
  <2>2. DepositQuote[d].net > 0
    BY <1>3, <2>1
  <2> QED BY <2>1, <2>2 DEF FairPosting, IssuePosting, NoPosting, Sources
<1>4. ASSUME NEW p \in Payments PROVE FairPosting(PaymentPosting(p))
  <2>1. PayQuote[p].to \in Pids /\ PayQuote[p].amount \in Nat /\ PayQuote[p].amount > 0 /\ PayQuote[p].app \in Apps
    BY PaymentAssumption
  <2>2. AppOwner[PayQuote[p].app] \in Pids
    BY <2>1, JournalAssumption
  <2> QED BY <2>1, <2>2 DEF FairPosting, PaymentPosting, NoPosting, Sources
<1> QED BY <1>1, <1>2, <1>3, <1>4

\* The quote of an inquiry is fair.
LEMMA QuoteIsFair ==
    ASSUME NEW i \in Intents, NEW from \in Pids, NEW to \in Pids, NEW gross \in Amounts, NEW policy \in FeePolicies,
           NEW verified \in BOOLEAN, NEW a \in Apps \cup {NoApp},
           NEW po, po = Quoted(i, from, to, gross, InquiryQuote(gross, policy, verified, a),
                               IF a = NoApp THEN NoPid ELSE AppOwner[a]),
           po.net > 0
    PROVE  FairPosting(po)
<1>1. gross \in Nat /\ policy \in FeePolicy
  BY TransferAssumption
<1> DEFINE app == IF a = NoApp THEN [policy EXCEPT !.percentBps = 0] ELSE AppPolicy[a]
<1> DEFINE q == quoteFees(gross, policy, verified, app)
<1>2. app \in FeePolicy
  BY <1>1, TransferAssumption DEF FeePolicy
<1>3. q \in [fee: Nat, tax: Nat, appFee: Nat]
  BY <1>1, <1>2, QuoteType
<1>4. a = NoApp => q.appFee = 0
  <2>1. a = NoApp => app.percentBps = 0
    BY <1>1 DEF FeePolicy
  <2> QED BY <2>1 DEF quoteFees, appFeeFor
<1>5. InquiryQuote(gross, policy, verified, a) = q
  BY DEF InquiryQuote
<1> HIDE DEF q
<1>6. /\ po.group = i /\ po.from = from /\ po.to = to /\ po.gross = gross /\ po.fee = q.fee /\ po.tax = q.tax
      /\ po.appFee = q.appFee /\ po.net = gross - (q.fee + q.tax + q.appFee)
      /\ po.owner = IF a = NoApp THEN NoPid ELSE AppOwner[a]
  BY <1>5 DEF Quoted
<1>7. po.gross = po.net + po.fee + po.tax + po.appFee
  BY <1>1, <1>3, <1>6
<1>8. i \notin Sources
  BY SubjectsApart DEF Sources
<1>9. po.appFee > 0 => po.owner \in Pids
  <2>1. po.appFee > 0 => a \in Apps
    BY <1>4, <1>6
  <2> QED BY <1>6, <2>1, TransferAssumption, JournalAssumption
<1> QED BY <1>6, <1>7, <1>8, <1>9 DEF FairPosting

\* A step that leaves the books alone.
LEMMA StillFair ==
    ASSUME FairRequests', UNCHANGED <<journal, bal, pay>>
    PROVE  StepFair
BY DEF StepFair, BooksAlone

\* A new status leaves the intents fair.
LEMMA IntentsStayFair ==
    ASSUME Known, NEW j \in Intents, intent[j].st # "none", NEW st, intent' = [intent EXCEPT ![j].st = st]
    PROVE  \A i \in Intents : intent'[i].st # "none" => FairPosting(intent'[i].po)
<1>1. intent \in [Intents -> IntentType]
  BY DEF Known, IndInv, TransferTypes
<1>2. intent'[j].po = intent[j].po /\ \A i \in Intents \ {j} : intent'[i] = intent[i]
  BY <1>1 DEF IntentType
<1>3. \A i \in Intents : intent[i].st # "none" => FairPosting(intent[i].po)
  BY DEF Known, FairRequests
<1> QED BY <1>2, <1>3

\* A request ends, and the intents are fair.
LEMMA EndsFair ==
    ASSUME Known, NEW r \in Reqs, End(r),
           \A i \in Intents : intent'[i].st # "none" => FairPosting(intent'[i].po)
    PROVE  FairRequests'
<1>1. tx \in [Reqs -> TxType]
  BY DEF Known, IndInv, Core, CoreTypes
<1>2. tx'[r] = IdleTx /\ \A s \in Reqs \ {r} : tx'[s] = tx[s]
  BY <1>1 DEF End
<1>3. FairRequest(r)'
  BY <1>2, IdleIsFair
<1>4. \A s \in Reqs \ {r} : FairRequest(s)'
  BY <1>2 DEF Known, FairRequests, FairRequest, Past, FairPosting
<1>5. \A i \in Intents : intent[i].st # "none" => FairPosting(intent[i].po)
  BY DEF Known, FairRequests
<1> QED BY <1>3, <1>4 DEF FairRequests, FairPosting

LEMMA TransferStepFair ==
    ASSUME Known, TransferStep, UNCHANGED payVars
    PROVE  StepFair
<1>0. /\ pay' = pay /\ Core /\ FairRequests
      /\ \A r \in Reqs : /\ FairRequest(r) /\ Subject(r) /\ ConfirmsIntent(r) /\ CancelKnows(r) /\ IssueKnows(r)
  BY DEF payVars, Known, IndInv, Core, RequestOK, FairRequests, Settling, Knows
<1>1. active \in SUBSET Apps /\ intent \in [Intents -> IntentType]
  BY DEF Known, IndInv, SwitchTypes, TransferTypes
<1>2. ASSUME NEW r \in Reqs, Abort(r), UNCHANGED intent PROVE StepFair
  BY <1>0, <1>2, EndIsFair, StillFair DEF Abort
<1>3. ASSUME NEW r \in Reqs, Goto(r, "chain"), FairPosting(tx[r].po), UNCHANGED <<journal, bal, intent>>
      PROVE  StepFair
  BY <1>0, <1>3, GotoIsFair, StillFair
<1>4. ASSUME NEW r \in Reqs, NEW events, PostLegs(r, events), tx[r].op # "refund", UNCHANGED intent PROVE StepFair
  <2>1. FairPosting(tx[r].po) /\ End(r)
    BY <1>4, CommitIsFair
  <2>2. FairRequests'
    BY <1>4, <2>1, EndIsFair
  <2>3. \A p \in Payments : pay[p].refunded \in Nat
    BY DEF Known, IndInv, PaymentTypes, PayType
  <2>4. \A p \in Payments : pay'[p].refunded
          = pay[p].refunded + (IF tx[r].op = "refund" /\ p = tx[r].ref THEN tx[r].po.gross ELSE 0)
    BY <1>0, <1>4, <2>3
  <2>5. Posts(r)
    BY <1>4, <2>1, <2>4 DEF Posts
  <2> QED BY <2>2, <2>5 DEF StepFair
<1>5. ASSUME UNCHANGED <<journal, bal, tx, intent>> PROVE StepFair
  <2>1. FairRequests'
    BY <1>0, <1>5 DEF FairRequests, FairRequest, Past, FairPosting
  <2> QED BY <1>0, <1>5, <2>1, StillFair

<1>20. ASSUME NEW i \in Intents, NEW from \in Pids, NEW to \in Pids, NEW gross \in Amounts,
              NEW policy \in FeePolicies, NEW verified \in BOOLEAN,
              NEW a \in active \cup {NoApp},
              transferInquiry(i, from, to, gross, policy, verified, a)
       PROVE  StepFair
  <2> DEFINE po == Quoted(i, from, to, gross, InquiryQuote(gross, policy, verified, a),
                          IF a = NoApp THEN NoPid ELSE AppOwner[a])
  <2>1. po.net > 0 /\ intent' = [intent EXCEPT ![i] = [st |-> "created", po |-> po]]
    BY <1>20 DEF transferInquiry
  <2>2. UNCHANGED <<journal, bal, tx>>
    BY <1>20 DEF transferInquiry, journalVars
  <2>3. a \in Apps \cup {NoApp}
    BY <1>1
  <2>4. FairPosting(po)
    BY <2>1, <2>3, QuoteIsFair
  <2> HIDE DEF po
  <2>5. intent'[i].po = po /\ \A j \in Intents \ {i} : intent'[j] = intent[j]
    BY <1>1, <2>1
  <2>6. \A j \in Intents : intent'[j].st # "none" => FairPosting(intent'[j].po)
    BY <1>0, <2>4, <2>5 DEF FairRequests
  <2>7. \A r \in Reqs : FairRequest(r)'
    BY <1>0, <2>2 DEF FairRequest, Past, FairPosting
  <2>8. FairRequests'
    BY <2>6, <2>7 DEF FairRequests, FairPosting
  <2> QED BY <1>0, <2>2, <2>8, StillFair
<1>21. ASSUME NEW r \in Reqs, NEW i \in Intents, transferConfirm(r, i) PROVE StepFair
  <2> DEFINE po == intent[i].po
  <2> DEFINE need == {po.from, po.to}
  <2>1. intent[i].st = "created" /\ Begin(r, "confirm", i, po, need, "lock") /\ UNCHANGED transferVars
    BY <1>21 DEF transferConfirm
  <2>2. FairPosting(po)
    BY <1>0, <2>1 DEF FairRequests
  <2> HIDE DEF po, need
  <2>3. UNCHANGED <<journal, bal, intent>>
    BY <2>1 DEF Begin, transferVars
  <2>4. FairRequests'
    BY <2>1, <2>2, <2>3, BeginIsFair
  <2> QED BY <1>0, <2>3, <2>4, StillFair
<1>22. ASSUME NEW r \in Reqs, NEW i \in Intents, cancelIntent(r, i) PROVE StepFair
  <2> DEFINE need == CancelLocks(i)
  <2>1. Begin(r, "cancel", i, NoPosting, need, "lock") /\ UNCHANGED transferVars
    BY <1>22 DEF cancelIntent
  <2> HIDE DEF need
  <2>3. UNCHANGED <<journal, bal, intent>>
    BY <2>1 DEF Begin, transferVars
  <2>4. FairRequests'
    BY <2>1, <2>3, BeginIsFair
  <2> QED BY <1>0, <2>3, <2>4, StillFair
<1>23. ASSUME NEW r \in Reqs, NEW q \in Adjusts, NEW from \in Pids, NEW to \in Pids, NEW amount \in Amounts,
              adminAdjust(r, q, from, to, amount)
       PROVE  StepFair
  <2> DEFINE po == Move(q, "adjust", from, to, amount)
  <2> DEFINE need == {from, to}
  <2>1. Begin(r, "adjust", q, po, need, "lock") /\ UNCHANGED transferVars
    BY <1>23 DEF adminAdjust
  <2>2. FairPosting(po)
    BY FairPostings
  <2> HIDE DEF po, need
  <2>3. UNCHANGED <<journal, bal, intent>>
    BY <2>1 DEF Begin, transferVars
  <2>4. FairRequests'
    BY <2>1, <2>2, <2>3, BeginIsFair
  <2> QED BY <1>0, <2>3, <2>4, StillFair
<1>24. ASSUME NEW r \in Reqs, NEW d \in Deposits, issueForDeposit(r, d) PROVE StepFair
  <2> DEFINE po == IssuePosting(d)
  <2>1. Begin(r, "issue", d, po, {}, "corroborate") /\ UNCHANGED transferVars
    BY <1>24 DEF issueForDeposit
  <2>2. po = IssuePosting(d)
    OBVIOUS
  <2> HIDE DEF po
  <2>3. UNCHANGED <<journal, bal, intent>>
    BY <2>1 DEF Begin, transferVars
  <2>4. FairRequests'
    BY <2>1, <2>2, <2>3, BeginIsFair
  <2> QED BY <1>0, <2>3, <2>4, StillFair
<1>25. ASSUME NEW r \in Reqs, NEW c \in Credits, NEW p \in Pids, NEW amount \in MintAmounts,
              mintTestCredit(r, c, p, amount)
       PROVE  StepFair
  <2> DEFINE po == [NoPosting EXCEPT !.group = c, !.to = p, !.net = amount]
  <2> DEFINE need == {p}
  <2>1. Begin(r, "mint", c, po, need, "lock") /\ UNCHANGED transferVars
    BY <1>25 DEF mintTestCredit
  <2>2. FairPosting(po)
    BY FairPostings
  <2> HIDE DEF po, need
  <2>3. UNCHANGED <<journal, bal, intent>>
    BY <2>1 DEF Begin, transferVars
  <2>4. FairRequests'
    BY <2>1, <2>2, <2>3, BeginIsFair
  <2> QED BY <1>0, <2>3, <2>4, StillFair
<1>26. ASSUME Midnight \/ \E d \in Deposits : DepositConfirmed(d) \/ \E how \in {"paid", "mismatch"} : PayOrder(d, how)
       PROVE  StepFair
  BY <1>5, <1>26 DEF Midnight, DepositConfirmed, PayOrder, journalVars

<1>30. ASSUME NEW r \in Reqs, ConfirmCheck(r) \/ AdjustCheck(r) \/ MintCheck(r) PROVE StepFair
  <2>1. UNCHANGED intent /\ tx[r].op \in {"confirm", "adjust", "mint"}
    BY <1>30 DEF ConfirmCheck, AdjustCheck, MintCheck, transferVars
  <2>2. FairPosting(tx[r].po)
    BY <1>0, <2>1 DEF FairRequest
  <2>3. Abort(r) \/ (Goto(r, "chain") /\ UNCHANGED <<journal, bal>>)
    BY <1>30 DEF ConfirmCheck, AdjustCheck, MintCheck
  <2> QED BY <1>2, <1>3, <2>1, <2>2, <2>3
<1>31. ASSUME NEW r \in Reqs, IssueCorroborate(r) PROVE StepFair
  <2>1. UNCHANGED intent
    BY <1>31 DEF IssueCorroborate
  <2>2. CASE Abort(r)
    BY <1>2, <2>1, <2>2
  <2>3. CASE ~Abort(r)
    <3>1. DepositQuote[tx[r].ref].net >= MinNet /\ Goto(r, "chain") /\ UNCHANGED <<journal, bal>> /\ tx[r].op = "issue"
      BY <1>31, <2>3 DEF IssueCorroborate
    <3>2. tx[r].ref \in Deposits /\ tx[r].po = IssuePosting(tx[r].ref)
      BY <1>0, <3>1 DEF Subject, IssueKnows, FairRequest
    <3>3. FairPosting(tx[r].po)
      BY <3>1, <3>2, FairPostings
    <3> QED BY <1>3, <2>1, <3>1, <3>3
  <2> QED BY <2>2, <2>3
<1>32. ASSUME NEW r \in Reqs, ConfirmCommit(r) PROVE StepFair
  <2> DEFINE i == tx[r].ref
  <2> DEFINE events == TransferEvents(tx[r].po)
  <2>1. PostLegs(r, events) /\ intent' = [intent EXCEPT ![i].st = "posted"] /\ tx[r].op = "confirm"
    BY <1>32 DEF ConfirmCommit
  <2>2. i \in Intents /\ intent[i].st # "none"
    BY <1>0, <2>1 DEF ConfirmsIntent
  <2> HIDE DEF i, events
  <2>3. FairPosting(tx[r].po) /\ End(r)
    BY <2>1, CommitIsFair
  <2>4. \A j \in Intents : intent'[j].st # "none" => FairPosting(intent'[j].po)
    BY <2>1, <2>2, IntentsStayFair
  <2>5. FairRequests'
    BY <2>3, <2>4, EndsFair
  <2>6. \A p \in Payments : pay[p].refunded \in Nat
    BY DEF Known, IndInv, PaymentTypes, PayType
  <2>7. Posts(r)
    BY <1>0, <2>1, <2>3, <2>6 DEF Posts
  <2> QED BY <2>5, <2>7 DEF StepFair
<1>33. ASSUME NEW r \in Reqs, CancelCommit(r) PROVE StepFair
  <2> DEFINE i == tx[r].ref
  <2>1. /\ Abort(r) /\ tx[r].op = "cancel"
        /\ intent' = [intent EXCEPT ![i].st = IF @ = "created" THEN "cancelled" ELSE @]
    BY <1>33 DEF CancelCommit
  <2>2. i \in Intents /\ intent[i].st # "none"
    BY <1>0, <2>1 DEF CancelKnows
  <2> DEFINE st == IF intent[i].st = "created" THEN "cancelled" ELSE intent[i].st
  <2>3. intent' = [intent EXCEPT ![i].st = st]
    BY <2>1
  <2> HIDE DEF i, st
  <2>4. \A j \in Intents : intent'[j].st # "none" => FairPosting(intent'[j].po)
    BY <2>2, <2>3, IntentsStayFair
  <2>5. FairRequests'
    BY <2>1, <2>4, EndsFair DEF Abort
  <2> QED BY <1>0, <2>1, <2>5, StillFair DEF Abort
<1>34. ASSUME NEW r \in Reqs, AdjustCommit(r) \/ IssueCommit(r) \/ MintCommit(r) PROVE StepFair
  <2>1. UNCHANGED intent /\ tx[r].op \in {"adjust", "issue", "mint"}
    BY <1>34 DEF AdjustCommit, IssueCommit, MintCommit, transferVars
  <2>2. \E events : PostLegs(r, events)
    BY <1>34 DEF AdjustCommit, IssueCommit, MintCommit
  <2> QED BY <1>4, <2>1, <2>2
<1>40. ASSUME NEW r \in Reqs, TransferRequestStep(r) PROVE StepFair
  BY <1>30, <1>31, <1>32, <1>33, <1>34, <1>40 DEF TransferRequestStep
<1> QED BY <1>20, <1>21, <1>22, <1>23, <1>24, <1>25, <1>26, <1>40 DEF TransferStep

\* A sync that returns, or goes on to close the row.
LEMMA SyncReturnFair ==
    ASSUME Known, NEW r \in Reqs, SyncReturn(r), intent' = intent
    PROVE  FairRequests'
<1>1. tx \in [Reqs -> TxType]
  BY DEF Known, IndInv, Core, CoreTypes
<1> DEFINE t == IF tx[r].op = "cancelpay"
                THEN [IdleTx EXCEPT !.op = "cancelpay", !.ref = tx[r].ref, !.pc = "mark"]
                ELSE IdleTx
<1>2. tx' = [tx EXCEPT ![r] = t]
  BY DEF SyncReturn
<1>3. t.op \in {"none", "cancelpay"} /\ t.pc \in {"idle", "mark"}
  BY DEF IdleTx
<1> HIDE DEF t
<1>4. tx'[r] = t /\ \A s \in Reqs \ {r} : tx'[s] = tx[s]
  BY <1>1, <1>2
<1>5. FairRequest(r)'
  BY <1>3, <1>4 DEF FairRequest, Past
<1> QED BY <1>4, <1>5, OneMoves

\* The locals of one request change.
LEMMA MovedIsFair ==
    ASSUME Known, NEW r \in Reqs, NEW t, tx' = [tx EXCEPT ![r] = t], intent' = intent,
           t.op = tx[r].op,
           t.op \in {"sync", "cancelpay", "refund"},
           t.pc \in {"chain", "append"} => FairPosting(t.po),
           t.op = "refund" => /\ t.po.from \in Pids /\ t.po.to \in Pids
                              /\ t.po.fee = 0 /\ t.po.tax = 0 /\ t.po.appFee = 0
    PROVE  FairRequests'
<1>1. tx \in [Reqs -> TxType]
  BY DEF Known, IndInv, Core, CoreTypes
<1>2. tx'[r] = t /\ \A s \in Reqs \ {r} : tx'[s] = tx[s]
  BY <1>1
<1>3. FairRequest(r)'
  BY <1>2 DEF FairRequest, Past, FairPosting
<1> QED BY <1>2, <1>3, OneMoves

LEMMA PaymentStepFair ==
    ASSUME Known, PaymentStep, UNCHANGED transferVars
    PROVE  StepFair
<1>0. /\ intent' = intent /\ Core /\ FairRequests /\ RowsAgree
      /\ \A r \in Reqs : FairRequest(r) /\ Subject(r) /\ RefundKnows(r)
  BY DEF transferVars, Known, IndInv, Core, RequestOK, FairRequests, Settling, Knows
<1>1. pay \in [Payments -> PayType] /\ tx \in [Reqs -> TxType]
  BY DEF Known, IndInv, PaymentTypes, Core, CoreTypes
<1>2. ASSUME FairRequests', UNCHANGED <<journal, bal>>, \A p \in Payments : pay'[p].refunded = pay[p].refunded
      PROVE  StepFair
  BY <1>2 DEF StepFair, BooksAlone
<1>3. ASSUME NEW p, NEW st, pay' = [pay EXCEPT ![p].st = st]
      PROVE  \A q \in Payments : pay'[q].refunded = pay[q].refunded
  BY <1>1, <1>3 DEF PayType
<1>4. ASSUME NEW r \in Reqs, Abort(r), \A p \in Payments : pay'[p].refunded = pay[p].refunded PROVE StepFair
  BY <1>0, <1>2, <1>4, EndIsFair DEF Abort
<1>5. ASSUME NEW r \in Reqs, NEW p, NEW op \in {"create", "sync", "cancelpay"}, NEW pc \in {"insert", "corroborate", "mark"},
             Begin(r, op, p, NoPosting, {}, pc), UNCHANGED payVars
      PROVE  StepFair
  <2>1. FairRequests'
    BY <1>0, <1>5, BeginIsFair
  <2> QED BY <1>2, <1>5, <2>1 DEF Begin, payVars
<1>6. ASSUME NEW r \in Reqs, NEW pc \in {"invoice", "pend"}, Goto(r, pc), UNCHANGED <<journal, bal>>,
             \A p \in Payments : pay'[p].refunded = pay[p].refunded
      PROVE  StepFair
  BY <1>0, <1>2, <1>6, GotoIsFair

<1>20. ASSUME NEW r \in Reqs, NEW p \in Payments,
              PaymentCreate(r, p) \/ notify(r, p) \/ reconcile(r, p) \/ PaymentCancel(r, p)
       PROVE  StepFair
  BY <1>5, <1>20 DEF PaymentCreate, notify, reconcile, PaymentCancel
<1>21. ASSUME NEW r \in Reqs, NEW p \in Payments, NEW x \in RefundIds, NEW amount \in RefundAmounts,
              refund(r, p, x, amount)
       PROVE  StepFair
  <2> DEFINE q == PayQuote[p]
  <2> DEFINE po == Move(<<p, x>>, "adjust", q.to, q.payer, amount)
  <2> DEFINE need == {q.to, q.payer}
  <2>1. Begin(r, "refund", p, po, need, "pay") /\ q.payer # NoPid /\ UNCHANGED payVars
    BY <1>21 DEF refund
  <2>2. q.to \in Pids /\ q.payer \in Pids
    BY <2>1, PaymentAssumption
  <2>3. po.from \in Pids /\ po.to \in Pids /\ po.fee = 0 /\ po.tax = 0 /\ po.appFee = 0
    BY <2>2 DEF Move, NoPosting
  <2> HIDE DEF po, need
  <2>4. FairRequests'
    BY <1>0, <2>1, <2>3, BeginIsFair
  <2> QED BY <1>2, <2>1, <2>4 DEF Begin, payVars
<1>22. ASSUME NEW p \in Payments, Tick(p) \/ \E st \in {"paid", "mismatch", "failed", "expired"} : ProviderStep(p, st)
       PROVE  StepFair
  <2>1. UNCHANGED <<journal, bal, tx, pay>>
    BY <1>22 DEF Tick, ProviderStep, journalVars
  <2>2. FairRequests'
    BY <1>0, <2>1 DEF FairRequests, FairRequest, Past, FairPosting
  <2> QED BY <1>2, <2>1, <2>2

<1>30. ASSUME NEW r \in Reqs, PaymentInsert(r) PROVE StepFair
  <2> DEFINE p == tx[r].ref
  <2>1. CASE Abort(r) /\ UNCHANGED pay
    BY <1>4, <2>1
  <2>2. CASE ~(Abort(r) /\ UNCHANGED pay)
    <3>1. /\ pay[p].st = "none" /\ pay' = [pay EXCEPT ![p] = [st |-> "created", refunded |-> 0]]
          /\ Goto(r, "invoice") /\ UNCHANGED <<journal, bal>>
      BY <1>30, <2>2 DEF PaymentInsert, WonInsert
    <3>2. \A q \in Payments : pay'[q].refunded = pay[q].refunded
      BY <1>0, <1>1, <3>1 DEF RowsAgree
    <3> QED BY <1>6, <3>1, <3>2
  <2> QED BY <2>1, <2>2
<1>31. ASSUME NEW r \in Reqs, PaymentInvoice(r) PROVE StepFair
  <2>1. UNCHANGED pay
    BY <1>31 DEF PaymentInvoice
  <2>2. Abort(r) \/ (Goto(r, "pend") /\ UNCHANGED <<journal, bal>>)
    BY <1>31 DEF PaymentInvoice
  <2> QED BY <1>4, <1>6, <2>1, <2>2
<1>32. ASSUME NEW r \in Reqs, PaymentPending(r) \/ CancelMark(r) PROVE StepFair
  <2>1. Abort(r) /\ \E p, st : pay' = [pay EXCEPT ![p].st = st]
    BY <1>32 DEF PaymentPending, CancelMark
  <2> QED BY <1>3, <1>4, <2>1
<1>33. ASSUME NEW r \in Reqs, SyncCorroborate(r) PROVE StepFair
  <2> DEFINE st == SyncStatus(tx[r].ref)
  <2>1. UNCHANGED <<journal, bal, pay>> /\ tx[r].op \in {"sync", "cancelpay"}
    BY <1>33 DEF SyncCorroborate, payVars
  <2>2. End(r) \/ SyncReturn(r) \/ tx' = [tx EXCEPT ![r].pc = "pay", ![r].seen = st]
    BY <1>33 DEF SyncCorroborate
  <2> HIDE DEF st
  <2>3. CASE End(r)
    BY <1>0, <1>2, <2>1, <2>3, EndIsFair
  <2>4. CASE SyncReturn(r)
    BY <1>0, <1>2, <2>1, <2>4, SyncReturnFair
  <2>5. CASE tx' = [tx EXCEPT ![r].pc = "pay", ![r].seen = st]
    <3> DEFINE t == [tx[r] EXCEPT !.pc = "pay", !.seen = st]
    <3>1. tx' = [tx EXCEPT ![r] = t]
      BY <2>5
    <3>2. t.op = tx[r].op /\ t.pc = "pay"
      BY <1>1 DEF TxType
    <3> HIDE DEF t
    <3>3. FairRequests'
      BY <1>0, <2>1, <3>1, <3>2, MovedIsFair
    <3> QED BY <1>2, <2>1, <3>3
  <2> QED BY <2>2, <2>3, <2>4, <2>5
<1>34. ASSUME NEW r \in Reqs, SyncLock(r) PROVE StepFair
  <2> DEFINE p == tx[r].ref
  <2> DEFINE st == IF tx[r].seen = "mismatch" THEN "failed" ELSE tx[r].seen
  <2>1. UNCHANGED <<journal, bal>> /\ tx[r].op \in {"sync", "cancelpay"} /\ p \in Payments
    BY <1>0, <1>34 DEF SyncLock, Subject
  <2>2. \/ SyncReturn(r) /\ UNCHANGED pay
        \/ tx' = [tx EXCEPT ![r].pc = "chain", ![r].po = PaymentPosting(p)] /\ UNCHANGED pay
        \/ pay' = [pay EXCEPT ![p].st = st] /\ SyncReturn(r)
    BY <1>34 DEF SyncLock
  <2> HIDE DEF st
  <2>3. CASE SyncReturn(r)
    BY <1>0, <1>2, <1>3, <2>1, <2>2, <2>3, SyncReturnFair
  <2>4. CASE tx' = [tx EXCEPT ![r].pc = "chain", ![r].po = PaymentPosting(p)] /\ UNCHANGED pay
    <3> DEFINE po == PaymentPosting(p)
    <3>1. FairPosting(po)
      BY <2>1, FairPostings
    <3> HIDE DEF po
    <3> DEFINE t == [tx[r] EXCEPT !.pc = "chain", !.po = po]
    <3>2. tx' = [tx EXCEPT ![r] = t]
      BY <2>4 DEF po
    <3>3. t.op = tx[r].op /\ t.po = po
      BY <1>1 DEF TxType
    <3> HIDE DEF t
    <3>4. FairRequests'
      BY <1>0, <2>1, <3>1, <3>2, <3>3, MovedIsFair
    <3> QED BY <1>2, <2>1, <2>4, <3>4
  <2> QED BY <2>2, <2>3, <2>4
<1>35. ASSUME NEW r \in Reqs, SyncCommit(r) PROVE StepFair
  <2>1. \E events : PostLegs(r, events)
    BY <1>35 DEF SyncCommit
  <2>2. FairPosting(tx[r].po) /\ End(r)
    BY <2>1, CommitIsFair
  <2>3. FairRequests'
    BY <1>0, <2>2, EndIsFair
  <2>4. tx[r].op # "refund" /\ pay' = [pay EXCEPT ![tx[r].ref].st = "paid"]
    BY <1>35 DEF SyncCommit
  <2>5. \A p \in Payments : pay'[p].refunded = pay[p].refunded /\ pay[p].refunded \in Nat
    BY <1>1, <1>3, <2>4 DEF PayType
  <2>6. Posts(r)
    BY <2>1, <2>2, <2>4, <2>5 DEF Posts
  <2> QED BY <2>3, <2>6 DEF StepFair
<1>36. ASSUME NEW r \in Reqs, RefundLock(r) PROVE StepFair
  <2> DEFINE amount == IF tx[r].po.gross = 0 THEN Remaining(tx[r].ref) ELSE tx[r].po.gross
  <2>1. UNCHANGED <<journal, bal, pay>> /\ tx[r].op = "refund"
    BY <1>36 DEF RefundLock, payVars
  <2>2. \/ End(r)
        \/ tx' = [tx EXCEPT ![r].pc = "lock", ![r].po = [tx[r].po EXCEPT !.gross = amount, !.net = amount]]
    BY <1>36 DEF RefundLock
  <2> HIDE DEF amount
  <2>3. CASE End(r)
    BY <1>0, <1>2, <2>1, <2>3, EndIsFair
  <2>4. CASE tx' = [tx EXCEPT ![r].pc = "lock", ![r].po = [tx[r].po EXCEPT !.gross = amount, !.net = amount]]
    <3> DEFINE po == [tx[r].po EXCEPT !.gross = amount, !.net = amount]
    <3> DEFINE t == [tx[r] EXCEPT !.pc = "lock", !.po = po]
    <3>1. tx[r].po \in PostingType /\ tx[r] \in TxType
      BY <1>1 DEF TxType
    <3>2. /\ tx[r].po.from \in Pids /\ tx[r].po.to \in Pids
          /\ tx[r].po.fee = 0 /\ tx[r].po.tax = 0 /\ tx[r].po.appFee = 0
      BY <1>0, <2>1 DEF FairRequest
    <3>3. po.from \in Pids /\ po.to \in Pids /\ po.fee = 0 /\ po.tax = 0 /\ po.appFee = 0
      BY <3>1, <3>2 DEF PostingType
    <3>4. tx' = [tx EXCEPT ![r] = t]
      BY <2>4
    <3> HIDE DEF po
    <3>5. t.op = tx[r].op /\ t.po = po /\ t.pc = "lock"
      BY <3>1 DEF TxType
    <3> HIDE DEF t
    <3>6. FairRequests'
      BY <1>0, <2>1, <3>3, <3>4, <3>5, MovedIsFair
    <3> QED BY <1>2, <2>1, <3>6
  <2> QED BY <2>2, <2>3, <2>4
<1>37. ASSUME NEW r \in Reqs, RefundCheck(r) PROVE StepFair
  <2>1. UNCHANGED pay /\ tx[r].op = "refund" /\ tx[r].pc = "check"
    BY <1>37 DEF RefundCheck, payVars, At
  <2>2. Abort(r) \/ (Goto(r, "chain") /\ UNCHANGED <<journal, bal>>)
    BY <1>37 DEF RefundCheck
  <2>3. CASE Abort(r)
    BY <1>4, <2>1, <2>3
  <2>4. CASE Goto(r, "chain") /\ UNCHANGED <<journal, bal>>
    <3> DEFINE po == tx[r].po
    <3>1. po \in PostingType
      BY <1>1 DEF TxType
    <3>2. /\ po.from \in Pids /\ po.to \in Pids
          /\ po.fee = 0 /\ po.tax = 0 /\ po.appFee = 0
      BY <1>0, <2>1 DEF FairRequest
    <3>3. po.net = po.gross /\ po.gross > 0 /\ po.group \in Payments \X RefundIds
      BY <1>0, <2>1 DEF RefundKnows, Subject
    <3>4. po.group \notin Sources
      BY <3>3, SubjectsApart DEF Sources
    <3>5. FairPosting(po)
      BY <3>1, <3>2, <3>3, <3>4 DEF FairPosting, PostingType
    <3>6. FairRequests'
      BY <1>0, <2>4, <3>5, GotoIsFair
    <3> QED BY <1>2, <2>1, <2>4, <3>6
  <2> QED BY <2>2, <2>3, <2>4
<1>38. ASSUME NEW r \in Reqs, RefundCommit(r) PROVE StepFair
  <2>1. \E events : PostLegs(r, events)
    BY <1>38 DEF RefundCommit
  <2>2. FairPosting(tx[r].po) /\ End(r)
    BY <2>1, CommitIsFair
  <2>3. FairRequests'
    BY <1>0, <2>2, EndIsFair
  <2>4. tx[r].op = "refund" /\ pay' = [pay EXCEPT ![tx[r].ref].refunded = @ + tx[r].po.gross]
    BY <1>38 DEF RefundCommit
  <2>5. \A p \in Payments : pay'[p].refunded
          = pay[p].refunded + (IF tx[r].op = "refund" /\ p = tx[r].ref THEN tx[r].po.gross ELSE 0)
    BY <1>1, <2>4 DEF PayType
  <2>6. Posts(r)
    BY <2>1, <2>2, <2>5 DEF Posts
  <2> QED BY <2>3, <2>6 DEF StepFair
<1>40. ASSUME NEW r \in Reqs, PaymentRequestStep(r) PROVE StepFair
  BY <1>30, <1>31, <1>32, <1>33, <1>34, <1>35, <1>36, <1>37, <1>38, <1>40 DEF PaymentRequestStep
<1> QED BY <1>20, <1>21, <1>22, <1>40 DEF PaymentStep

LEMMA NextFair ==
    ASSUME Known, [Next]_vars
    PROVE  StepFair
<1>1. CASE UNCHANGED vars
  <2>1. UNCHANGED <<journal, bal, tx, intent, pay>>
    BY <1>1 DEF vars, journalVars, transferVars, payVars
  <2>2. FairRequests'
    BY <2>1 DEF Known, FairRequests, FairRequest, Past, FairPosting
  <2> QED BY <2>1, <2>2, StillFair
<1> QED BY <1>1, TransferStepFair, PaymentStepFair, JournalStepFair DEF Next, Quiet

---------------------------------------------------------------------------
\* The books stay accounted for

\* Only a refund posts a refund row, and of its own payment.
LEMMA RefundGroup ==
    ASSUME Known, NEW r \in Reqs, tx[r].pc = "append", NEW p \in Payments
    PROVE  tx[r].op = "refund" /\ p = tx[r].ref
             <=> tx[r].po.from # NoPid /\ \E x \in RefundIds : tx[r].po.group = <<p, x>>
<1>1. Subject(r) /\ FairRequest(r) /\ RefundKnows(r) /\ SyncKnows(r) /\ tx[r].op \in Ops
  BY DEF Known, IndInv, Core, CoreTypes, RequestOK, FairRequests, Settling, Knows, TxType
<1>2. CASE tx[r].op = "refund"
  <2>1. tx[r].po.from # NoPid
    BY <1>1, <1>2, JournalAssumption DEF FairRequest, NoPid
  <2>2. \E x \in RefundIds : tx[r].po.group = <<tx[r].ref, x>>
    BY <1>1, <1>2 DEF RefundKnows
  <2> QED BY <1>2, <2>1, <2>2
<1>3. CASE tx[r].op # "refund"
  <2>1. tx[r].op \in {"confirm", "adjust", "issue", "mint", "sync", "cancelpay"}
    BY <1>1, <1>3 DEF Subject, Ops
  <2>2. CASE tx[r].op \in {"confirm", "adjust", "issue", "mint"}
    <3>1. tx[r].po.group \in Intents \cup Adjusts \cup Deposits \cup Credits
      BY <1>1, <2>2 DEF Subject
    <3>2. ~ \E x \in RefundIds : tx[r].po.group = <<p, x>>
      BY <3>1, SubjectsApart
    <3> QED BY <1>3, <3>2
  <2>3. CASE tx[r].op \in {"sync", "cancelpay"}
    <3>1. tx[r].po.group \in Payments
      BY <1>1, <2>3 DEF Subject, SyncKnows, Past
    <3>2. ~ \E x \in RefundIds : tx[r].po.group = <<p, x>>
      BY <3>1, SubjectsApart
    <3> QED BY <1>3, <3>2
  <2> QED BY <2>1, <2>2, <2>3
<1> QED BY <1>2, <1>3

\* What a payment has refunded is what its refund rows carry.
RefundsAddUp == \A p \in Payments : pay[p].refunded = Carried(journal, RefundsOf(p))

LEMMA RefundsAddedUp ==
    ASSUME journal \in SUBSET RowType
    PROVE  RefundsBounded <=> RefundsAddUp /\ \A p \in Payments : pay[p].refunded <= PayQuote[p].amount
BY SumsAre DEF RefundsBounded, RefundsAddUp

LEMMA RefundsAddedUpNext ==
    ASSUME journal' \in SUBSET RowType
    PROVE  RefundsBounded' <=> RefundsAddUp' /\ \A p \in Payments : pay'[p].refunded <= PayQuote[p].amount
BY SumsAreNext DEF RefundsBounded, RefundsAddUp

LEMMA PostRefunds ==
    ASSUME Known, RowsFair, RefundsAddUp, NEW r \in Reqs, Posts(r)
    PROVE  RefundsAddUp'
<1>1. Core /\ tx[r].pc = "append" /\ \E events : PostLegs(r, events)
  BY DEF Known, IndInv, Posts, PostLegs, At
<1> DEFINE po == tx[r].po
<1>2. /\ po \in PostingType /\ po.group \in Groups
      /\ \A sel : Carried(journal, sel) \in Int /\ Carried(journal', sel) = Carried(journal, sel) + LegSum(po, sel)
  BY <1>1, PostSums DEF RowsFair
<1>3. SUFFICES ASSUME NEW p \in Payments PROVE pay'[p].refunded = Carried(journal', RefundsOf(p))
  BY DEF RefundsAddUp
<1>4. LegSum(po, RefundsOf(p)) = IF po.from # NoPid /\ \E x \in RefundIds : po.group = <<p, x>> THEN po.gross ELSE 0
  BY <1>2, LegShares
<1>5. pay'[p].refunded = pay[p].refunded + (IF tx[r].op = "refund" /\ p = tx[r].ref THEN po.gross ELSE 0)
  BY DEF Posts
<1>6. tx[r].op = "refund" /\ p = tx[r].ref <=> po.from # NoPid /\ \E x \in RefundIds : po.group = <<p, x>>
  BY <1>1, RefundGroup
<1>7. pay'[p].refunded = pay[p].refunded + LegSum(po, RefundsOf(p))
  BY <1>4, <1>5, <1>6
<1>8. pay[p].refunded = Carried(journal, RefundsOf(p))
  BY DEF RefundsAddUp
<1> QED BY <1>2, <1>7, <1>8

\* The books of a step that leaves them alone.
LEMMA BooksStay ==
    ASSUME Core, RowsFair, BooksBalance, RefundsAddUp, BooksAlone
    PROVE  RowsFair' /\ BooksBalance' /\ RefundsAddUp'
<1>1. journal \in SUBSET RowType /\ journal' \in SUBSET RowType /\ journal' = journal /\ bal' = bal
  BY DEF Core, CoreTypes, BooksAlone
<1>2. RowsFair'
  BY <1>1 DEF RowsFair, Keys, ExpectedDir
<1>3. \A p \in Pids : bal'[p] = SumPosted(p)'
  BY <1>1, SumsAre, SumsAreNext DEF BooksBalance
<1>4. BadGroups' = {}
  <2>1. \A g : GroupOut(g)' = GroupOut(g) /\ GroupIn(g)' = GroupIn(g)
    BY <1>1, SumsAre, SumsAreNext
  <2>2. GroupsPosted' = GroupsPosted
    BY <1>1 DEF GroupsPosted
  <2> QED BY <2>1, <2>2 DEF BadGroups, BooksBalance
<1>5. Conservation'
  <2>1. Bucket("fiat_fee")' = Bucket("fiat_fee") /\ Bucket("fiat_tax")' = Bucket("fiat_tax")
    BY <1>1, SumsAre, SumsAreNext
  <2> QED BY <1>1, <2>1, SumsAre, SumsAreNext DEF BooksBalance
<1>6. RefundsAddUp'
  BY <1>1 DEF RefundsAddUp, BooksAlone
<1> QED BY <1>2, <1>3, <1>4, <1>5, <1>6 DEF BooksBalance

LEMMA AccountedKept ==
    ASSUME IndInv, Settling, Accounted, [Next]_vars, IndInv', Settling'
    PROVE  Accounted'
<1>1. Known /\ Core /\ RowsFair /\ BooksBalance
  BY DEF Known, IndInv, Accounted
<1>2. journal \in SUBSET RowType /\ journal' \in SUBSET RowType
  BY DEF IndInv, Core, CoreTypes
<1>3. RefundsAddUp
  BY <1>2, RefundsAddedUp DEF Accounted
<1>4. StepFair
  BY <1>1, NextFair
<1>5. RowsFair' /\ BooksBalance' /\ RefundsAddUp'
  <2>1. CASE BooksAlone
    BY <1>1, <1>3, <2>1, BooksStay
  <2>2. ASSUME NEW r \in Reqs, Posts(r) PROVE RowsFair' /\ BooksBalance' /\ RefundsAddUp'
    <3>1. FairPosting(tx[r].po) /\ \E events : PostLegs(r, events)
      BY <2>2 DEF Posts
    <3> QED BY <1>1, <1>3, <2>2, <3>1, PostRowsFair, PostBooks, PostRefunds
  <2> QED BY <1>4, <2>1, <2>2 DEF StepFair
<1>6. \A p \in Payments : pay'[p].refunded <= PayQuote[p].amount
  BY DEF Settling, RowsAgree
<1>7. RefundsBounded'
  BY <1>2, <1>5, <1>6, RefundsAddedUpNext
<1>8. FairRequests'
  BY <1>4 DEF StepFair
<1> QED BY <1>5, <1>7, <1>8 DEF Accounted

\* Nothing is nothing.
LEMMA TotalOfNone ==
    ASSUME NEW S, IsFiniteSet(S), NEW b, \A p \in S : b[p] = 0
    PROVE  TotalOf(b, S) = 0
<1>1. PICK g : Adds(g, b, Chooser(S), S) /\ TotalOf(b, S) = g[S]
  BY TotalAdds
<1> DEFINE c == Chooser(S)
<1> DEFINE h == [t \in SUBSET S |-> 0]
<1>2. \A t \in SUBSET S : t # {} => c[t] \in t
  BY DEF Chooser
<1> HIDE DEF c
<1>3. \A t \in SUBSET S : (IF t = {} THEN 0 ELSE b[c[t]] + h[t \ {c[t]}]) = 0
  BY <1>2
<1>4. h = [t \in SUBSET S |-> IF t = {} THEN 0 ELSE b[c[t]] + h[t \ {c[t]}]]
  BY <1>3
<1>5. Adds(h, b, c, S)
  BY <1>4 DEF Adds
<1>6. h[S] = 0
  OBVIOUS
<1> HIDE DEF h
<1>7. Adds(g, b, c, S)
  BY <1>1 DEF c
<1>8. \A t \in SUBSET S : t \in SUBSET S => g[t] = h[t]
  BY <1>2, <1>5, <1>7, AddsAgree
<1> QED BY <1>1, <1>6, <1>8

LEMMA InitAccounted == Init => Accounted
<1> SUFFICES ASSUME Init PROVE Accounted
  OBVIOUS
<1>1. journal = {} /\ bal = [p \in Pids |-> 0] /\ tx = [r \in Reqs |-> IdleTx]
      /\ intent = [i \in Intents |-> [st |-> "none", po |-> NoPosting]]
      /\ pay = [p \in Payments |-> [st |-> "none", refunded |-> 0]]
  BY DEF Init, JournalInit, TransferInit, PaymentInit
<1>2. RowsFair
  BY <1>1, FS_EmptySet DEF RowsFair
<1>3. FairRequests
  <2>1. IdleTx.op = "none" /\ IdleTx.pc = "idle"
    BY DEF IdleTx
  <2> QED BY <1>1, <2>1 DEF FairRequests, FairRequest, Past
<1>4. journal \in SUBSET RowType
  BY <1>1
<1>5. \A sel : Carried(journal, sel) = 0
  <2>1. \A sel : Selected(journal, sel) = {}
    BY <1>1 DEF Selected
  <2> QED BY <2>1, FS_EmptySet, SumAdd DEF Carried
<1>6. \A p \in Pids : bal[p] = SumPosted(p)
  BY <1>1, <1>4, <1>5, SumsAre
<1>7. BadGroups = {}
  BY <1>1 DEF BadGroups, GroupsPosted
<1>8. TotalOf(bal, Pids) = 0
  BY <1>1, PidsAssumption, TotalOfNone
<1>9. Conservation
  <2>1. Bucket("fiat_fee") = 0 /\ Bucket("fiat_tax") = 0
    BY <1>4, <1>5, SumsAre
  <2> QED BY <1>4, <1>5, <1>8, <2>1, SumsAre
<1>10. RefundsBounded
  <2>1. \A p \in Payments : PayQuote[p].amount \in Nat /\ pay[p].refunded = 0
    BY <1>1, PaymentAssumption
  <2> QED BY <1>4, <1>5, <2>1, RefundsAddedUp DEF RefundsAddUp
<1> QED BY <1>2, <1>3, <1>6, <1>7, <1>9, <1>10 DEF Accounted, BooksBalance

---------------------------------------------------------------------------
\* Theorems

\* The books, the requests and the refunds of a payment stay accounted for:
\* the inductive invariant of the sums, on top of IndInv and Settling.
THEOREM AccountedInvariance == Spec => []Accounted
<1>1. Init => Accounted
  BY InitAccounted
<1>2. IndInv /\ Settling /\ Accounted /\ [Next]_vars /\ IndInv' /\ Settling' => Accounted'
  BY AccountedKept
<1> QED BY <1>1, <1>2, Invariance, SettlingInvariance, PTL DEF Spec

\* sumPosted and replayFiatLedger count the same rows.
LEMMA ReplayCountsTheSame ==
    ASSUME RowsFair
    PROVE  \A p : SumPosted(p) = ReplayBalance(p)
<1>1. ASSUME NEW row \in journal PROVE (CreditsRow(row) <=> ReplayIn(row)) /\ (DebitsRow(row) <=> ReplayOut(row))
  <2>1. row.dir \in ExpectedDir(row)
    BY DEF RowsFair
  <2> QED BY <2>1 DEF ExpectedDir, CreditsRow, ReplayIn, DebitsRow, ReplayOut, CreditKinds
<1>2. ASSUME NEW p
      PROVE  /\ {row \in journal : row.pid = p /\ CreditsRow(row)} = {row \in journal : row.pid = p /\ ReplayIn(row)}
             /\ {row \in journal : row.pid = p /\ DebitsRow(row)} = {row \in journal : row.pid = p /\ ReplayOut(row)}
  BY <1>1
<1> QED BY <1>2 DEF SumPosted, ReplayBalance

\* The balance postedBalanceTx guards with is, in every state of the rail and
\* for every journal, the one replayFiatLedger shows the wallet.
THEOREM BalancesMatchReplay == Spec => []GuardMatchesReplay
<1>1. Accounted => GuardMatchesReplay
  BY ReplayCountsTheSame DEF Accounted, BooksBalance, GuardMatchesReplay
<1> QED BY <1>1, AccountedInvariance, PTL

\* replayFiatLedger never reports a row, a group or an owner of any journal
\* the rail can write.
THEOREM AuditStaysClean == Spec => []ReplayClean
<1>1. IndInv /\ Accounted => ReplayClean
  <2> SUFFICES ASSUME IndInv, Accounted PROVE ReplayClean
    OBVIOUS
  <2>1. BadRows = {}
    <3>1. ASSUME NEW row \in journal PROVE ~(row.amount <= 0)
      <4>1. row.amount > 0
        BY DEF Accounted, RowsFair
      <4>2. journal \in SUBSET RowType
        BY DEF IndInv, Core, CoreTypes
      <4>3. row.amount \in Nat
        BY <4>2 DEF RowType
      <4> QED BY <4>1, <4>3
    <3> QED BY <3>1 DEF BadRows, Accounted, RowsFair
  <2>2. BadGroups = {}
    BY DEF Accounted, BooksBalance
  <2>3. ASSUME NEW p \in Pids PROVE ~(ReplayBalance(p) < 0)
    <3>1. ReplayBalance(p) = bal[p]
      BY ReplayCountsTheSame DEF Accounted, BooksBalance
    <3>2. bal[p] \in Int /\ bal[p] >= 0
      BY DEF IndInv, Core, CoreTypes, NoOverdraft
    <3> QED BY <3>1, <3>2
  <2> QED BY <2>1, <2>2, <2>3 DEF ReplayClean, Negative
<1> QED BY <1>1, Invariance, AccountedInvariance, PTL

\* The guard of every debit, the balance the wallet shows and the audit never
\* disagree, for any identities, apps, fees and requests at a time.
THEOREM ReplayAlwaysAgrees == Spec => []ReplayAgrees
BY BalancesMatchReplay, AuditStaysClean, PTL DEF ReplayAgrees

\* Deposits, payments and the faucet bring money in; whatever transfers,
\* corrections and refunds do, balances, fees and taxes add up to it.
THEOREM MoneyIsConserved == Spec => []Conservation
<1>1. Accounted => Conservation
  BY DEF Accounted, BooksBalance
<1> QED BY <1>1, AccountedInvariance, PTL

\* However many refunds of a payment run at once, are repeated or fail, the
\* posted ones add up to refundedIdr and never exceed the amount.
THEOREM RefundsStayBounded == Spec => []RefundsBounded
<1>1. Accounted => RefundsBounded
  BY DEF Accounted
<1> QED BY <1>1, AccountedInvariance, PTL

\* Refunds within their payment, and faucet credit within the day's: no number
\* of requests at a time exceeds what they share.
THEOREM LimitsAlwaysKept == Spec => []LimitsKept
<1>1. RefundsBounded /\ FaucetCapped => LimitsKept
  BY DEF LimitsKept
<1> QED BY <1>1, RefundsStayBounded, FaucetStaysCapped, PTL

---------------------------------------------------------------------------
\* The rail implements the atomic ledger

\* The sum of the abstract ledger is the one of this module.
LEMMA AbstractTotal == \A b : Abstract!Total(b) = TotalOf(b, Pids)
BY DEF Abstract!Total, TotalOf, MapThenSumSet, MapThenFoldSet, Abstract!MapThenSumSet, Abstract!MapThenFoldSet

\* A commit is one booking.
LEMMA CommitIsBooking ==
    ASSUME IndInv, IndInv', RowsFair, NEW r \in Reqs, Posts(r)
    PROVE  Abstract!LedgerNext
<1> DEFINE po == tx[r].po
<1>1. Core /\ bal \in [Pids -> Int] /\ NoOverdraft' /\ \E events : PostLegs(r, events)
  BY DEF IndInv, Core, CoreTypes, Posts
<1>2. /\ po \in PostingType
      /\ <<po.group, "IN">> \notin Keys
      /\ bal' = [p \in Pids |-> bal[p] + Delta(po, p)]
      /\ \A g : Posted(g)' <=> Posted(g) \/ g = po.group
  BY <1>1, PostSums, PostedBy DEF RowsFair
<1>3. FairPosting(po) /\ NoPid \notin Pids
  BY JournalAssumption DEF Posts, NoPid
<1> HIDE DEF po
<1>4. po.group \notin GroupsPosted
  BY <1>2 DEF RowsFair, GroupsPosted
<1>5. GroupsPosted' = GroupsPosted \cup {po.group}
  <2>1. \A g : g \in GroupsPosted' <=> Posted(g)'
    BY DEF GroupsPosted, Posted
  <2>2. \A g : g \in GroupsPosted <=> Posted(g)
    BY DEF GroupsPosted, Posted
  <2> QED BY <1>2, <2>1, <2>2
<1>6. po.gross \in Nat /\ po.net \in Nat /\ po.fee \in Nat /\ po.tax \in Nat /\ po.appFee \in Nat
  BY <1>2 DEF PostingType
<1>7. \A p \in Pids : p # po.from => bal'[p] >= bal[p]
  BY <1>1, <1>2, <1>6 DEF Delta
<1>8. CASE po.group \in Sources
  <2>1. \A p \in Pids : bal'[p] >= bal[p]
    BY <1>3, <1>7, <1>8 DEF FairPosting
  <2>2. Abstract!BringIn(po.group)
    BY <1>8, <2>1 DEF Abstract!BringIn
  <2> QED BY <1>4, <1>5, <2>2 DEF Abstract!LedgerNext
<1>9. CASE po.group \notin Sources
  <2>1. po.from \in Pids /\ po.gross = po.net + po.fee + po.tax + po.appFee
    BY <1>3, <1>9 DEF FairPosting
  <2>2. bal'[po.from] >= 0
    BY <1>1, <2>1 DEF NoOverdraft
  <2>3. PICK t \in Int : TotalOf(bal, Pids) = t
    BY <1>1, PidsAssumption, TotalIsInt
  <2>4. TotalOf(bal', Pids) = t + po.net + po.appFee - po.gross
    <3>1. po.to \in Pids /\ (po.appFee > 0 => po.owner \in Pids)
      BY <1>3 DEF FairPosting
    <3> QED BY <1>1, <1>2, <2>1, <2>3, <3>1, TotalOfDelta
  <2>5. TotalOf(bal', Pids) <= TotalOf(bal, Pids)
    BY <1>6, <2>1, <2>3, <2>4
  <2>6. Abstract!Total(bal') <= Abstract!Total(bal)
    BY <2>5, AbstractTotal
  <2>7. Abstract!MoveOn(po.group)
    BY <1>7, <1>9, <2>1, <2>2, <2>6 DEF Abstract!MoveOn
  <2> QED BY <1>4, <1>5, <2>7 DEF Abstract!LedgerNext
<1> QED BY <1>8, <1>9

\* Every step of the rail, with its locks, races, faults, retries and
\* rollbacks, is one booking of the atomic ledger or none: a booking is never
\* seen by half, never made twice, and never by a payer who cannot afford it.
THEOREM RailImplementsLedger == Spec => RailIsAtomic
<1>1. Init => Abstract!LedgerInit
  BY DEF Init, JournalInit, Abstract!LedgerInit, GroupsPosted
<1>2. IndInv /\ Settling /\ Accounted /\ IndInv' /\ [Next]_vars => [Abstract!LedgerNext]_(Abstract!ledgerVars)
  <2> SUFFICES ASSUME IndInv, Settling, Accounted, IndInv', [Next]_vars
               PROVE  Abstract!LedgerNext \/ UNCHANGED Abstract!ledgerVars
    OBVIOUS
  <2>1. Known /\ RowsFair
    BY DEF Known, Accounted
  <2>2. StepFair
    BY <2>1, NextFair
  <2>3. CASE BooksAlone
    <3>1. UNCHANGED <<bal, GroupsPosted>>
      BY <2>3 DEF BooksAlone, GroupsPosted
    <3> QED BY <3>1 DEF Abstract!ledgerVars
  <2>4. ASSUME NEW r \in Reqs, Posts(r) PROVE Abstract!LedgerNext
    BY <2>1, <2>4, CommitIsBooking
  <2> QED BY <2>2, <2>3, <2>4 DEF StepFair
<1> QED BY <1>1, <1>2, Invariance, SettlingInvariance, AccountedInvariance, PTL DEF Spec, RailIsAtomic, Abstract!LedgerSpec

=============================================================================
