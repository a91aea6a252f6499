--------------------------- MODULE Services_proofs ---------------------------
(***************************************************************************)
(* Proofs about the services that move points and fees (deposits and their *)
(* claw-backs, transfers, redemptions, sponsored fees, experience) and of  *)
(* what administrators run (settings, handles), for any number of rows,    *)
(* requests, processes and outages.                                        *)
(***************************************************************************)
EXTENDS MCServices, Sums_proofs, SequenceTheorems

---------------------------------------------------------------------------
\* Deposits: the inductive invariant

Invoices == {"none", "open", "paid", "misspaid", "expired", "reversed"}
LegStates == {"none", "created", "processing", "settled", "failed"}
TopupStates == {"none", "processing", "settled", "failed"}
DepositRows == [status: {"none", "created", "processing", "success", "cancelled", "failed"},
                payment: {"none", "success", "expired", "failed"},
                ledger: {"none", "pending", "failed", "partial", "issued", "blocked", "clawed_back"}]
ClawbackRows == [signal: {"none", "expired", "reversed"}, status: {"created", "processing", "settled", "failed"},
                 ledger: {"review", "pending", "issued", "processing"}, amount: Nat]
DeskPcs == {"idle", "invoice", "cancel", "apply", "legacy", "issue?", "verify", "leg", "topup", "adopt", "issue",
            "propose", "candidate", "claim?", "directRow", "claim", "debit"}
DeskStates == [pc: DeskPcs, d: Deposits \cup {NoDeposit}, via: {"none", "sync", "webhook", "reconcile"},
               saw: Invoices \cup LegStates,
               ledger: {"none", "pending", "failed", "partial", "issued", "blocked", "clawed_back"},
               leg: Legs, n: Nat]

DepositTyped ==
    /\ invoice \in [Deposits -> Invoices]
    /\ deposit \in [Deposits -> DepositRows]
    /\ leg \in [Deposits -> [Legs -> LegStates]]
    /\ topup \in [Deposits -> [Legs -> TopupStates]]
    /\ clawback \in [Deposits -> Seq(ClawbackRows)]
    /\ desk \in [Desks -> DeskStates]

\* An order that was paid, to the rupiah, and perhaps reversed since.
Paid(d) == invoice[d] \in {"paid", "reversed"}

\* An operator clawed back by hand.
ByHand(d) == \E i \in DOMAIN clawback[d] : ~Candidate(clawback[d][i])

\* What a request has found out still holds when it acts on it.
DeskKnows(r) ==
    /\ r.pc # "idle" => r.d \in Deposits /\ deposit[r.d].status # "none"
    /\ r.pc = "invoice" => invoice[r.d] = "none"
    /\ r.pc = "apply" /\ Reversed(r.saw) => invoice[r.d] = r.saw
    /\ r.pc \in {"leg", "topup", "adopt", "issue"} =>
          Paid(r.d) /\ (r.leg = "FEE" => topup[r.d]["PTS"] = "settled")
    /\ r.pc = "adopt" => r.saw \in LegStates /\ (r.saw = "settled" => topup[r.d][r.leg] = "settled")
    /\ r.pc \in {"propose", "candidate"} => invoice[r.d] = r.saw /\ Reversed(r.saw)
    /\ r.pc = "candidate" => r.n = 1 \/ ByHand(r.d)
    /\ r.pc \in {"candidate", "directRow"} => r.n <= Len(clawback[r.d]) + 1
    /\ r.pc \in {"claim?", "claim", "debit"} => r.n \in 1..Len(clawback[r.d])

\* What the database says of a deposit is so at DOKU.
DepositKnown ==
    /\ \A d \in Deposits : deposit[d].status = "none" =>
          invoice[d] = "none" /\ clawback[d] = <<>> /\ deposit[d] = NoDepositRow
    /\ \A d \in Deposits, l \in Legs : leg[d][l] = "settled" => topup[d][l] = "settled"
    /\ \A d \in Deposits : \A i \in DOMAIN clawback[d] :
          Candidate(clawback[d][i]) => clawback[d][i].signal = invoice[d] /\ Reversed(invoice[d])

\* An invoice is created by one request.
OneCreator == \A v, w \in Desks : desk[v].pc = "invoice" /\ desk[w].pc = "invoice" /\ desk[v].d = desk[w].d => v = w

DepositInv ==
    /\ DepositTyped /\ DepositKnown /\ OneCreator
    /\ \A w \in Desks : DeskKnows(desk[w])
    /\ PointsBacked /\ OneCandidate

\* What a step may do to what requests have found out.
Onwards ==
    /\ \A d \in Deposits :
          /\ Paid(d) => Paid(d)'
          /\ Reversed(invoice[d]) => invoice'[d] = invoice[d]
          /\ topup[d]["PTS"] = "settled" => topup'[d]["PTS"] = "settled"
          /\ topup[d]["FEE"] = "settled" => topup'[d]["FEE"] = "settled"
          /\ deposit[d].status # "none" => deposit'[d].status # "none"
          /\ Len(clawback'[d]) \in Nat /\ Len(clawback'[d]) >= Len(clawback[d])
          /\ ByHand(d) => ByHand(d)'

LEMMA DeskKept ==
    ASSUME DepositTyped, Onwards, NEW r \in DeskStates, DeskKnows(r), r.pc = "invoice" => invoice'[r.d] = "none"
    PROVE  DeskKnows(r)'
<1>1. r.n \in Nat /\ r.leg \in Legs
  BY DEF DeskStates
<1>2. CASE r.pc = "idle"
  BY <1>2 DEF DeskKnows
<1>3. CASE r.pc # "idle"
  <2>1. r.d \in Deposits /\ Len(clawback[r.d]) \in Nat
    BY <1>3 DEF DeskKnows, DepositTyped
  <2>2. /\ r.pc = "candidate" => r.n = 1 \/ ByHand(r.d)'
        /\ r.pc \in {"candidate", "directRow"} => r.n <= Len(clawback'[r.d]) + 1
        /\ r.pc \in {"claim?", "claim", "debit"} => r.n \in 1..Len(clawback'[r.d])
    <3>1. Len(clawback'[r.d]) \in Nat /\ Len(clawback'[r.d]) >= Len(clawback[r.d])
      BY <2>1 DEF Onwards
    <3>2. /\ r.pc = "candidate" => r.n = 1 \/ ByHand(r.d)
          /\ r.pc \in {"candidate", "directRow"} => r.n <= Len(clawback[r.d]) + 1
          /\ r.pc \in {"claim?", "claim", "debit"} => r.n \in 1..Len(clawback[r.d])
      BY <1>3 DEF DeskKnows
    <3>3. ByHand(r.d) => ByHand(r.d)'
      BY <2>1 DEF Onwards
    <3>4. r.pc \in {"candidate", "directRow"} => r.n <= Len(clawback'[r.d]) + 1
      BY <1>1, <2>1, <3>1, <3>2
    <3>5. r.pc \in {"claim?", "claim", "debit"} => r.n \in 1..Len(clawback'[r.d])
      BY <1>1, <2>1, <3>1, <3>2
    <3> QED BY <3>2, <3>3, <3>4, <3>5
  <2>3. r.pc = "adopt" /\ r.saw = "settled" => topup'[r.d][r.leg] = "settled"
    BY <1>1, <2>1 DEF DeskKnows, Onwards, Legs
  <2>4. r.pc \in {"leg", "topup", "adopt", "issue"} =>
          Paid(r.d)' /\ (r.leg = "FEE" => topup'[r.d]["PTS"] = "settled")
    BY <2>1 DEF DeskKnows, Onwards
  <2>5. r.pc \in {"apply", "propose", "candidate"} /\ Reversed(r.saw) => invoice'[r.d] = r.saw
    BY <2>1 DEF DeskKnows, Onwards
  <2>6. (r.pc = "invoice" => invoice'[r.d] = "none") /\ deposit'[r.d].status # "none"
    BY <1>3, <2>1 DEF DeskKnows, Onwards
  <2> QED BY <1>3, <2>1, <2>2, <2>3, <2>4, <2>5, <2>6 DEF DeskKnows, Reversed
<1> QED BY <1>2, <1>3

\* A request that takes a step, and keeps what it knows.
LEMMA ServeKeeps ==
    ASSUME DepositInv, Onwards, NEW w \in Desks, NEW r \in DeskStates, desk' = [desk EXCEPT ![w] = r],
           DeskKnows(r)', r.pc = "invoice" => \A v \in Desks \ {w} : desk[v].pc = "invoice" => desk[v].d # r.d,
           \A v \in Desks \ {w} : desk[v].pc = "invoice" => invoice'[desk[v].d] = "none",
           DepositTyped', DepositKnown', PointsBacked', OneCandidate'
    PROVE  DepositInv'
<1>1. desk \in [Desks -> DeskStates] /\ DepositTyped
  BY DEF DepositInv, DepositTyped
<1>2. desk'[w] = r /\ \A v \in Desks \ {w} : desk'[v] = desk[v]
  BY <1>1
<1>3. ASSUME NEW v \in Desks PROVE DeskKnows(desk[v])'
  <2>1. CASE v = w
    <3>1. desk'[v] = r
      BY <1>2, <2>1
    <3> QED BY <3>1 DEF DeskKnows, Paid, ByHand
  <2>2. CASE v # w
    <3>1. PICK s \in DeskStates : s = desk[v]
      BY <1>1
    <3>2. DeskKnows(s) /\ (s.pc = "invoice" => invoice'[s.d] = "none")
      BY <2>2, <3>1 DEF DepositInv
    <3>3. DeskKnows(s)'
      BY <1>1, <3>2, DeskKept
    <3>4. desk'[v] = s
      BY <1>2, <2>2, <3>1
    <3> QED BY <3>3, <3>4 DEF DeskKnows, Paid, ByHand
  <2> QED BY <2>1, <2>2
<1>4. OneCreator'
  BY <1>2 DEF OneCreator, DepositInv
<1> QED BY <1>3, <1>4 DEF DepositInv

\* A step of DOKU or of the customer.
LEMMA NoneServes ==
    ASSUME DepositInv, Onwards, UNCHANGED desk,
           \A v \in Desks : desk[v].pc = "invoice" => invoice'[desk[v].d] = "none",
           DepositTyped', DepositKnown', PointsBacked', OneCandidate'
    PROVE  DepositInv'
<1>1. desk \in [Desks -> DeskStates] /\ DepositTyped
  BY DEF DepositInv, DepositTyped
<1>2. ASSUME NEW v \in Desks PROVE DeskKnows(desk[v])'
  <2>1. PICK s \in DeskStates : s = desk[v]
    BY <1>1
  <2>2. DeskKnows(s) /\ (s.pc = "invoice" => invoice'[s.d] = "none")
    BY <2>1 DEF DepositInv
  <2>3. DeskKnows(s)'
    BY <1>1, <2>2, DeskKept
  <2>4. desk'[v] = s
    BY <2>1
  <2> QED BY <2>3, <2>4 DEF DeskKnows, Paid, ByHand
<1>3. OneCreator'
  BY DEF OneCreator, DepositInv
<1> QED BY <1>2, <1>3 DEF DepositInv

\* No request that is creating an invoice has one yet.
LEMMA NotYetInvoiced == DepositInv => \A v \in Desks : desk[v].pc = "invoice" => invoice[desk[v].d] = "none"
BY DEF DepositInv, DeskKnows

LEMMA NothingMoved ==
    ASSUME DepositTyped, UNCHANGED <<invoice, topup, clawback>>,
           \A d \in Deposits : deposit[d].status # "none" => deposit'[d].status # "none"
    PROVE  Onwards
BY DEF Onwards, Paid, ByHand, DepositTyped

\* A request that only reads.
LEMMA DeskOnly ==
    ASSUME DepositInv, NEW w \in Desks, NEW r \in DeskStates, desk' = [desk EXCEPT ![w] = r],
           DeskKnows(r), r.pc # "invoice", UNCHANGED rail
    PROVE  DepositInv'
<1>1. UNCHANGED <<invoice, deposit, leg, topup, clawback>> /\ DepositTyped
  BY DEF rail, DepositInv
<1>2. Onwards
  BY <1>1, NothingMoved
<1>3. DeskKnows(r)'
  BY <1>1, <1>2, DeskKept
<1>4. DepositTyped'
  BY <1>1 DEF DepositTyped
<1>5. DepositKnown' /\ PointsBacked' /\ OneCandidate'
  BY <1>1 DEF DepositInv, DepositKnown, PointsBacked, OneCandidate
<1> QED BY <1>1, <1>2, <1>3, <1>4, <1>5, ServeKeeps, NotYetInvoiced

\* A deposit row is written.
LEMMA RowWritten ==
    ASSUME DepositInv, NEW w \in Desks, NEW r \in DeskStates, desk' = [desk EXCEPT ![w] = r],
           NEW d \in Deposits, NEW x \in DepositRows, deposit' = [deposit EXCEPT ![d] = x], x.status # "none",
           x.ledger = "issued" => topup[d]["PTS"] = "settled" /\ topup[d]["FEE"] = "settled",
           UNCHANGED <<invoice, leg, topup, clawback>>, DeskKnows(r) \/ DeskKnows(r)',
           r.pc = "invoice" => invoice[r.d] = "none" /\ \A v \in Desks \ {w} : desk[v].pc = "invoice" => desk[v].d # r.d
    PROVE  DepositInv'
<1>1. deposit \in [Deposits -> DepositRows] /\ DepositTyped
  BY DEF DepositInv, DepositTyped
<1>2. deposit'[d] = x /\ \A e \in Deposits \ {d} : deposit'[e] = deposit[e]
  BY <1>1
<1>3. \A e \in Deposits : deposit[e].status # "none" => deposit'[e].status # "none"
  BY <1>2
<1>4. Onwards
  BY <1>1, <1>3, NothingMoved
<1>5. DeskKnows(r)'
  BY <1>1, <1>4, DeskKept
<1>6. DepositTyped'
  <2>1. deposit' \in [Deposits -> DepositRows]
    BY <1>1
  <2>2. desk' \in [Desks -> DeskStates]
    BY <1>1 DEF DepositTyped
  <2> QED BY <1>1, <2>1, <2>2 DEF DepositTyped
<1>7. DepositKnown'
  BY <1>3 DEF DepositInv, DepositKnown
<1>8. PointsBacked'
  BY <1>2 DEF DepositInv, PointsBacked, Legs
<1>9. OneCandidate'
  BY DEF DepositInv, OneCandidate
<1> QED BY <1>4, <1>5, <1>6, <1>7, <1>8, <1>9, ServeKeeps, NotYetInvoiced

\* A leg's row is written with what is so at DOKU.
LEMMA LegWritten ==
    ASSUME DepositInv, NEW w \in Desks, NEW r \in DeskStates, desk' = [desk EXCEPT ![w] = r],
           NEW d \in Deposits, NEW l \in Legs, NEW s \in LegStates, leg' = [leg EXCEPT ![d][l] = s],
           s = "settled" => topup[d][l] = "settled",
           UNCHANGED <<invoice, deposit, topup, clawback>>, DeskKnows(r), r.pc = "invoice" => r = desk[w]
    PROVE  DepositInv'
<1>1. leg \in [Deposits -> [Legs -> LegStates]] /\ DepositTyped
  BY DEF DepositInv, DepositTyped
<1>2. /\ leg' \in [Deposits -> [Legs -> LegStates]] /\ leg'[d][l] = s
      /\ \A e \in Deposits, k \in Legs : e # d \/ k # l => leg'[e][k] = leg[e][k]
  BY <1>1
<1>3. Onwards
  BY <1>1, NothingMoved
<1>4. DeskKnows(r)'
  <2>1. r.pc = "invoice" => invoice'[r.d] = "none"
    BY DEF DeskKnows
  <2> QED BY <1>1, <1>3, <2>1, DeskKept
<1>5. DepositTyped'
  <2>1. desk' \in [Desks -> DeskStates]
    BY <1>1 DEF DepositTyped
  <2> QED BY <1>1, <1>2, <2>1 DEF DepositTyped
<1>6. DepositKnown'
  BY <1>2 DEF DepositInv, DepositKnown
<1>7. PointsBacked' /\ OneCandidate'
  BY DEF DepositInv, PointsBacked, OneCandidate
<1>8. r.pc = "invoice" => \A v \in Desks \ {w} : desk[v].pc = "invoice" => desk[v].d # r.d
  BY DEF DepositInv, OneCreator
<1> QED BY <1>3, <1>4, <1>5, <1>6, <1>7, <1>8, ServeKeeps, NotYetInvoiced

\* DOKU takes or completes a top-up of a paid order.
LEMMA TopupWritten ==
    ASSUME DepositInv, NEW d \in Deposits, NEW l \in Legs, NEW s \in TopupStates,
           topup' = [topup EXCEPT ![d][l] = s], topup[d][l] # "settled", Paid(d),
           UNCHANGED <<invoice, deposit, leg, clawback>>
    PROVE  /\ Onwards /\ topup' \in [Deposits -> [Legs -> TopupStates]] /\ topup'[d][l] = s
           /\ DepositKnown' /\ PointsBacked' /\ OneCandidate'
<1>1. topup \in [Deposits -> [Legs -> TopupStates]] /\ DepositTyped
  BY DEF DepositInv, DepositTyped
<1>2. /\ topup' \in [Deposits -> [Legs -> TopupStates]] /\ topup'[d][l] = s
      /\ \A e \in Deposits, k \in Legs : e # d \/ k # l => topup'[e][k] = topup[e][k]
  BY <1>1
<1>3. \A e \in Deposits, k \in Legs : topup[e][k] = "settled" => topup'[e][k] = "settled"
  BY <1>2
<1>4. Onwards
  BY <1>1, <1>3 DEF Onwards, Paid, ByHand, DepositTyped, Legs
<1>5. DepositKnown'
  BY <1>3 DEF DepositInv, DepositKnown
<1>6. PointsBacked'
  BY <1>2, <1>3 DEF DepositInv, PointsBacked, Paid
<1>7. OneCandidate'
  BY DEF DepositInv, OneCandidate
<1> QED BY <1>2, <1>4, <1>5, <1>6, <1>7

\* Claw-back rows that may stand in place of a deposit's.
RowsSound(d, rows) ==
    /\ Len(rows) >= Len(clawback[d])
    /\ ByHand(d) => \E i \in DOMAIN rows : ~Candidate(rows[i])
    /\ \A i \in DOMAIN rows : Candidate(rows[i]) => rows[i].signal = invoice[d] /\ Reversed(invoice[d])
    /\ Len(rows) <= 1 \/ \E i \in DOMAIN rows : ~Candidate(rows[i])

\* Claw-back rows are added or change their state.
LEMMA ClawbackWritten ==
    ASSUME DepositInv, NEW d \in Deposits, NEW rows \in Seq(ClawbackRows), clawback' = [clawback EXCEPT ![d] = rows],
           RowsSound(d, rows), UNCHANGED <<invoice, leg, topup>>,
           \A e \in Deposits \ {d} : deposit'[e] = deposit[e],
           deposit[d].status # "none", deposit'[d].status # "none",
           deposit'[d].ledger = "issued" => deposit[d].ledger = "issued"
    PROVE  /\ Onwards /\ clawback' \in [Deposits -> Seq(ClawbackRows)] /\ clawback'[d] = rows
           /\ DepositKnown' /\ PointsBacked' /\ OneCandidate'
<1>1. clawback \in [Deposits -> Seq(ClawbackRows)] /\ DepositTyped
  BY DEF DepositInv, DepositTyped
<1>2. /\ clawback' \in [Deposits -> Seq(ClawbackRows)] /\ clawback'[d] = rows
      /\ \A e \in Deposits \ {d} : clawback'[e] = clawback[e]
  BY <1>1
<1>3. \A e \in Deposits : Len(clawback'[e]) \in Nat /\ Len(clawback'[e]) >= Len(clawback[e])
  <2>1. \A e \in Deposits : Len(clawback[e]) \in Nat /\ Len(clawback'[e]) \in Nat
    BY <1>1, <1>2
  <2>2. ASSUME NEW e \in Deposits PROVE Len(clawback'[e]) >= Len(clawback[e])
    <3>1. CASE e = d
      BY <1>2, <3>1 DEF RowsSound
    <3>2. CASE e # d
      BY <1>2, <2>1, <3>2
    <3> QED BY <3>1, <3>2
  <2> QED BY <2>1, <2>2
<1>4. \A e \in Deposits : ByHand(e) => ByHand(e)'
  BY <1>2 DEF ByHand, RowsSound
<1>5. Onwards
  BY <1>3, <1>4 DEF Onwards, Paid
<1>6. DepositKnown'
  BY <1>2 DEF DepositInv, DepositKnown, RowsSound
<1>7. PointsBacked'
  BY DEF DepositInv, PointsBacked
<1>8. OneCandidate'
  BY <1>2 DEF DepositInv, OneCandidate, RowsSound
<1> QED BY <1>2, <1>5, <1>6, <1>7, <1>8

---------------------------------------------------------------------------
\* Deposits: the steps

LEMMA DeskIs ==
    ASSUME DepositInv, NEW w \in Desks
    PROVE  /\ desk[w] \in DeskStates /\ desk[w].leg \in Legs /\ desk[w].n \in Nat
           /\ desk[w].pc # "idle" => desk[w].d \in Deposits /\ deposit[desk[w].d].status # "none"
           /\ desk[w].saw \in Invoices \cup LegStates /\ DeskKnows(desk[w])
BY DEF DepositInv, DepositTyped, DeskStates, DeskKnows

LEMMA WaitingIs == Waiting \in DeskStates /\ Waiting.pc = "idle" /\ DeskKnows(Waiting)
BY DEF Waiting, DeskStates, DeskPcs, Invoices, Legs, DeskKnows

LEMMA CreateDepositOK ==
    ASSUME DepositInv, NEW w \in Desks, NEW d \in Deposits, createCheckoutDeposit(w, d)
    PROVE  DepositInv'
<1>1. PICK r : r = [Waiting EXCEPT !.pc = "invoice", !.d = d]
  OBVIOUS
<1>2. PICK x : x = [status |-> "created", payment |-> "none", ledger |-> "pending"]
  OBVIOUS
<1>3. /\ deposit[d] = NoDepositRow /\ deposit' = [deposit EXCEPT ![d] = x] /\ desk' = [desk EXCEPT ![w] = r]
      /\ UNCHANGED <<invoice, leg, topup, clawback>>
  BY <1>1, <1>2 DEF createCheckoutDeposit, Serve
<1>4. r \in DeskStates /\ r.pc = "invoice" /\ r.d = d
  BY <1>1 DEF Waiting, DeskStates, DeskPcs, Invoices, Legs
<1>5. x \in DepositRows /\ x.status = "created" /\ x.ledger = "pending"
  BY <1>2 DEF DepositRows
<1>6. deposit[d].status = "none" /\ deposit'[d] = x
  BY <1>3 DEF NoDepositRow, DepositInv, DepositTyped
<1>7. invoice[d] = "none"
  BY <1>6 DEF DepositInv, DepositKnown
<1>8. \A v \in Desks \ {w} : desk[v].pc = "invoice" => desk[v].d # d
  BY <1>6 DEF DepositInv, DeskKnows
<1>9. DeskKnows(r)'
  BY <1>3, <1>4, <1>5, <1>6, <1>7 DEF DeskKnows
<1> QED BY <1>3, <1>4, <1>5, <1>7, <1>8, <1>9, RowWritten

LEMMA CreatePaymentOK ==
    ASSUME DepositInv, NEW w \in Desks, createPayment(w)
    PROVE  DepositInv'
<1>1. PICK d : d = desk[w].d
  OBVIOUS
<1>2. /\ d \in Deposits /\ invoice[d] = "none" /\ desk[w].pc = "invoice" /\ DepositTyped /\ desk \in [Desks -> DeskStates]
      /\ invoice \in [Deposits -> Invoices] /\ deposit \in [Deposits -> DepositRows]
  BY <1>1, DeskIs DEF createPayment, At, DeskKnows, DepositInv, DepositTyped
<1>3. PICK s \in {"created", "failed"} : deposit' = [deposit EXCEPT ![d].status = s]
  BY <1>1 DEF createPayment
<1>4. /\ invoice' \in {invoice, [invoice EXCEPT ![d] = "open"]}
      /\ desk' = [desk EXCEPT ![w] = Waiting] /\ UNCHANGED <<leg, topup, clawback>>
  BY <1>1 DEF createPayment, Done, Serve
<1>5. /\ deposit' \in [Deposits -> DepositRows] /\ deposit'[d].status = s /\ deposit'[d].ledger = deposit[d].ledger
      /\ \A e \in Deposits \ {d} : deposit'[e] = deposit[e]
  BY <1>2, <1>3 DEF DepositRows
<1>6. /\ invoice' \in [Deposits -> Invoices] /\ invoice'[d] \in {"none", "open"}
      /\ \A e \in Deposits \ {d} : invoice'[e] = invoice[e]
  BY <1>2, <1>4 DEF Invoices
<1>7. desk' \in [Desks -> DeskStates]
  BY <1>2, <1>4, WaitingIs
<1>8. Onwards
  <2>1. \A e \in Deposits : Paid(e) => e # d
    BY <1>2 DEF Paid
  <2>2. \A e \in Deposits : Reversed(invoice[e]) => e # d
    BY <1>2 DEF Reversed
  <2> QED BY <1>2, <1>4, <1>5, <1>6, <2>1, <2>2 DEF Onwards, Paid, ByHand, DepositTyped
<1>9. \A v \in Desks \ {w} : desk[v].pc = "invoice" => invoice'[desk[v].d] = "none"
  BY <1>1, <1>2, <1>6, NotYetInvoiced DEF DepositInv, OneCreator, DeskKnows
<1>10. DepositTyped'
  BY <1>2, <1>4, <1>5, <1>6, <1>7 DEF DepositTyped
<1>11. DepositKnown'
  <2>1. \A i \in DOMAIN clawback[d] : ~Candidate(clawback[d][i])
    BY <1>2 DEF DepositInv, DepositKnown, Reversed
  <2> QED BY <1>2, <1>4, <1>5, <1>6, <2>1 DEF DepositInv, DepositKnown
<1>12. PointsBacked'
  BY <1>2, <1>4, <1>5, <1>6 DEF DepositInv, PointsBacked
<1>13. OneCandidate'
  BY <1>4 DEF DepositInv, OneCandidate
<1>14. DeskKnows(Waiting)'
  BY WaitingIs DEF DeskKnows
<1> QED BY <1>4, <1>8, <1>9, <1>10, <1>11, <1>12, <1>13, <1>14, WaitingIs, ServeKeeps

LEMMA OrderMovesOK ==
    ASSUME DepositInv, NEW d \in Deposits, OrderMoves(d)
    PROVE  DepositInv'
<1>1. DepositTyped /\ invoice \in [Deposits -> Invoices]
  BY DEF DepositInv, DepositTyped
<1>2. UNCHANGED <<deposit, leg, topup, clawback, desk>>
  BY DEF OrderMoves
<1>3. PICK s : /\ invoice' = [invoice EXCEPT ![d] = s]
               /\ \/ invoice[d] = "open" /\ s \in {"paid", "misspaid", "expired"}
                  \/ invoice[d] = "paid" /\ s = "reversed"
  BY DEF OrderMoves
<1>4. invoice' \in [Deposits -> Invoices] /\ invoice'[d] = s /\ \A e \in Deposits \ {d} : invoice'[e] = invoice[e]
  BY <1>1, <1>3 DEF Invoices
<1>5. Onwards
  BY <1>1, <1>2, <1>3, <1>4 DEF Onwards, Paid, ByHand, Reversed, DepositTyped
<1>6. \A v \in Desks : desk[v].pc = "invoice" => invoice'[desk[v].d] = "none"
  BY <1>2, <1>3, <1>4, NotYetInvoiced, DeskIs
<1>7. DepositTyped'
  BY <1>1, <1>2, <1>4 DEF DepositTyped
<1>8. DepositKnown'
  BY <1>2, <1>3, <1>4 DEF DepositInv, DepositKnown, Reversed
<1>9. PointsBacked' /\ OneCandidate'
  BY <1>2, <1>3, <1>4 DEF DepositInv, PointsBacked, OneCandidate
<1> QED BY <1>2, <1>5, <1>6, <1>7, <1>8, <1>9, NoneServes

LEMMA ReadsOK ==
    ASSUME DepositInv, NEW w \in Desks, NEW d \in Deposits,
           \/ cancelTx(w, d) \/ webhookClosed(w, d) \/ completeIssuance(w, d) \/ clawbackPoints(w, d)
           \/ \E via \in {"sync", "webhook", "reconcile"} : look(w, d, via)
           \/ \E i \in DOMAIN clawback[d] : approveClawback(w, d, i)
    PROVE  DepositInv'
<1>1. /\ invoice[d] \in Invoices /\ deposit[d] \in DepositRows /\ clawback[d] \in Seq(ClawbackRows)
      /\ Len(clawback[d]) \in Nat
  BY DEF DepositInv, DepositTyped
<1>0. deposit[d].status # "none"
  <2> SUFFICES ASSUME deposit[d].status = "none" PROVE FALSE
    OBVIOUS
  <2>1. invoice[d] = "none" /\ clawback[d] = <<>> /\ deposit[d] = NoDepositRow
    BY DEF DepositInv, DepositKnown
  <2>2. ~Open(d) /\ deposit[d].ledger = "none" /\ \A i \in DOMAIN clawback[d] : FALSE
    BY <2>1 DEF Open, NoDepositRow
  <2> QED BY <2>1, <2>2 DEF cancelTx, webhookClosed, completeIssuance, clawbackPoints, look
<1>2. CASE cancelTx(w, d)
  <2>1. PICK r : r = [Waiting EXCEPT !.pc = "cancel", !.d = d]
    OBVIOUS
  <2>2. r \in DeskStates /\ r.pc = "cancel" /\ r.d = d
    BY <2>1 DEF Waiting, DeskStates, DeskPcs, Invoices, Legs
  <2>3. DeskKnows(r)
    BY <1>0, <1>2, <2>2 DEF DeskKnows
  <2>4. desk' = [desk EXCEPT ![w] = r] /\ UNCHANGED rail
    BY <1>2, <2>1 DEF cancelTx, Serve
  <2> QED BY <2>2, <2>3, <2>4, DeskOnly
<1>3. CASE webhookClosed(w, d)
  <2>1. PICK r : r = [Waiting EXCEPT !.pc = "propose", !.d = d, !.saw = invoice[d]]
    OBVIOUS
  <2>2. r \in DeskStates /\ r.pc = "propose" /\ r.d = d /\ r.saw = invoice[d]
    BY <1>1, <2>1 DEF Waiting, DeskStates, DeskPcs, Legs
  <2>3. DeskKnows(r)
    BY <1>0, <1>3, <2>2 DEF DeskKnows, webhookClosed
  <2>4. desk' = [desk EXCEPT ![w] = r] /\ UNCHANGED rail
    BY <1>3, <2>1 DEF webhookClosed, Serve
  <2> QED BY <2>2, <2>3, <2>4, DeskOnly
<1>4. CASE completeIssuance(w, d)
  <2>1. PICK r : r = [Waiting EXCEPT !.pc = "issue?", !.d = d]
    OBVIOUS
  <2>2. r \in DeskStates /\ r.pc = "issue?" /\ r.d = d
    BY <2>1 DEF Waiting, DeskStates, DeskPcs, Invoices, Legs
  <2>3. DeskKnows(r)
    BY <1>0, <2>2 DEF DeskKnows
  <2>4. desk' = [desk EXCEPT ![w] = r] /\ UNCHANGED rail
    BY <1>4, <2>1 DEF completeIssuance, Serve
  <2> QED BY <2>2, <2>3, <2>4, DeskOnly
<1>5. CASE clawbackPoints(w, d)
  <2>1. PICK r : r = [Waiting EXCEPT !.pc = "directRow", !.d = d, !.n = Len(clawback[d]) + 1]
    OBVIOUS
  <2>2. r \in DeskStates /\ r.pc = "directRow" /\ r.d = d /\ r.n = Len(clawback[d]) + 1
    <3>1. PICK n \in Nat : n = Len(clawback[d]) + 1
      BY <1>1
    <3> QED BY <2>1, <3>1 DEF Waiting, DeskStates, DeskPcs, Invoices, Legs
  <2>3. DeskKnows(r)
    BY <1>0, <1>1, <2>2 DEF DeskKnows
  <2>4. desk' = [desk EXCEPT ![w] = r] /\ UNCHANGED rail
    BY <1>5, <2>1 DEF clawbackPoints, Serve
  <2> QED BY <2>2, <2>3, <2>4, DeskOnly
<1>6. ASSUME NEW via \in {"sync", "webhook", "reconcile"}, look(w, d, via) PROVE DepositInv'
  <2>1. CASE desk' = [desk EXCEPT ![w] = [Waiting EXCEPT !.pc = "legacy", !.d = d]]
    <3>1. PICK r : r = [Waiting EXCEPT !.pc = "legacy", !.d = d]
      OBVIOUS
    <3>2. r \in DeskStates /\ r.pc = "legacy" /\ r.d = d
      BY <3>1 DEF Waiting, DeskStates, DeskPcs, Invoices, Legs
    <3>3. DeskKnows(r)
      BY <1>0, <3>2 DEF DeskKnows
    <3>4. desk' = [desk EXCEPT ![w] = r] /\ UNCHANGED rail
      BY <1>6, <2>1, <3>1 DEF look
    <3> QED BY <3>2, <3>3, <3>4, DeskOnly
  <2>2. CASE desk' = [desk EXCEPT ![w] = [Waiting EXCEPT !.pc = "apply", !.d = d, !.via = via, !.saw = invoice[d],
                                                        !.ledger = deposit[d].ledger]]
    <3>1. PICK r : r = [Waiting EXCEPT !.pc = "apply", !.d = d, !.via = via, !.saw = invoice[d],
                                       !.ledger = deposit[d].ledger]
      OBVIOUS
    <3>2. r \in DeskStates /\ r.pc = "apply" /\ r.d = d /\ r.saw = invoice[d]
      BY <1>1, <3>1 DEF Waiting, DeskStates, DeskPcs, Legs, DepositRows
    <3>3. DeskKnows(r)
      BY <1>0, <3>2 DEF DeskKnows
    <3>4. desk' = [desk EXCEPT ![w] = r] /\ UNCHANGED rail
      BY <1>6, <2>2, <3>1 DEF look
    <3> QED BY <3>2, <3>3, <3>4, DeskOnly
  <2> QED BY <1>6, <2>1, <2>2 DEF look, Serve
<1>7. ASSUME NEW i \in DOMAIN clawback[d], approveClawback(w, d, i) PROVE DepositInv'
  <2>1. PICK r : r = [Waiting EXCEPT !.pc = "claim?", !.d = d, !.n = i]
    OBVIOUS
  <2>2. i \in 1..Len(clawback[d]) /\ i \in Nat
    BY <1>1, <1>7
  <2>3. r \in DeskStates /\ r.pc = "claim?" /\ r.d = d /\ r.n = i
    BY <2>1, <2>2 DEF Waiting, DeskStates, DeskPcs, Invoices, Legs
  <2>4. DeskKnows(r)
    BY <1>0, <2>2, <2>3 DEF DeskKnows
  <2>5. desk' = [desk EXCEPT ![w] = r] /\ UNCHANGED rail
    BY <1>7, <2>1 DEF approveClawback, Serve
  <2> QED BY <2>3, <2>4, <2>5, DeskOnly
<1> QED BY <1>2, <1>3, <1>4, <1>5, <1>6, <1>7

\* A request ends, or goes on, without writing anything.
LEMMA EndsOK ==
    ASSUME DepositInv, NEW w \in Desks, desk' = [desk EXCEPT ![w] = Waiting], UNCHANGED rail
    PROVE  DepositInv'
BY WaitingIs, DeskOnly

LEMMA GoesOn ==
    ASSUME DepositInv, NEW w \in Desks, NEW pc \in DeskPcs \ {"idle", "invoice"}, GoTo(w, pc), UNCHANGED rail,
           desk[w].pc # "idle", NEW r, r = [desk[w] EXCEPT !.pc = pc], DeskKnows(r)
    PROVE  DepositInv'
<1>1. r \in DeskStates /\ r.pc = pc
  BY DeskIs DEF DeskStates
<1>2. desk' = [desk EXCEPT ![w] = r]
  BY DEF GoTo, Serve
<1> QED BY <1>1, <1>2, DeskOnly

LEMMA IssueOK ==
    ASSUME DepositInv, NEW w \in Desks, issuePointsForDeposit(w) \/ takeLock(w) \/ CrashDesk(w)
    PROVE  DepositInv'
<1>1. desk[w].pc # "idle" /\ UNCHANGED rail
  BY DEF issuePointsForDeposit, takeLock, CrashDesk, At
<1>2. CASE desk' = [desk EXCEPT ![w] = Waiting]
  BY <1>1, <1>2, EndsOK
<1>3. CASE issuePointsForDeposit(w) /\ GoTo(w, "verify")
  <2>1. PICK r : r = [desk[w] EXCEPT !.pc = "verify"]
    OBVIOUS
  <2>2. r.pc = "verify" /\ r.d \in Deposits /\ deposit[r.d].status # "none"
    BY <1>1, <2>1, DeskIs DEF DeskStates
  <2>3. DeskKnows(r)
    BY <2>2 DEF DeskKnows
  <2> QED BY <1>1, <1>3, <2>1, <2>3, GoesOn DEF DeskPcs
<1>4. CASE takeLock(w)
  <2>1. PICK r : r = [desk[w] EXCEPT !.pc = "claim"]
    OBVIOUS
  <2>2. r.pc = "claim" /\ r.d = desk[w].d /\ r.n = desk[w].n
    BY <2>1, DeskIs DEF DeskStates
  <2>3. DeskKnows(r)
    BY <1>1, <1>4, <2>2, DeskIs DEF DeskKnows, takeLock, At
  <2> QED BY <1>1, <1>4, <2>1, <2>3, GoesOn DEF DeskPcs, takeLock
<1> QED BY <1>2, <1>3, <1>4 DEF issuePointsForDeposit, CrashDesk, Done, Serve

\* The same for a step that writes a deposit row and nothing of it that the
\* other facts are about.
LEMMA RowMarked ==
    ASSUME DepositInv, NEW w \in Desks, NEW r \in DeskStates, desk' = [desk EXCEPT ![w] = r],
           NEW d \in Deposits, NEW x \in DepositRows, deposit' = [deposit EXCEPT ![d] = x], x.status # "none",
           x.ledger \in {deposit[d].ledger, "blocked", "failed", "partial"},
           UNCHANGED <<invoice, leg, topup, clawback>>, DeskKnows(r), r.pc # "invoice"
    PROVE  DepositInv'
<1>1. x.ledger = "issued" => topup[d]["PTS"] = "settled" /\ topup[d]["FEE"] = "settled"
  BY DEF DepositInv, PointsBacked, Legs
<1> QED BY <1>1, RowWritten

LEMMA MarkIs ==
    ASSUME DepositInv, NEW d \in Deposits, NEW p \in {"success", "expired", "failed"}, markPayment(d, p)
    PROVE  \E x \in DepositRows : /\ deposit' = [deposit EXCEPT ![d] = x]
                                  /\ x.status # "none" /\ x.ledger = deposit[d].ledger
<1>1. deposit \in [Deposits -> DepositRows]
  BY DEF DepositInv, DepositTyped
<1>2. PICK s : s = CASE p = "expired" -> "cancelled" [] p = "pending" -> "processing" [] OTHER -> p
  OBVIOUS
<1>3. s \in {"success", "cancelled", "failed"}
  BY <1>2
<1>4. PICK x : x = [deposit[d] EXCEPT !.payment = p, !.status = s]
  OBVIOUS
<1>5. x \in DepositRows /\ x.status = s /\ x.ledger = deposit[d].ledger
  BY <1>1, <1>3, <1>4 DEF DepositRows
<1>6. deposit' = [deposit EXCEPT ![d] = x]
  BY <1>1, <1>2, <1>4 DEF markPayment
<1> QED BY <1>3, <1>5, <1>6

LEMMA StatusSet ==
    ASSUME DepositInv, NEW d \in Deposits, NEW s \in {"processing", "failed", "cancelled", "created"},
           deposit' = [deposit EXCEPT ![d].status = s]
    PROVE  \E x \in DepositRows : /\ deposit' = [deposit EXCEPT ![d] = x]
                                  /\ x.status # "none" /\ x.ledger = deposit[d].ledger
<1>1. deposit \in [Deposits -> DepositRows]
  BY DEF DepositInv, DepositTyped
<1>2. PICK x : x = [deposit[d] EXCEPT !.status = s]
  OBVIOUS
<1>3. x \in DepositRows /\ x.status = s /\ x.ledger = deposit[d].ledger
  BY <1>1, <1>2 DEF DepositRows
<1>4. deposit' = [deposit EXCEPT ![d] = x]
  BY <1>1, <1>2
<1> QED BY <1>3, <1>4

LEMMA LedgerSet ==
    ASSUME DepositInv, NEW d \in Deposits, deposit[d].status # "none",
           NEW s \in {"failed", "partial", "issued", "blocked", "clawed_back"},
           deposit' = [deposit EXCEPT ![d].ledger = s]
    PROVE  \E x \in DepositRows : /\ deposit' = [deposit EXCEPT ![d] = x]
                                  /\ x.status # "none" /\ x.ledger = s
<1>1. deposit \in [Deposits -> DepositRows]
  BY DEF DepositInv, DepositTyped
<1>2. PICK x : x = [deposit[d] EXCEPT !.ledger = s]
  OBVIOUS
<1>3. x \in DepositRows /\ x.status = deposit[d].status /\ x.ledger = s
  BY <1>1, <1>2 DEF DepositRows
<1>4. deposit' = [deposit EXCEPT ![d] = x]
  BY <1>1, <1>2
<1> QED BY <1>3, <1>4

LEMMA StatusOK ==
    ASSUME DepositInv, NEW w \in Desks, writeCancelled(w) \/ syncLegacyDeposit(w)
    PROVE  DepositInv'
<1>1. PICK d \in Deposits : d = desk[w].d
  BY DeskIs DEF writeCancelled, syncLegacyDeposit, At
<1>2. /\ \E s \in {"processing", "failed", "cancelled", "created"} : deposit' = [deposit EXCEPT ![d].status = s]
      /\ desk' = [desk EXCEPT ![w] = Waiting] /\ UNCHANGED <<invoice, leg, topup, clawback>>
  BY <1>1 DEF writeCancelled, syncLegacyDeposit, Done, Serve
<1>3. PICK x \in DepositRows : deposit' = [deposit EXCEPT ![d] = x] /\ x.status # "none" /\ x.ledger = deposit[d].ledger
  BY <1>2, StatusSet
<1> QED BY <1>2, <1>3, WaitingIs, RowMarked

LEMMA ApplyOK ==
    ASSUME DepositInv, NEW w \in Desks, applyAnswer(w)
    PROVE  DepositInv'
<1>1. PICK d \in Deposits : d = desk[w].d
  BY DeskIs DEF applyAnswer, At
<1>2. PICK saw \in Invoices \cup LegStates : saw = desk[w].saw
  BY DeskIs
<1>3. desk[w].pc = "apply" /\ (Reversed(saw) => invoice[d] = saw) /\ UNCHANGED <<invoice, leg, topup, clawback>>
  BY <1>1, <1>2, DeskIs DEF applyAnswer, At, DeskKnows
<1>4. deposit[d].status # "none"
  BY <1>1, <1>3, DeskIs
<1>5. CASE markPayment(d, "success") /\ Serve(w, [Waiting EXCEPT !.pc = "issue?", !.d = d])
  <2>1. PICK r : r = [Waiting EXCEPT !.pc = "issue?", !.d = d]
    OBVIOUS
  <2>2. r \in DeskStates /\ r.pc = "issue?" /\ r.d = d
    BY <2>1 DEF Waiting, DeskStates, DeskPcs, Invoices, Legs
  <2>3. DeskKnows(r)
    BY <1>4, <2>2 DEF DeskKnows
  <2>4. PICK x \in DepositRows : deposit' = [deposit EXCEPT ![d] = x] /\ x.status # "none" /\ x.ledger = deposit[d].ledger
    BY <1>5, MarkIs
  <2>5. desk' = [desk EXCEPT ![w] = r]
    BY <1>5, <2>1 DEF Serve
  <2> QED BY <1>3, <2>2, <2>3, <2>4, <2>5, RowMarked
<1>6. CASE deposit' = [deposit EXCEPT ![d].ledger = "blocked"] /\ Done(w)
  <2>1. PICK x \in DepositRows : deposit' = [deposit EXCEPT ![d] = x] /\ x.status # "none" /\ x.ledger = "blocked"
    BY <1>4, <1>6, LedgerSet
  <2>2. desk' = [desk EXCEPT ![w] = Waiting]
    BY <1>6 DEF Done, Serve
  <2> QED BY <1>3, <2>1, <2>2, WaitingIs, RowMarked
<1>7. CASE (markPayment(d, "expired") \/ markPayment(d, "failed")) /\ Done(w)
  <2>1. PICK x \in DepositRows : deposit' = [deposit EXCEPT ![d] = x] /\ x.status # "none" /\ x.ledger = deposit[d].ledger
    BY <1>7, MarkIs
  <2>2. desk' = [desk EXCEPT ![w] = Waiting]
    BY <1>7 DEF Done, Serve
  <2> QED BY <1>3, <2>1, <2>2, WaitingIs, RowMarked
<1>8. CASE /\ markPayment(d, "expired") \/ markPayment(d, "failed")
           /\ Reversed(saw) /\ Serve(w, [Waiting EXCEPT !.pc = "propose", !.d = d, !.saw = saw])
  <2>1. PICK r : r = [Waiting EXCEPT !.pc = "propose", !.d = d, !.saw = saw]
    OBVIOUS
  <2>2. r \in DeskStates /\ r.pc = "propose" /\ r.d = d /\ r.saw = saw
    BY <2>1 DEF Waiting, DeskStates, DeskPcs, Legs
  <2>3. DeskKnows(r)
    BY <1>3, <1>4, <1>8, <2>2 DEF DeskKnows
  <2>4. PICK x \in DepositRows : deposit' = [deposit EXCEPT ![d] = x] /\ x.status # "none" /\ x.ledger = deposit[d].ledger
    BY <1>8, MarkIs
  <2>5. desk' = [desk EXCEPT ![w] = r]
    BY <1>8, <2>1 DEF Serve
  <2> QED BY <1>3, <2>2, <2>3, <2>4, <2>5, RowMarked
<1> QED BY <1>1, <1>2, <1>5, <1>6, <1>7, <1>8 DEF applyAnswer

LEMMA VerifyOK ==
    ASSUME DepositInv, NEW w \in Desks, verifyOrder(w)
    PROVE  DepositInv'
<1>1. PICK d \in Deposits : d = desk[w].d
  BY DeskIs DEF verifyOrder, At
<1>2. /\ deposit[d].status # "none" /\ desk[w].pc = "verify" /\ UNCHANGED <<invoice, leg, topup, clawback>>
      /\ ~AmountMatches("misspaid")
  BY <1>1, DeskIs DEF verifyOrder, At, AmountMatches
<1>3. CASE invoice[d] = "paid" /\ Serve(w, [desk[w] EXCEPT !.pc = "leg", !.leg = "PTS"]) /\ UNCHANGED deposit
  <2>1. PICK r : r = [desk[w] EXCEPT !.pc = "leg", !.leg = "PTS"]
    OBVIOUS
  <2>2. r \in DeskStates /\ r.pc = "leg" /\ r.leg = "PTS" /\ r.d = d
    BY <1>1, <2>1, DeskIs DEF DeskStates, DeskPcs, Legs
  <2>3. DeskKnows(r)
    BY <1>2, <1>3, <2>2 DEF DeskKnows, Paid
  <2>4. desk' = [desk EXCEPT ![w] = r] /\ UNCHANGED rail
    BY <1>2, <1>3, <2>1 DEF Serve, verifyOrder, rail
  <2> QED BY <2>2, <2>3, <2>4, DeskOnly
<1>4. CASE Done(w) /\ deposit' = [deposit EXCEPT ![d].ledger = "blocked"]
  <2>1. PICK x \in DepositRows : deposit' = [deposit EXCEPT ![d] = x] /\ x.status # "none" /\ x.ledger = "blocked"
    BY <1>2, <1>4, LedgerSet
  <2>2. desk' = [desk EXCEPT ![w] = Waiting]
    BY <1>4 DEF Done, Serve
  <2> QED BY <1>2, <2>1, <2>2, WaitingIs, RowMarked
<1>5. CASE Done(w) /\ UNCHANGED deposit
  <2>1. desk' = [desk EXCEPT ![w] = Waiting] /\ UNCHANGED rail
    BY <1>2, <1>5 DEF Done, Serve, verifyOrder, rail
  <2> QED BY <2>1, EndsOK
<1> QED BY <1>1, <1>2, <1>3, <1>4, <1>5 DEF verifyOrder

LEMMA StartLegOK ==
    ASSUME DepositInv, NEW w \in Desks, startLeg(w)
    PROVE  DepositInv'
<1>1. PICK d \in Deposits, l \in Legs : d = desk[w].d /\ l = desk[w].leg
  BY DeskIs DEF startLeg, At
<1>2. /\ desk[w].pc = "leg" /\ UNCHANGED <<invoice, deposit, topup, clawback>> /\ DeskKnows(desk[w])
      /\ leg \in [Deposits -> [Legs -> LegStates]]
  BY DeskIs DEF startLeg, At, DepositInv, DepositTyped
<1>3. CASE GoTo(w, "issue") /\ UNCHANGED leg
  <2>1. PICK r : r = [desk[w] EXCEPT !.pc = "issue"]
    OBVIOUS
  <2>2. r.pc = "issue" /\ r.leg = l /\ r.d = d
    BY <1>1, <2>1, DeskIs DEF DeskStates
  <2>3. DeskKnows(r)
    BY <1>1, <1>2, <2>2 DEF DeskKnows
  <2>4. UNCHANGED rail
    BY <1>2, <1>3 DEF startLeg, rail
  <2> QED BY <1>2, <1>3, <2>1, <2>3, <2>4, GoesOn DEF DeskPcs
<1>4. CASE /\ GoTo(w, "topup") /\ leg[d][l] # "settled"
           /\ leg' = [leg EXCEPT ![d][l] = IF @ = "none" THEN "created" ELSE @]
  <2>1. PICK r : r = [desk[w] EXCEPT !.pc = "topup"]
    OBVIOUS
  <2>2. r \in DeskStates /\ r.pc = "topup" /\ r.leg = l /\ r.d = d
    BY <1>1, <2>1, DeskIs DEF DeskStates, DeskPcs
  <2>3. DeskKnows(r)
    BY <1>1, <1>2, <2>2 DEF DeskKnows
  <2>4. PICK s : s = IF leg[d][l] = "none" THEN "created" ELSE leg[d][l]
    OBVIOUS
  <2>5. s \in LegStates /\ s # "settled" /\ leg' = [leg EXCEPT ![d][l] = s]
    BY <1>2, <1>4, <2>4 DEF LegStates
  <2>6. desk' = [desk EXCEPT ![w] = r]
    BY <1>4, <2>1 DEF GoTo, Serve
  <2> QED BY <1>2, <2>2, <2>3, <2>5, <2>6, LegWritten
<1> QED BY <1>1, <1>3, <1>4 DEF startLeg

LEMMA AdoptLegOK ==
    ASSUME DepositInv, NEW w \in Desks, adoptLeg(w)
    PROVE  DepositInv'
<1>1. PICK d \in Deposits, l \in Legs : d = desk[w].d /\ l = desk[w].leg
  BY DeskIs DEF adoptLeg, At
<1>2. PICK s \in LegStates : s = desk[w].saw
  BY DeskIs DEF adoptLeg, At, DeskKnows
<1>3. /\ desk[w].pc = "adopt" /\ UNCHANGED <<invoice, deposit, topup, clawback>> /\ DeskKnows(desk[w])
      /\ s = "settled" => topup[d][l] = "settled"
  BY <1>1, <1>2, DeskIs DEF adoptLeg, At, DeskKnows
<1>4. PICK r : r = [desk[w] EXCEPT !.pc = "issue", !.saw = "none"]
  OBVIOUS
<1>5. r \in DeskStates /\ r.pc = "issue" /\ r.leg = l /\ r.d = d
  BY <1>1, <1>4, DeskIs DEF DeskStates, DeskPcs, Invoices
<1>6. DeskKnows(r)
  BY <1>1, <1>3, <1>5 DEF DeskKnows
<1>7. desk' = [desk EXCEPT ![w] = r] /\ leg' = [leg EXCEPT ![d][l] = s]
  BY <1>1, <1>2, <1>4 DEF adoptLeg, Serve
<1> QED BY <1>3, <1>5, <1>6, <1>7, LegWritten

LEMMA SyncLegOK ==
    ASSUME DepositInv, NEW w \in Desks, NEW d \in Deposits, NEW l \in Legs, syncLeg(w, d, l)
    PROVE  DepositInv'
<1>1. PICK r \in DeskStates : r = desk[w]
  BY DeskIs
<1>2. r.pc = "idle" /\ UNCHANGED <<invoice, deposit, topup, clawback, desk>>
  BY <1>1 DEF syncLeg, At
<1>3. PICK s : s = topup[d][l]
  OBVIOUS
<1>4. s \in LegStates /\ leg' = [leg EXCEPT ![d][l] = s]
  BY <1>3 DEF syncLeg, DepositInv, DepositTyped, TopupStates, LegStates
<1>5. desk' = [desk EXCEPT ![w] = r]
  BY <1>1, <1>2 DEF DepositInv, DepositTyped
<1>6. DeskKnows(r)
  BY <1>2 DEF DeskKnows
<1> QED BY <1>1, <1>2, <1>3, <1>4, <1>5, <1>6, LegWritten

LEMMA TopupEndsOK ==
    ASSUME DepositInv, NEW d \in Deposits, NEW l \in Legs, TopupEnds(d, l)
    PROVE  DepositInv'
<1>1. PICK s \in TopupStates : s \in {"settled", "failed"} /\ topup' = [topup EXCEPT ![d][l] = s]
  BY DEF TopupEnds, TopupStates
<1>2. topup[d][l] = "processing" /\ UNCHANGED <<invoice, deposit, leg, clawback, desk>>
  BY DEF TopupEnds
<1>3. Paid(d)
  BY <1>2 DEF DepositInv, PointsBacked, Paid
<1>4. /\ Onwards /\ topup' \in [Deposits -> [Legs -> TopupStates]]
      /\ DepositKnown' /\ PointsBacked' /\ OneCandidate'
  BY <1>1, <1>2, <1>3, TopupWritten
<1>5. DepositTyped'
  BY <1>2, <1>4 DEF DepositInv, DepositTyped
<1> QED BY <1>2, <1>4, <1>5, NoneServes, NotYetInvoiced

\* The request goes on to adopt what it saw of a top-up.
Adopting(w, s) == [desk[w] EXCEPT !.pc = "adopt", !.saw = s]

LEMMA Adopts ==
    ASSUME DepositInv, NEW w \in Desks, desk[w].pc = "topup", NEW s \in LegStates
    PROVE  LET r == Adopting(w, s)
           IN  /\ r \in DeskStates /\ r.pc = "adopt" /\ r.saw = s /\ r.leg = desk[w].leg /\ r.d = desk[w].d
               /\ (s = "settled" => topup[r.d][r.leg] = "settled") => DeskKnows(r)
<1> DEFINE r == Adopting(w, s)
<1>1. r \in DeskStates /\ r.pc = "adopt" /\ r.saw = s /\ r.leg = desk[w].leg /\ r.d = desk[w].d
  BY DeskIs DEF DeskStates, DeskPcs, Adopting
<1> HIDE DEF r
<1>2. (s = "settled" => topup[r.d][r.leg] = "settled") => DeskKnows(r)
  BY <1>1, DeskIs DEF DeskKnows
<1> QED BY <1>1, <1>2 DEF r

LEMMA PointTopupOK ==
    ASSUME DepositInv, NEW w \in Desks, pointTopup(w)
    PROVE  DepositInv'
<1>1. PICK d \in Deposits, l \in Legs : d = desk[w].d /\ l = desk[w].leg
  BY DeskIs DEF pointTopup, At
<1>2. /\ desk[w].pc = "topup" /\ Paid(d) /\ topup[d][l] \in TopupStates
      /\ UNCHANGED <<invoice, deposit, leg, clawback>> /\ (l = "FEE" => topup[d]["PTS"] = "settled")
  <2>1. desk[w].pc = "topup" /\ UNCHANGED <<invoice, deposit, leg, clawback>>
    BY DEF pointTopup, At
  <2>2. DeskKnows(desk[w])
    BY DeskIs
  <2>3. Paid(d) /\ (l = "FEE" => topup[d]["PTS"] = "settled")
    BY <1>1, <2>1, <2>2 DEF DeskKnows
  <2>4. topup[d][l] \in TopupStates
    BY DEF DepositInv, DepositTyped
  <2> QED BY <2>1, <2>3, <2>4
<1>3. ASSUME NEW s \in LegStates, NEW t \in {"processing", "settled"}, topup[d][l] = "none",
             topup' = [topup EXCEPT ![d][l] = t], s = "settled" => t = "settled",
             desk' = [desk EXCEPT ![w] = Adopting(w, s)]
      PROVE  DepositInv'
  <2>1. PICK r : r = Adopting(w, s)
    OBVIOUS
  <2>2. r \in DeskStates /\ r.pc = "adopt" /\ r.saw = s /\ r.leg = l /\ r.d = d
    BY <1>1, <1>2, <2>1, Adopts
  <2>3. t \in TopupStates
    BY DEF TopupStates
  <2>4. /\ Onwards /\ topup' \in [Deposits -> [Legs -> TopupStates]] /\ topup'[d][l] = t
        /\ DepositKnown' /\ PointsBacked' /\ OneCandidate'
    BY <1>2, <1>3, <2>3, TopupWritten
  <2>5. DepositTyped'
    <3>1. desk' \in [Desks -> DeskStates]
      BY <1>3, <2>1, <2>2 DEF DepositInv, DepositTyped
    <3> QED BY <1>2, <2>4, <3>1 DEF DepositInv, DepositTyped
  <2>6. DeskKnows(r)'
    <3>1. Paid(d)' /\ deposit[d].status # "none" /\ (l = "FEE" => topup'[d]["PTS"] = "settled")
      BY <1>1, <1>2, <2>4, DeskIs DEF Onwards
    <3> QED BY <1>2, <1>3, <2>2, <2>4, <3>1 DEF DeskKnows
  <2> QED BY <1>2, <1>3, <2>1, <2>2, <2>4, <2>5, <2>6, ServeKeeps, NotYetInvoiced
<1>4. ASSUME NEW s \in LegStates, s = "settled" => topup[d][l] = "settled", UNCHANGED topup,
             desk' = [desk EXCEPT ![w] = Adopting(w, s)]
      PROVE  DepositInv'
  <2>1. PICK r : r = Adopting(w, s)
    OBVIOUS
  <2>2. r \in DeskStates /\ r.pc = "adopt" /\ r.leg = l /\ r.d = d
    BY <1>1, <1>2, <2>1, Adopts
  <2>3. DeskKnows(r)
    BY <1>1, <1>2, <1>4, <2>1, <2>2, Adopts
  <2>4. UNCHANGED rail
    BY <1>2, <1>4 DEF pointTopup, rail
  <2> QED BY <1>4, <2>1, <2>2, <2>3, <2>4, DeskOnly
<1>5. topup[d][l] \in LegStates /\ {"processing", "settled", "failed"} \subseteq LegStates
  BY <1>2 DEF TopupStates, LegStates
<1> QED BY <1>1, <1>3, <1>4, <1>5 DEF pointTopup, Serve, Adopting

LEMMA AfterLegOK ==
    ASSUME DepositInv, NEW w \in Desks, afterLeg(w)
    PROVE  DepositInv'
<1>1. PICK d \in Deposits : d = desk[w].d
  BY DeskIs DEF afterLeg, At
<1>2. /\ desk[w].pc = "issue" /\ deposit[d].status # "none" /\ UNCHANGED <<invoice, leg, topup, clawback>>
      /\ Paid(d) /\ (desk[w].leg = "FEE" => topup[d]["PTS"] = "settled")
      /\ \A l \in Legs : leg[d][l] = "settled" => topup[d][l] = "settled"
  BY <1>1, DeskIs DEF afterLeg, At, DeskKnows, DepositInv, DepositKnown
<1>3. ASSUME NEW s \in {"failed", "partial", "issued"}, deposit' = [deposit EXCEPT ![d].ledger = s], Done(w),
             s = "issued" => topup[d]["PTS"] = "settled" /\ topup[d]["FEE"] = "settled"
      PROVE  DepositInv'
  <2>1. PICK x \in DepositRows : deposit' = [deposit EXCEPT ![d] = x] /\ x.status # "none" /\ x.ledger = s
    <3>1. deposit[d].status # "none"
      BY <1>2
    <3>2. CASE s = "failed"
      BY <1>3, <3>1, <3>2, LedgerSet
    <3>3. CASE s = "partial"
      BY <1>3, <3>1, <3>3, LedgerSet
    <3>4. CASE s = "issued"
      BY <1>3, <3>1, <3>4, LedgerSet
    <3> QED BY <3>2, <3>3, <3>4
  <2>2. desk' = [desk EXCEPT ![w] = Waiting]
    BY <1>3 DEF Done, Serve
  <2>3. /\ Waiting \in DeskStates /\ DeskKnows(Waiting) /\ Waiting.pc # "invoice"
        /\ x.ledger = "issued" => topup[d]["PTS"] = "settled" /\ topup[d]["FEE"] = "settled"
    BY <1>3, <2>1, WaitingIs
  <2> QED BY <1>2, <2>1, <2>2, <2>3, RowWritten
<1>4. CASE /\ desk[w].leg = "PTS" /\ leg[d]["PTS"] # "settled"
           /\ deposit' = [deposit EXCEPT ![d].ledger = "failed"] /\ Done(w)
  BY <1>3, <1>4
<1>5. CASE desk[w].leg # "PTS" /\ deposit' = [deposit EXCEPT ![d].ledger = issuedStatus(d)] /\ Done(w)
  <2>1. PICK s : s = issuedStatus(d)
    OBVIOUS
  <2>2. s \in {"issued", "partial"} /\ (s = "issued" => leg[d]["FEE"] = "settled")
    BY <2>1 DEF issuedStatus
  <2>3. desk[w].leg = "FEE"
    BY <1>5, DeskIs DEF Legs
  <2>4. s = "issued" => topup[d]["PTS"] = "settled" /\ topup[d]["FEE"] = "settled"
    BY <1>2, <2>2, <2>3 DEF Legs
  <2> QED BY <1>3, <1>5, <2>1, <2>2, <2>4
<1>6. CASE /\ desk[w].leg = "PTS" /\ leg[d]["PTS"] = "settled" /\ UNCHANGED deposit
           /\ Serve(w, [desk[w] EXCEPT !.pc = "leg", !.leg = "FEE"])
  <2>1. PICK r : r = [desk[w] EXCEPT !.pc = "leg", !.leg = "FEE"]
    OBVIOUS
  <2>2. r \in DeskStates /\ r.pc = "leg" /\ r.d = d
    BY <1>1, <2>1, DeskIs DEF DeskStates, DeskPcs, Legs
  <2>3. DeskKnows(r)
    BY <1>2, <1>6, <2>2 DEF DeskKnows, Legs
  <2>4. desk' = [desk EXCEPT ![w] = r] /\ UNCHANGED rail
    BY <1>2, <1>6, <2>1 DEF Serve, afterLeg, rail
  <2> QED BY <2>2, <2>3, <2>4, DeskOnly
<1> QED BY <1>1, <1>4, <1>5, <1>6 DEF afterLeg

LEMMA ProposeOK ==
    ASSUME DepositInv, NEW w \in Desks, proposeClawback(w)
    PROVE  DepositInv'
<1>1. PICK d \in Deposits : d = desk[w].d
  BY DeskIs DEF proposeClawback, At
<1>2. PICK saw : saw = desk[w].saw
  OBVIOUS
<1>3. /\ desk[w].pc = "propose" /\ deposit[d].status # "none" /\ UNCHANGED rail /\ invoice[d] = saw /\ Reversed(saw)
      /\ clawback[d] \in Seq(ClawbackRows) /\ Len(clawback[d]) \in Nat
  <2>1. desk[w].pc = "propose" /\ UNCHANGED rail
    BY DEF proposeClawback, At
  <2>2. deposit[d].status # "none" /\ invoice[d] = saw /\ Reversed(saw)
    BY <1>1, <1>2, <2>1, DeskIs DEF DeskKnows
  <2>3. clawback[d] \in Seq(ClawbackRows) /\ Len(clawback[d]) \in Nat
    BY DEF DepositInv, DepositTyped
  <2> QED BY <2>1, <2>2, <2>3
<1>4. CASE Done(w)
  BY <1>3, <1>4, EndsOK DEF Done, Serve
<1>5. CASE /\ Serve(w, [desk[w] EXCEPT !.pc = "candidate", !.n = Len(clawback[d]) + 1])
           /\ \/ {clawback[d][i] : i \in DOMAIN clawback[d]} = {}
              \/ \E c \in {clawback[d][i] : i \in DOMAIN clawback[d]} : ~(c.signal = saw \/ c.ledger = "review")
  <2>1. PICK n \in Nat : n = Len(clawback[d]) + 1
    BY <1>3
  <2>2. PICK r : r = [desk[w] EXCEPT !.pc = "candidate", !.n = n]
    OBVIOUS
  <2>3. r \in DeskStates /\ r.pc = "candidate" /\ r.d = d /\ r.n = n /\ r.saw = saw
    BY <1>1, <1>2, <2>2, DeskIs DEF DeskStates, DeskPcs
  <2>4. n = 1 \/ ByHand(d)
    <3>1. CASE {clawback[d][i] : i \in DOMAIN clawback[d]} = {}
      <4>1. ASSUME NEW i \in 1..Len(clawback[d]) PROVE FALSE
        <5>1. i \in DOMAIN clawback[d]
          BY <1>3
        <5>2. clawback[d][i] \in {clawback[d][j] : j \in DOMAIN clawback[d]}
          BY <5>1
        <5> QED BY <3>1, <5>2
      <4>2. Len(clawback[d]) = 0
        BY <1>3, <4>1
      <4> QED BY <2>1, <4>2
    <3>2. CASE \E c \in {clawback[d][i] : i \in DOMAIN clawback[d]} : ~(c.signal = saw \/ c.ledger = "review")
      <4>1. PICK i \in DOMAIN clawback[d] : clawback[d][i].signal # saw
        BY <3>2
      <4>2. ~Candidate(clawback[d][i])
        BY <1>3, <4>1 DEF DepositInv, DepositKnown
      <4> QED BY <4>1, <4>2 DEF ByHand
    <3> QED BY <1>5, <3>1, <3>2
  <2>5. DeskKnows(r)
    BY <1>3, <2>1, <2>3, <2>4 DEF DeskKnows
  <2>6. desk' = [desk EXCEPT ![w] = r]
    BY <1>5, <2>1, <2>2 DEF Serve
  <2> QED BY <1>3, <2>3, <2>5, <2>6, DeskOnly
<1> QED BY <1>1, <1>2, <1>4, <1>5 DEF proposeClawback

\* A request that writes claw-back rows, and perhaps the deposit's.
LEMMA ClawbackServed ==
    ASSUME DepositInv, NEW w \in Desks, NEW r \in DeskStates, desk' = [desk EXCEPT ![w] = r], r.pc # "invoice",
           NEW d \in Deposits, NEW rows \in Seq(ClawbackRows), clawback' = [clawback EXCEPT ![d] = rows],
           RowsSound(d, rows), UNCHANGED <<invoice, leg, topup>>, NEW x \in DepositRows, deposit' = [deposit EXCEPT ![d] = x],
           deposit[d].status # "none", x.status # "none", x.ledger = "issued" => deposit[d].ledger = "issued",
           DeskKnows(r) \/ DeskKnows(r)'
    PROVE  DepositInv'
<1>1. deposit \in [Deposits -> DepositRows]
  BY DEF DepositInv, DepositTyped
<1>2. deposit' \in [Deposits -> DepositRows] /\ deposit'[d] = x /\ \A e \in Deposits \ {d} : deposit'[e] = deposit[e]
  BY <1>1
<1>3. /\ Onwards /\ clawback' \in [Deposits -> Seq(ClawbackRows)]
      /\ DepositKnown' /\ PointsBacked' /\ OneCandidate'
  <2>1. deposit'[d].status # "none" /\ (deposit'[d].ledger = "issued" => deposit[d].ledger = "issued")
    BY <1>2
  <2>2. \A e \in Deposits \ {d} : deposit'[e] = deposit[e]
    BY <1>2
  <2> QED BY <2>1, <2>2, ClawbackWritten
<1>4. desk' \in [Desks -> DeskStates]
  BY DEF DepositInv, DepositTyped
<1>5. DepositTyped'
  BY <1>2, <1>3, <1>4 DEF DepositInv, DepositTyped
<1>6. DeskKnows(r)'
  BY <1>3, DeskKept DEF DepositInv
<1> QED BY <1>3, <1>5, <1>6, ServeKeeps, NotYetInvoiced

\* A row is added to the claw-backs: a candidate only to none, or after an
\* operator's.
LEMMA RowAdded ==
    ASSUME DepositInv, NEW d \in Deposits, NEW y \in ClawbackRows,
           Candidate(y) => y.signal = invoice[d] /\ Reversed(invoice[d]) /\ (Len(clawback[d]) = 0 \/ ByHand(d))
    PROVE  LET rows == Append(clawback[d], y)
           IN  rows \in Seq(ClawbackRows) /\ Len(rows) = Len(clawback[d]) + 1 /\ RowsSound(d, rows)
<1> DEFINE old == clawback[d]
           rows == Append(old, y)
<1>1. old \in Seq(ClawbackRows) /\ Len(old) \in Nat
  BY DEF DepositInv, DepositTyped
<1>2. /\ rows \in Seq(ClawbackRows) /\ Len(rows) = Len(old) + 1 /\ rows[Len(old) + 1] = y
      /\ \A i \in 1..Len(old) : rows[i] = old[i]
  BY <1>1
<1>3. DOMAIN old = 1..Len(old) /\ DOMAIN rows = 1..(Len(old) + 1)
  BY <1>1, <1>2
<1>4. Len(old) + 1 \in DOMAIN rows /\ \A i \in DOMAIN rows : i = Len(old) + 1 \/ i \in DOMAIN old
  BY <1>1, <1>3
<1>5. DOMAIN old \subseteq DOMAIN rows
  BY <1>1, <1>3
<1>6. ByHand(d) <=> \E i \in DOMAIN old : ~Candidate(old[i])
  BY DEF ByHand
<1>7. \A i \in DOMAIN old : Candidate(old[i]) => old[i].signal = invoice[d] /\ Reversed(invoice[d])
  BY DEF DepositInv, DepositKnown
<1>8. Candidate(y) => y.signal = invoice[d] /\ Reversed(invoice[d]) /\ (Len(old) = 0 \/ ByHand(d))
  OBVIOUS
<1> HIDE DEF old, rows
<1>9. ByHand(d) => \E i \in DOMAIN rows : ~Candidate(rows[i])
  BY <1>2, <1>3, <1>5, <1>6
<1>10. ~Candidate(y) => \E i \in DOMAIN rows : ~Candidate(rows[i])
  BY <1>2, <1>4
<1>11. \A i \in DOMAIN rows : Candidate(rows[i]) => rows[i].signal = invoice[d] /\ Reversed(invoice[d])
  BY <1>2, <1>3, <1>4, <1>7, <1>8
<1>12. Len(rows) <= 1 \/ \E i \in DOMAIN rows : ~Candidate(rows[i])
  BY <1>1, <1>2, <1>8, <1>9, <1>10
<1>13. Len(rows) >= Len(old)
  BY <1>1, <1>2
<1>14. RowsSound(d, rows)
  BY <1>9, <1>11, <1>12, <1>13 DEF RowsSound, old
<1> QED BY <1>2, <1>14 DEF old, rows

\* A row changes its status.
LEMMA RowChanged ==
    ASSUME DepositInv, NEW d \in Deposits, NEW i \in 1..Len(clawback[d]), NEW y \in ClawbackRows,
           y.signal = clawback[d][i].signal
    PROVE  LET rows == [clawback[d] EXCEPT ![i] = y]
           IN  rows \in Seq(ClawbackRows) /\ Len(rows) = Len(clawback[d]) /\ RowsSound(d, rows)
<1> DEFINE old == clawback[d]
           rows == [old EXCEPT ![i] = y]
<1>1. old \in Seq(ClawbackRows) /\ Len(old) \in Nat
  BY DEF DepositInv, DepositTyped
<1>2. DOMAIN rows = DOMAIN old /\ \A j \in DOMAIN old : rows[j] = IF j = i THEN y ELSE old[j]
  OBVIOUS
<1>3. rows \in Seq(ClawbackRows) /\ Len(rows) = Len(old)
  BY <1>1
<1>4. \A j \in DOMAIN old : rows[j].signal = old[j].signal
  BY <1>2
<1>5. \A j \in DOMAIN old : Candidate(rows[j]) <=> Candidate(old[j])
  BY <1>4 DEF Candidate
<1>6. \A j \in DOMAIN old : Candidate(old[j]) => old[j].signal = invoice[d] /\ Reversed(invoice[d])
  BY DEF DepositInv, DepositKnown
<1>7. Len(old) <= 1 \/ \E j \in DOMAIN old : ~Candidate(old[j])
  BY DEF DepositInv, OneCandidate
<1>8. ByHand(d) => \E j \in DOMAIN old : ~Candidate(old[j])
  BY DEF ByHand
<1>9. clawback[d] = old
  OBVIOUS
<1> HIDE DEF old, rows
<1>10. RowsSound(d, rows)
  BY <1>1, <1>2, <1>3, <1>4, <1>5, <1>6, <1>7, <1>8, <1>9 DEF RowsSound
<1> QED BY <1>3, <1>10 DEF old, rows

LEMMA CandidateOK ==
    ASSUME DepositInv, NEW w \in Desks, createCandidate(w)
    PROVE  DepositInv'
<1>1. PICK d \in Deposits : d = desk[w].d
  BY DeskIs DEF createCandidate, At
<1>2. PICK saw \in Invoices \cup LegStates, n \in Nat : saw = desk[w].saw /\ n = desk[w].n
  BY DeskIs
<1>3. desk' = [desk EXCEPT ![w] = Waiting] /\ UNCHANGED <<invoice, deposit, leg, topup, clawed>>
  BY DEF createCandidate, Done, Serve
<1>4. /\ deposit[d].status # "none" /\ invoice[d] = saw /\ Reversed(saw) /\ (n = 1 \/ ByHand(d))
      /\ n <= Len(clawback[d]) + 1
  <2>1. desk[w].pc = "candidate"
    BY DEF createCandidate, At
  <2> QED BY <1>1, <1>2, <2>1, DeskIs DEF DeskKnows
<1>5. CASE UNCHANGED clawback
  BY <1>3, <1>5, EndsOK DEF rail
<1>6. CASE ~RefTaken(d, n) /\ ~UNCHANGED clawback
  <2>1. PICK y : y = [signal |-> saw, status |-> "created", ledger |-> "review", amount |-> Net]
    OBVIOUS
  <2>2. y \in ClawbackRows /\ y.signal = saw
    BY <1>4, <2>1, DepositConstants DEF ClawbackRows, Reversed
  <2>3. Len(clawback[d]) \in Nat
    BY DEF DepositInv, DepositTyped
  <2>4. Len(clawback[d]) = 0 \/ ByHand(d)
    BY <1>4, <1>6, <2>3 DEF RefTaken
  <2>5. PICK rows : rows = Append(clawback[d], y)
    OBVIOUS
  <2>6. rows \in Seq(ClawbackRows) /\ RowsSound(d, rows)
    BY <1>4, <2>2, <2>4, <2>5, RowAdded
  <2>7. clawback' = [clawback EXCEPT ![d] = rows]
    BY <1>1, <1>2, <1>6, <2>1, <2>5 DEF createCandidate
  <2>8. PICK x \in DepositRows : x = deposit[d] /\ deposit' = [deposit EXCEPT ![d] = x]
    BY <1>3 DEF DepositInv, DepositTyped
  <2> QED BY <1>3, <1>4, <2>6, <2>7, <2>8, WaitingIs, ClawbackServed
<1> QED BY <1>1, <1>2, <1>5, <1>6 DEF createCandidate

LEMMA DirectOK ==
    ASSUME DepositInv, NEW w \in Desks, clawbackPointsDirect(w)
    PROVE  DepositInv'
<1>1. PICK d \in Deposits : d = desk[w].d
  BY DeskIs DEF clawbackPointsDirect, At
<1>2. PICK n \in Nat : n = desk[w].n
  BY DeskIs
<1>3. UNCHANGED <<invoice, deposit, leg, topup, clawed>>
  BY DEF clawbackPointsDirect
<1>4. deposit[d].status # "none" /\ n <= Len(clawback[d]) + 1 /\ Len(clawback[d]) \in Nat
  <2>1. desk[w].pc = "directRow"
    BY DEF clawbackPointsDirect, At
  <2> QED BY <1>1, <1>2, <2>1, DeskIs DEF DeskKnows, DepositInv, DepositTyped
<1>5. CASE Done(w) /\ UNCHANGED clawback
  BY <1>3, <1>5, EndsOK DEF rail, Done, Serve
<1>6. ASSUME ~RefTaken(d, n), NEW a \in 1..Net, GoTo(w, "claim"),
             clawback' = [clawback EXCEPT ![d] =
                 Append(@, [signal |-> "none", status |-> "created", ledger |-> "pending", amount |-> a])]
      PROVE  DepositInv'
  <2>1. PICK y : y = [signal |-> "none", status |-> "created", ledger |-> "pending", amount |-> a]
    OBVIOUS
  <2>2. y \in ClawbackRows /\ ~Candidate(y)
    BY <2>1 DEF ClawbackRows, Candidate
  <2>3. PICK rows : rows = Append(clawback[d], y)
    OBVIOUS
  <2>4. rows \in Seq(ClawbackRows) /\ RowsSound(d, rows) /\ Len(rows) = Len(clawback[d]) + 1
    BY <2>2, <2>3, RowAdded
  <2>5. clawback' = [clawback EXCEPT ![d] = rows]
    BY <1>6, <2>1, <2>3
  <2>6. PICK x \in DepositRows : x = deposit[d] /\ deposit' = [deposit EXCEPT ![d] = x]
    BY <1>3 DEF DepositInv, DepositTyped
  <2>7. PICK r : r = [desk[w] EXCEPT !.pc = "claim"]
    OBVIOUS
  <2>8. r \in DeskStates /\ r.pc = "claim" /\ r.d = d /\ r.n = n
    BY <1>1, <1>2, <2>7, DeskIs DEF DeskStates, DeskPcs
  <2>9. n \in 1..Len(rows) /\ clawback'[d] = rows /\ deposit'[d].status # "none"
    <3>1. n > Len(clawback[d])
      BY <1>4, <1>6 DEF RefTaken
    <3>2. clawback'[d] = rows
      BY <2>5 DEF DepositInv, DepositTyped
    <3> QED BY <1>3, <1>4, <2>4, <3>1, <3>2
  <2>10. DeskKnows(r)'
    BY <2>8, <2>9 DEF DeskKnows
  <2>11. desk' = [desk EXCEPT ![w] = r]
    BY <1>6, <2>7 DEF GoTo, Serve
  <2> QED BY <1>3, <1>4, <2>4, <2>5, <2>6, <2>8, <2>10, <2>11, ClawbackServed
<1> QED BY <1>1, <1>2, <1>5, <1>6 DEF clawbackPointsDirect

\* A request that changes a claw-back row and nothing else of it.
LEMMA RowServed ==
    ASSUME DepositInv, NEW w \in Desks, NEW r \in DeskStates, desk' = [desk EXCEPT ![w] = r], r.pc # "invoice",
           NEW d \in Deposits, NEW i \in 1..Len(clawback[d]), NEW y \in ClawbackRows,
           y.signal = clawback[d][i].signal, clawback'[d] = [clawback[d] EXCEPT ![i] = y],
           clawback' = [clawback EXCEPT ![d] = clawback'[d]],
           UNCHANGED <<invoice, leg, topup>>, NEW x \in DepositRows, deposit' = [deposit EXCEPT ![d] = x],
           deposit[d].status # "none", x.status # "none", x.ledger = "issued" => deposit[d].ledger = "issued",
           DeskKnows(r)
    PROVE  DepositInv'
<1>1. PICK rows : rows = [clawback[d] EXCEPT ![i] = y]
  OBVIOUS
<1>2. rows \in Seq(ClawbackRows) /\ RowsSound(d, rows)
  BY <1>1, RowChanged
<1>3. clawback' = [clawback EXCEPT ![d] = rows]
  BY <1>1
<1> QED BY <1>2, <1>3, ClawbackServed

LEMMA ClaimOK ==
    ASSUME DepositInv, NEW w \in Desks, claimClawback(w)
    PROVE  DepositInv'
<1>1. PICK d \in Deposits : d = desk[w].d
  BY DeskIs DEF claimClawback, At
<1>2. PICK i : i = desk[w].n
  OBVIOUS
<1>3. UNCHANGED <<invoice, deposit, leg, topup, clawed>> /\ desk[w].pc = "claim"
  BY DEF claimClawback, At
<1>4. deposit[d].status # "none" /\ i \in 1..Len(clawback[d])
  BY <1>1, <1>2, <1>3, DeskIs DEF DeskKnows
<1>5. CASE Done(w) /\ UNCHANGED clawback
  BY <1>3, <1>5, EndsOK DEF rail, Done, Serve
<1>6. CASE clawback' = [clawback EXCEPT ![d][i].status = "processing"] /\ GoTo(w, "debit")
  <2>1. clawback \in [Deposits -> Seq(ClawbackRows)] /\ clawback[d][i] \in ClawbackRows
    BY <1>4 DEF DepositInv, DepositTyped
  <2>2. PICK y : y = [clawback[d][i] EXCEPT !.status = "processing"]
    OBVIOUS
  <2>3. y \in ClawbackRows /\ y.signal = clawback[d][i].signal
    BY <2>1, <2>2 DEF ClawbackRows
  <2>4. clawback'[d] = [clawback[d] EXCEPT ![i] = y] /\ clawback' = [clawback EXCEPT ![d] = clawback'[d]]
    BY <1>6, <2>1, <2>2
  <2>5. PICK x \in DepositRows : x = deposit[d] /\ deposit' = [deposit EXCEPT ![d] = x]
    BY <1>3 DEF DepositInv, DepositTyped
  <2>6. PICK r : r = [desk[w] EXCEPT !.pc = "debit"]
    OBVIOUS
  <2>7. r \in DeskStates /\ r.pc = "debit" /\ r.d = d /\ r.n = i
    BY <1>1, <1>2, <2>6, DeskIs DEF DeskStates, DeskPcs
  <2>8. DeskKnows(r)
    BY <1>4, <2>7 DEF DeskKnows
  <2>9. desk' = [desk EXCEPT ![w] = r]
    BY <1>6, <2>6 DEF GoTo, Serve
  <2>10. r.pc # "invoice" /\ x.status # "none" /\ (x.ledger = "issued" => deposit[d].ledger = "issued")
    BY <1>4, <2>5, <2>7
  <2>11. r \in DeskStates /\ deposit' = [deposit EXCEPT ![d] = x] /\ UNCHANGED <<invoice, leg, topup>>
    BY <1>3, <2>5, <2>7
  <2> QED BY <1>4, <2>3, <2>4, <2>8, <2>9, <2>10, <2>11, RowServed, ZenonT(60)
<1> QED BY <1>1, <1>2, <1>5, <1>6 DEF claimClawback

LEMMA DebitOK ==
    ASSUME DepositInv, NEW w \in Desks, debitClawback(w)
    PROVE  DepositInv'
<1>1. PICK d \in Deposits : d = desk[w].d
  BY DeskIs DEF debitClawback, At
<1>2. PICK i : i = desk[w].n
  OBVIOUS
<1>3. UNCHANGED <<invoice, leg, topup>> /\ desk[w].pc = "debit" /\ desk' = [desk EXCEPT ![w] = Waiting]
  BY DEF debitClawback, At, Done, Serve
<1>4. deposit[d].status # "none" /\ i \in 1..Len(clawback[d])
  BY <1>1, <1>2, <1>3, DeskIs DEF DeskKnows
<1>5. clawback \in [Deposits -> Seq(ClawbackRows)] /\ clawback[d][i] \in ClawbackRows
  BY <1>4 DEF DepositInv, DepositTyped
<1>6. ASSUME NEW y \in ClawbackRows, y.signal = clawback[d][i].signal,
             clawback' = [clawback EXCEPT ![d] = [clawback[d] EXCEPT ![i] = y]],
             NEW x \in DepositRows, deposit' = [deposit EXCEPT ![d] = x], x.status # "none",
             x.ledger = "issued" => deposit[d].ledger = "issued"
      PROVE  DepositInv'
  <2>1. clawback'[d] = [clawback[d] EXCEPT ![i] = y] /\ clawback' = [clawback EXCEPT ![d] = clawback'[d]]
    BY <1>5, <1>6
  <2> QED BY <1>3, <1>4, <1>6, <2>1, WaitingIs, RowServed
<1>7. ASSUME NEW s \in {"settled", "processing"},
             clawback' = [clawback EXCEPT ![d][i].status = s, ![d][i].ledger = IF s = "settled" THEN "issued" ELSE s],
             deposit' = [deposit EXCEPT ![d].ledger = IF Recovered(d, i) >= Net THEN "clawed_back" ELSE "partial"]
      PROVE  DepositInv'
  <2>1. PICK k \in {"issued", "processing"} : k = IF s = "settled" THEN "issued" ELSE s
    OBVIOUS
  <2>2. PICK y : y = [clawback[d][i] EXCEPT !.status = s, !.ledger = k]
    OBVIOUS
  <2>3. y \in ClawbackRows /\ y.signal = clawback[d][i].signal
    BY <1>5, <2>2 DEF ClawbackRows
  <2>4. clawback' = [clawback EXCEPT ![d] = [clawback[d] EXCEPT ![i] = y]]
    BY <1>5, <1>7, <2>1, <2>2
  <2>5. PICK x \in DepositRows : /\ deposit' = [deposit EXCEPT ![d] = x] /\ x.status # "none"
                                 /\ x.ledger \in {"clawed_back", "partial"}
    <3>1. CASE deposit' = [deposit EXCEPT ![d].ledger = "clawed_back"]
      BY <1>4, <3>1, LedgerSet
    <3>2. CASE deposit' = [deposit EXCEPT ![d].ledger = "partial"]
      BY <1>4, <3>2, LedgerSet
    <3> QED BY <1>7, <3>1, <3>2
  <2> QED BY <1>6, <2>3, <2>4, <2>5
<1>8. CASE clawback' = [clawback EXCEPT ![d][i].status = "failed"] /\ UNCHANGED deposit
  <2>1. PICK y : y = [clawback[d][i] EXCEPT !.status = "failed"]
    OBVIOUS
  <2>2. y \in ClawbackRows /\ y.signal = clawback[d][i].signal
    BY <1>5, <2>1 DEF ClawbackRows
  <2>3. clawback' = [clawback EXCEPT ![d] = [clawback[d] EXCEPT ![i] = y]]
    BY <1>5, <1>8, <2>1
  <2>4. PICK x \in DepositRows : x = deposit[d] /\ deposit' = [deposit EXCEPT ![d] = x]
    BY <1>8 DEF DepositInv, DepositTyped
  <2> QED BY <1>4, <1>6, <2>2, <2>3, <2>4
<1> QED BY <1>1, <1>2, <1>7, <1>8 DEF debitClawback

LEMMA DepositStart == DepositInit => DepositInv
<1> SUFFICES ASSUME DepositInit PROVE DepositInv
  OBVIOUS
<1>1. NoDepositRow \in DepositRows
  BY DEF NoDepositRow, DepositRows
<1>2. DepositTyped
  BY <1>1, WaitingIs DEF DepositInit, DepositTyped, Invoices, LegStates, TopupStates, Legs
<1>3. \A w \in Desks : desk[w] = Waiting
  BY DEF DepositInit
<1>4. DepositKnown
  BY DEF DepositInit, DepositKnown
<1>5. OneCreator /\ \A w \in Desks : DeskKnows(desk[w])
  BY <1>3, WaitingIs DEF OneCreator
<1>6. PointsBacked
  BY DEF DepositInit, PointsBacked, NoDepositRow
<1>7. OneCandidate
  BY DEF DepositInit, OneCandidate
<1> QED BY <1>2, <1>4, <1>5, <1>6, <1>7 DEF DepositInv

LEMMA DepositStill == DepositInv /\ UNCHANGED depositVars => DepositInv'
<1> SUFFICES ASSUME DepositInv, UNCHANGED depositVars PROVE DepositInv'
  OBVIOUS
<1>1. UNCHANGED <<invoice, deposit, leg, topup, clawback, desk>>
  BY DEF depositVars
<1>2. DepositTyped' /\ DepositKnown' /\ OneCreator' /\ PointsBacked' /\ OneCandidate'
  BY <1>1 DEF DepositInv, DepositTyped, DepositKnown, OneCreator, PointsBacked, OneCandidate
<1>3. Onwards
  BY <1>1, NothingMoved DEF DepositInv
<1> QED BY <1>1, <1>2, <1>3, NoneServes, NotYetInvoiced

LEMMA DepositSteps == DepositInv /\ DepositNext => DepositInv'
<1> SUFFICES ASSUME DepositInv, DepositNext PROVE DepositInv'
  OBVIOUS
<1>1. ASSUME NEW d \in Deposits, OrderMoves(d) \/ \E l \in Legs : TopupEnds(d, l) PROVE DepositInv'
  BY <1>1, OrderMovesOK, TopupEndsOK
<1>2. ASSUME NEW w \in Desks,
             \/ createPayment(w) \/ writeCancelled(w)
             \/ syncLegacyDeposit(w) \/ applyAnswer(w) \/ issuePointsForDeposit(w) \/ verifyOrder(w)
             \/ startLeg(w) \/ pointTopup(w) \/ adoptLeg(w) \/ afterLeg(w)
             \/ proposeClawback(w) \/ createCandidate(w) \/ clawbackPointsDirect(w) \/ takeLock(w)
             \/ claimClawback(w) \/ debitClawback(w) \/ CrashDesk(w)
      PROVE  DepositInv'
  BY <1>2, CreatePaymentOK, StatusOK, ApplyOK, IssueOK, VerifyOK, StartLegOK, PointTopupOK, AdoptLegOK, AfterLegOK,
     ProposeOK, CandidateOK, DirectOK, ClaimOK, DebitOK
<1>3. ASSUME NEW w \in Desks, NEW d \in Deposits,
             \/ createCheckoutDeposit(w, d) \/ cancelTx(w, d) \/ webhookClosed(w, d)
             \/ completeIssuance(w, d) \/ clawbackPoints(w, d)
             \/ \E via \in {"sync", "webhook", "reconcile"} : look(w, d, via)
             \/ \E l \in Legs : syncLeg(w, d, l)
             \/ \E i \in DOMAIN clawback[d] : approveClawback(w, d, i)
      PROVE  DepositInv'
  BY <1>3, CreateDepositOK, ReadsOK, SyncLegOK
<1> QED BY <1>1, <1>2, <1>3 DEF DepositNext

\* What a webhook, a poll or the reconciler knows of a deposit it took from
\* DOKU, whichever instance it runs on, and one request creates each row.
THEOREM DepositInvariance == DepositSpec => []DepositInv
<1>1. DepositInit => DepositInv
  BY DepositStart
<1>2. DepositInv /\ [DepositNext]_depositVars => DepositInv'
  BY DepositStill, DepositSteps
<1> QED BY <1>1, <1>2, PTL DEF DepositSpec

---------------------------------------------------------------------------
\* Transfers

TransferStates == {"none", "created", "processing", "settled", "failed", "cancelled"}
Movements == {"none", "processing", "settled", "failed"}
TransferRows == [status: TransferStates, ref: BOOLEAN, claim: BOOLEAN]
ClerkPcs == {"idle", "register", "inquire", "claim", "pay", "fail", "submitted", "status", "adopt", "mirror", "fee",
             "feeMark", "end", "sweepStatus", "ensure", "backfill", "release", "reinquire", "cancel", "sync"}
ClerkStates == [pc: ClerkPcs, t: Transfers \cup {NoTransfer}, ref: BOOLEAN, saw: TransferStates, fee: Movements,
                sweep: BOOLEAN]

TransferTyped ==
    /\ transfer \in [Transfers -> TransferRows]
    /\ mirror \in [Transfers \X MirrorRefs -> TransferStates]
    /\ feeRow \in [Transfers -> TransferStates]
    /\ moved \in [Transfers -> Movements]
    /\ feeMoved \in [Transfers -> Movements]

\* A settlement a request has seen is one DOKU made.
ClerkKnows(r) ==
    /\ r.pc \notin {"idle", "register"} => r.t \in Transfers
    /\ r.saw = "settled" => r.t \in Transfers /\ moved[r.t] = "settled"
    /\ r.fee = "settled" => r.t \in Transfers /\ feeMoved[r.t] = "settled"

TransferInv ==
    /\ TransferTyped /\ clerk \in [Clerks -> ClerkStates] /\ MirrorsBacked
    /\ \A c \in Clerks : ClerkKnows(clerk[c])

\* What DOKU settled stays settled.
SettledForGood ==
    \A t \in Transfers : /\ moved[t] = "settled" => moved'[t] = "settled"
                         /\ feeMoved[t] = "settled" => feeMoved'[t] = "settled"

LEMMA ClerkKept ==
    ASSUME SettledForGood, NEW r, ClerkKnows(r)
    PROVE  ClerkKnows(r)'
BY DEF SettledForGood, ClerkKnows

LEMMA ClerkServed ==
    ASSUME TransferInv, SettledForGood, NEW c \in Clerks, NEW r \in ClerkStates, clerk' = [clerk EXCEPT ![c] = r],
           ClerkKnows(r) \/ ClerkKnows(r)', TransferTyped', MirrorsBacked'
    PROVE  TransferInv'
<1>1. clerk \in [Clerks -> ClerkStates]
  BY DEF TransferInv
<1>2. clerk' \in [Clerks -> ClerkStates] /\ clerk'[c] = r /\ \A v \in Clerks \ {c} : clerk'[v] = clerk[v]
  BY <1>1
<1>3. ASSUME NEW v \in Clerks PROVE ClerkKnows(clerk[v])'
  <2>1. PICK s : s = clerk'[v]
    OBVIOUS
  <2>2. ClerkKnows(s) \/ ClerkKnows(s)'
    BY <1>2, <2>1 DEF TransferInv
  <2>3. ClerkKnows(s)'
    BY <2>2, ClerkKept
  <2> QED BY <2>1, <2>3 DEF ClerkKnows
<1> QED BY <1>2, <1>3 DEF TransferInv

\* A request that writes rows, and moves nothing.
LEMMA RowsServed ==
    ASSUME TransferInv, NEW c \in Clerks, NEW r \in ClerkStates, clerk' = [clerk EXCEPT ![c] = r],
           ClerkKnows(r), UNCHANGED <<moved, feeMoved>>, TransferTyped', MirrorsBacked'
    PROVE  TransferInv'
BY ClerkServed DEF SettledForGood

LEMMA ClerkOnly ==
    ASSUME TransferInv, NEW c \in Clerks, NEW r \in ClerkStates, clerk' = [clerk EXCEPT ![c] = r], ClerkKnows(r),
           UNCHANGED <<transfer, mirror, feeRow, moved, feeMoved>>
    PROVE  TransferInv'
<1>1. TransferTyped' /\ MirrorsBacked'
  BY DEF TransferInv, TransferTyped, MirrorsBacked
<1> QED BY <1>1, RowsServed

\* A transfer row is marked with what is so at DOKU.
LEMMA Marked ==
    ASSUME TransferInv, NEW t \in Transfers, NEW x \in TransferRows, transfer' = [transfer EXCEPT ![t] = x],
           x.status = "settled" => moved[t] = "settled", UNCHANGED <<mirror, feeRow, moved, feeMoved>>
    PROVE  TransferTyped' /\ MirrorsBacked'
BY DEF TransferInv, TransferTyped, MirrorsBacked

LEMMA MarkServed ==
    ASSUME TransferInv, NEW c \in Clerks, NEW r \in ClerkStates, clerk' = [clerk EXCEPT ![c] = r], ClerkKnows(r),
           NEW t \in Transfers, NEW s \in TransferStates, NEW b \in BOOLEAN, markTx(t, s, b),
           s = "settled" => moved[t] = "settled", UNCHANGED <<mirror, feeRow, moved, feeMoved>>
    PROVE  TransferInv'
<1>1. PICK x : x = [status |-> s, ref |-> b, claim |-> FALSE]
  OBVIOUS
<1>2. x \in TransferRows /\ x.status = s
  BY <1>1 DEF TransferRows
<1>3. transfer' = [transfer EXCEPT ![t] = x]
  BY <1>1 DEF markTx
<1>4. TransferTyped' /\ MirrorsBacked'
  BY <1>2, <1>3, Marked
<1> QED BY <1>4, RowsServed

LEMMA ClerkIs ==
    ASSUME TransferInv, NEW c \in Clerks
    PROVE  clerk[c] \in ClerkStates /\ ClerkKnows(clerk[c]) /\ clerk[c].saw \in TransferStates /\ clerk[c].ref \in BOOLEAN
BY DEF TransferInv, ClerkStates

LEMMA FreeIs == Free \in ClerkStates /\ ClerkKnows(Free)
BY DEF Free, ClerkStates, ClerkPcs, TransferStates, Movements, ClerkKnows

\* A request that goes on with what it knows.
LEMMA ThenIs ==
    ASSUME TransferInv, NEW c \in Clerks, clerk[c].t \in Transfers, NEW pc \in ClerkPcs,
           NEW r, r = [clerk[c] EXCEPT !.pc = pc]
    PROVE  r \in ClerkStates /\ ClerkKnows(r) /\ r.pc = pc /\ r.t = clerk[c].t /\ r.saw = clerk[c].saw
<1>1. /\ r \in ClerkStates /\ r.pc = pc /\ r.t = clerk[c].t
      /\ r.saw = clerk[c].saw /\ r.fee = clerk[c].fee
  BY ClerkIs DEF ClerkStates
<1> QED BY <1>1, ClerkIs DEF ClerkKnows

---------------------------------------------------------------------------

LEMMA AccountsOK ==
    ASSUME TransferInv,
           \/ linkProfile
           \/ \E c \in Clerks : registerAccount(c) \/ registerAnswer(c)
    PROVE  TransferInv'
<1>1. UNCHANGED <<transfer, mirror, feeRow, moved, feeMoved>>
  BY DEF linkProfile, registerAccount, registerAnswer
<1>2. CASE UNCHANGED clerk
  BY <1>1, <1>2 DEF TransferInv, TransferTyped, MirrorsBacked, ClerkKnows
<1>3. ASSUME NEW c \in Clerks, registerAccount(c) PROVE TransferInv'
  <2>1. PICK r : r = [clerk[c] EXCEPT !.pc = "register"]
    OBVIOUS
  <2>2. r \in ClerkStates /\ r.pc = "register" /\ r.t = clerk[c].t /\ r.saw = clerk[c].saw /\ r.fee = clerk[c].fee
    BY <2>1, ClerkIs DEF ClerkStates, ClerkPcs
  <2>3. ClerkKnows(r)
    BY <2>2, ClerkIs DEF ClerkKnows
  <2>4. clerk' = [clerk EXCEPT ![c] = r]
    BY <1>3, <2>1 DEF registerAccount, Then, Hand
  <2> QED BY <1>1, <2>2, <2>3, <2>4, ClerkOnly
<1>4. ASSUME NEW c \in Clerks, registerAnswer(c) PROVE TransferInv'
  <2>1. clerk' = [clerk EXCEPT ![c] = Free]
    BY <1>4 DEF registerAnswer, Leave, Hand
  <2> QED BY <1>1, <2>1, FreeIs, ClerkOnly
<1> QED BY <1>2, <1>3, <1>4 DEF linkProfile

\* The handlers that take up a request.
LEMMA TakesUpOK ==
    ASSUME TransferInv, NEW c \in Clerks, NEW t \in Transfers,
           \/ transferConfirm(c, t) \/ retryTransfer(c, t) \/ cancelTransfer(c, t) \/ syncTransfer(c, t)
           \/ adminSweep(c, t) \/ adminBackfillMirrors(c, t)
    PROVE  TransferInv'
<1>1. UNCHANGED <<transfer, mirror, feeRow, moved, feeMoved>>
  BY DEF transferConfirm, retryTransfer, cancelTransfer, syncTransfer, adminSweep, adminBackfillMirrors, books
<1>2. transfer[t] \in TransferRows /\ moved[t] \in Movements /\ (transfer[t].status = "settled" => moved[t] = "settled")
  BY DEF TransferInv, TransferTyped, MirrorsBacked
<1>3. ASSUME NEW r \in ClerkStates, r.t = t, r.saw = "settled" => moved[t] = "settled", r.fee = "none",
             clerk' = [clerk EXCEPT ![c] = r]
      PROVE  TransferInv'
  <2>1. ClerkKnows(r)
    BY <1>3 DEF ClerkKnows
  <2> QED BY <1>1, <1>3, <2>1, ClerkOnly
<1>4. CASE transferConfirm(c, t)
  <2>1. PICK r : r = [Free EXCEPT !.pc = "claim", !.t = t, !.ref = transfer[t].ref]
    OBVIOUS
  <2>2. r \in ClerkStates /\ r.t = t /\ r.saw = "none" /\ r.fee = "none"
    BY <1>2, <2>1 DEF Free, ClerkStates, ClerkPcs, TransferStates, Movements, TransferRows
  <2> QED BY <1>3, <1>4, <2>1, <2>2 DEF transferConfirm, Hand
<1>5. CASE retryTransfer(c, t) \/ cancelTransfer(c, t) \/ adminBackfillMirrors(c, t)
  <2>1. PICK pc \in {"release", "reinquire", "cancel", "ensure"} : clerk' = [clerk EXCEPT ![c] = [Free EXCEPT !.pc = pc, !.t = t]]
    BY <1>5 DEF retryTransfer, cancelTransfer, adminBackfillMirrors, Hand
  <2>2. PICK r : r = [Free EXCEPT !.pc = pc, !.t = t]
    OBVIOUS
  <2>3. r \in ClerkStates /\ r.t = t /\ r.saw = "none" /\ r.fee = "none"
    BY <2>2 DEF Free, ClerkStates, ClerkPcs, TransferStates, Movements
  <2> QED BY <1>3, <2>1, <2>2, <2>3
<1>6. CASE syncTransfer(c, t)
  <2>1. PICK r : r = [Free EXCEPT !.pc = "sync", !.t = t, !.saw = moved[t]]
    OBVIOUS
  <2>2. r \in ClerkStates /\ r.t = t /\ r.saw = moved[t] /\ r.fee = "none"
    BY <1>2, <2>1 DEF Free, ClerkStates, ClerkPcs, TransferStates, Movements
  <2> QED BY <1>3, <1>6, <2>1, <2>2 DEF syncTransfer, Hand
<1>7. CASE adminSweep(c, t)
  <2>1. PICK r : r = [Free EXCEPT !.pc = "fee", !.t = t, !.sweep = TRUE, !.saw = transfer[t].status]
    OBVIOUS
  <2>2. r \in ClerkStates /\ r.t = t /\ r.saw = transfer[t].status /\ r.fee = "none"
    BY <1>2, <2>1 DEF Free, ClerkStates, ClerkPcs, TransferStates, Movements, TransferRows
  <2> QED BY <1>2, <1>3, <1>7, <2>1, <2>2 DEF adminSweep, Hand
<1> QED BY <1>4, <1>5, <1>6, <1>7

LEMMA InquiryOK ==
    ASSUME TransferInv, NEW c \in Clerks, NEW t \in Transfers, transferInquiry(c, t)
    PROVE  TransferInv'
<1>1. PICK r : r = [Free EXCEPT !.pc = "inquire", !.t = t]
  OBVIOUS
<1>2. r \in ClerkStates /\ ClerkKnows(r)
  BY <1>1 DEF Free, ClerkStates, ClerkPcs, TransferStates, Movements, ClerkKnows
<1>3. clerk' = [clerk EXCEPT ![c] = r] /\ markTx(t, "created", FALSE) /\ UNCHANGED <<mirror, feeRow, moved, feeMoved>>
  BY <1>1 DEF transferInquiry, Hand
<1>4. "created" \in TransferStates
  BY DEF TransferStates
<1> QED BY <1>2, <1>3, <1>4, MarkServed

\* The handlers that end with the row marked.
LEMMA EndsMarkedOK ==
    ASSUME TransferInv, NEW c \in Clerks,
           \/ inquiryAnswer(c) \/ failTransfer(c) \/ reinquire(c) \/ writeCancel(c) \/ writeSync(c) \/ CrashClerk(c)
    PROVE  TransferInv'
<1>1. clerk' = [clerk EXCEPT ![c] = Free] /\ UNCHANGED <<mirror, feeRow, moved, feeMoved>>
  BY DEF inquiryAnswer, failTransfer, reinquire, writeCancel, writeSync, CrashClerk, Leave, Hand, books
<1>2. CASE UNCHANGED transfer
  BY <1>1, <1>2, FreeIs, ClerkOnly
<1>3. CASE ~UNCHANGED transfer
  <2>1. clerk[c].t \in Transfers
    BY <1>3, ClerkIs
       DEF ClerkKnows, inquiryAnswer, failTransfer, reinquire, writeCancel, writeSync, CrashClerk, In, books
  <2>2. PICK t \in Transfers : t = clerk[c].t
    BY <2>1
  <2>3. PICK saw \in TransferStates : saw = clerk[c].saw
    BY ClerkIs
  <2>4. {"created", "failed", "cancelled"} \subseteq TransferStates
    BY DEF TransferStates
  <2>5. saw = "settled" => moved[t] = "settled"
    BY <2>2, <2>3, ClerkIs DEF ClerkKnows
  <2>6. \/ markTx(t, "created", TRUE) \/ markTx(t, "failed", FALSE) \/ markTx(t, "cancelled", FALSE)
        \/ markTx(t, saw, TRUE)
    BY <1>3, <2>2, <2>3 DEF inquiryAnswer, failTransfer, reinquire, writeCancel, writeSync, CrashClerk, books
  <2> QED BY <1>1, <2>4, <2>5, <2>6, FreeIs, MarkServed
<1> QED BY <1>2, <1>3

LEMMA ClaimTransferOK ==
    ASSUME TransferInv, NEW c \in Clerks, claimTransfer(c)
    PROVE  TransferInv'
<1>1. PICK t \in Transfers : t = clerk[c].t
  BY ClerkIs DEF ClerkKnows, claimTransfer, In
<1>2. UNCHANGED <<mirror, feeRow, moved, feeMoved>>
  BY DEF claimTransfer
<1>3. PICK r \in ClerkStates : clerk' = [clerk EXCEPT ![c] = r] /\ ClerkKnows(r)
  <2>1. CASE clerk' = [clerk EXCEPT ![c] = Free]
    BY <2>1, FreeIs
  <2>2. CASE Then(c, "pay")
    <3>1. PICK r : r = [clerk[c] EXCEPT !.pc = "pay"]
      OBVIOUS
    <3>2. r \in ClerkStates /\ ClerkKnows(r)
      BY <1>1, <3>1, ThenIs DEF ClerkPcs
    <3> QED BY <2>2, <3>1, <3>2 DEF Then, Hand
  <2> QED BY <2>1, <2>2 DEF claimTransfer, Leave, Hand
<1>4. CASE UNCHANGED transfer
  BY <1>2, <1>3, <1>4, ClerkOnly
<1>5. CASE transfer' = [transfer EXCEPT ![t] = [status |-> "processing", ref |-> clerk[c].ref, claim |-> TRUE]]
  <2>1. PICK x : x = [status |-> "processing", ref |-> clerk[c].ref, claim |-> TRUE]
    OBVIOUS
  <2>2. x \in TransferRows /\ x.status = "processing"
    BY <2>1, ClerkIs DEF TransferRows, TransferStates
  <2>3. TransferTyped' /\ MirrorsBacked'
    BY <1>2, <1>5, <2>1, <2>2, Marked
  <2> QED BY <1>2, <1>3, <2>3, RowsServed
<1> QED BY <1>1, <1>4, <1>5 DEF claimTransfer

\* DOKU moves what it had not.
LEMMA MovesOK ==
    ASSUME TransferInv, NEW t \in Transfers, NEW s \in Movements,
           \/ moved[t] # "settled" /\ moved' = [moved EXCEPT ![t] = s] /\ UNCHANGED feeMoved
           \/ feeMoved[t] # "settled" /\ feeMoved' = [feeMoved EXCEPT ![t] = s] /\ UNCHANGED moved,
           UNCHANGED <<transfer, mirror, feeRow>>
    PROVE  SettledForGood /\ TransferTyped' /\ MirrorsBacked'
<1>1. moved \in [Transfers -> Movements] /\ feeMoved \in [Transfers -> Movements]
  BY DEF TransferInv, TransferTyped
<1>2. moved' \in [Transfers -> Movements] /\ feeMoved' \in [Transfers -> Movements] /\ SettledForGood
  BY <1>1 DEF SettledForGood
<1>3. TransferTyped'
  BY <1>2 DEF TransferInv, TransferTyped
<1>4. MirrorsBacked'
  BY <1>2 DEF TransferInv, MirrorsBacked, SettledForGood
<1> QED BY <1>2, <1>3, <1>4

LEMMA PayTransferOK ==
    ASSUME TransferInv, NEW c \in Clerks, payTransfer(c)
    PROVE  TransferInv'
<1>1. PICK t \in Transfers : t = clerk[c].t
  BY ClerkIs DEF ClerkKnows, payTransfer, In
<1>2. UNCHANGED <<transfer, mirror, feeRow, feeMoved>>
  BY DEF payTransfer
<1>3. PICK pc \in {"submitted", "fail"} : Then(c, pc)
  BY DEF payTransfer
<1>4. PICK r : r = [clerk[c] EXCEPT !.pc = pc]
  OBVIOUS
<1>5. r \in ClerkStates /\ ClerkKnows(r) /\ clerk' = [clerk EXCEPT ![c] = r]
  BY <1>1, <1>3, <1>4, ThenIs DEF ClerkPcs, Then, Hand
<1>6. CASE UNCHANGED moved
  BY <1>2, <1>5, <1>6, ClerkOnly
<1>7. ASSUME NEW s \in {"processing", "settled"}, moved[t] = "none", moved' = [moved EXCEPT ![t] = s] PROVE TransferInv'
  <2>1. SettledForGood /\ TransferTyped' /\ MirrorsBacked'
    BY <1>2, <1>7, MovesOK DEF Movements
  <2> QED BY <1>5, <2>1, ClerkServed
<1> QED BY <1>1, <1>6, <1>7 DEF payTransfer

LEMMA MovementEndsOK ==
    ASSUME TransferInv, NEW t \in Transfers, MovementEnds(t)
    PROVE  TransferInv'
<1>1. PICK s \in Movements :
          \/ moved[t] # "settled" /\ moved' = [moved EXCEPT ![t] = s] /\ UNCHANGED feeMoved
          \/ feeMoved[t] # "settled" /\ feeMoved' = [feeMoved EXCEPT ![t] = s] /\ UNCHANGED moved
  BY DEF MovementEnds, Movements
<1>2. UNCHANGED <<transfer, mirror, feeRow, clerk>>
  BY DEF MovementEnds
<1>3. SettledForGood /\ TransferTyped' /\ MirrorsBacked'
  BY <1>1, <1>2, MovesOK
<1>4. ASSUME NEW c \in Clerks PROVE ClerkKnows(clerk[c])'
  <2>1. PICK r : r = clerk[c]
    OBVIOUS
  <2>2. ClerkKnows(r)'
    BY <1>3, <2>1, ClerkIs, ClerkKept
  <2> QED BY <1>2, <2>1, <2>2 DEF ClerkKnows
<1> QED BY <1>2, <1>3, <1>4 DEF TransferInv

\* The handlers that write their row and go on.
LEMMA GoesOnMarkedOK ==
    ASSUME TransferInv, NEW c \in Clerks, submitted(c) \/ adoptStatus(c) \/ endConfirm(c) \/ releaseClaim(c)
    PROVE  TransferInv'
<1>1. PICK t \in Transfers : t = clerk[c].t
  BY ClerkIs DEF ClerkKnows, submitted, adoptStatus, endConfirm, releaseClaim, In
<1>2. PICK saw \in TransferStates : saw = clerk[c].saw
  BY ClerkIs
<1>3. UNCHANGED <<mirror, feeRow, moved, feeMoved>>
  BY DEF submitted, adoptStatus, endConfirm, releaseClaim
<1>4. PICK r \in ClerkStates : clerk' = [clerk EXCEPT ![c] = r] /\ ClerkKnows(r)
  <2>1. CASE Leave(c)
    BY <2>1, FreeIs DEF Leave, Hand
  <2>2. ASSUME NEW pc \in {"status", "mirror", "sweepStatus", "reinquire"}, Then(c, pc)
        PROVE  \E r \in ClerkStates : clerk' = [clerk EXCEPT ![c] = r] /\ ClerkKnows(r)
    <3>1. PICK r : r = [clerk[c] EXCEPT !.pc = pc]
      OBVIOUS
    <3>2. r \in ClerkStates /\ ClerkKnows(r)
      BY <1>1, <3>1, ThenIs DEF ClerkPcs
    <3> QED BY <2>2, <3>1, <3>2 DEF Then, Hand
  <2> QED BY <2>1, <2>2 DEF submitted, adoptStatus, endConfirm, releaseClaim
<1>5. CASE UNCHANGED transfer
  BY <1>3, <1>4, <1>5, ClerkOnly
<1>6. CASE markTx(t, "processing", TRUE) \/ markTx(t, "created", FALSE) \/ markTx(t, saw, TRUE)
  <2>1. {"processing", "created"} \subseteq TransferStates /\ (saw = "settled" => moved[t] = "settled")
    BY <1>1, <1>2, ClerkIs DEF TransferStates, ClerkKnows
  <2> QED BY <1>3, <1>4, <1>6, <2>1, MarkServed
<1> QED BY <1>1, <1>2, <1>5, <1>6 DEF submitted, adoptStatus, endConfirm, releaseClaim

LEMMA AskStatusOK ==
    ASSUME TransferInv, NEW c \in Clerks, askStatus(c)
    PROVE  TransferInv'
<1>1. PICK t \in Transfers : t = clerk[c].t
  BY ClerkIs DEF ClerkKnows, askStatus, In
<1>2. PICK saw \in {moved[t], "processing"} : clerk' = [clerk EXCEPT ![c] = [clerk[c] EXCEPT !.pc = "adopt", !.saw = saw]]
  BY <1>1 DEF askStatus, Hand
<1>3. PICK r : r = [clerk[c] EXCEPT !.pc = "adopt", !.saw = saw]
  OBVIOUS
<1>4. saw \in TransferStates
  BY <1>2 DEF TransferInv, TransferTyped, TransferStates, Movements
<1>5. r \in ClerkStates /\ r.t = t /\ r.saw = saw /\ r.fee = clerk[c].fee
  BY <1>1, <1>3, <1>4, ClerkIs DEF ClerkStates, ClerkPcs
<1>6. ClerkKnows(r)
  BY <1>1, <1>2, <1>5, ClerkIs DEF ClerkKnows
<1>7. UNCHANGED <<transfer, mirror, feeRow, moved, feeMoved>>
  BY DEF askStatus, books
<1> QED BY <1>2, <1>3, <1>5, <1>6, <1>7, ClerkOnly

\* A mirror is written with what is so at DOKU.
LEMMA MirrorFiled ==
    ASSUME TransferInv, NEW t \in Transfers, NEW n \in MirrorRefs, NEW s \in TransferStates, FileMirror(t, n, s),
           s = "settled" => moved[t] = "settled", UNCHANGED moved
    PROVE  /\ mirror' \in [Transfers \X MirrorRefs -> TransferStates]
           /\ \A u \in Transfers, k \in MirrorRefs : mirror'[u, k] = "settled" => moved'[u] = "settled"
<1>1. mirror \in [Transfers \X MirrorRefs -> TransferStates] /\ mirror' = [mirror EXCEPT ![<<t, n>>] = s]
  BY DEF TransferInv, TransferTyped, FileMirror
<1>2. mirror' \in [Transfers \X MirrorRefs -> TransferStates]
  BY <1>1
<1>3. ASSUME NEW u \in Transfers, NEW k \in MirrorRefs, mirror'[u, k] = "settled" PROVE moved[u] = "settled"
  <2>1. CASE u = t /\ k = n
    BY <1>1, <1>3, <2>1
  <2>2. CASE ~(u = t /\ k = n)
    <3>1. mirror[u, k] = "settled"
      BY <1>1, <1>3, <2>2
    <3> QED BY <3>1 DEF TransferInv, MirrorsBacked
  <2> QED BY <2>1, <2>2
<1> QED BY <1>2, <1>3

LEMMA MirrorServed ==
    ASSUME TransferInv, NEW c \in Clerks, NEW r \in ClerkStates, clerk' = [clerk EXCEPT ![c] = r], ClerkKnows(r),
           NEW t \in Transfers, NEW n \in MirrorRefs, NEW s \in TransferStates, FileMirror(t, n, s),
           s = "settled" => moved[t] = "settled", UNCHANGED <<transfer, feeRow, moved, feeMoved>>
    PROVE  TransferInv'
<1>1. /\ mirror' \in [Transfers \X MirrorRefs -> TransferStates]
      /\ \A u \in Transfers, k \in MirrorRefs : mirror'[u, k] = "settled" => moved'[u] = "settled"
  BY MirrorFiled
<1>2. TransferTyped' /\ MirrorsBacked'
  BY <1>1 DEF TransferInv, TransferTyped, MirrorsBacked
<1> QED BY <1>2, RowsServed

\* What a mirror holds already.
LEMMA MirrorIs ==
    ASSUME TransferInv, NEW t \in Transfers, NEW n \in MirrorRefs
    PROVE  mirror[t, n] \in TransferStates /\ (mirror[t, n] = "settled" => moved[t] = "settled")
BY DEF TransferInv, TransferTyped, MirrorsBacked

LEMMA WriteMirrorOK ==
    ASSUME TransferInv, NEW c \in Clerks, writeMirror(c)
    PROVE  TransferInv'
<1>1. PICK t \in Transfers : t = clerk[c].t
  BY ClerkIs DEF ClerkKnows, writeMirror, In
<1>2. PICK saw \in TransferStates : saw = clerk[c].saw
  BY ClerkIs
<1>3. UNCHANGED <<transfer, feeRow, moved, feeMoved>> /\ (saw = "settled" => moved[t] = "settled")
  BY <1>1, <1>2, ClerkIs DEF writeMirror, ClerkKnows
<1>4. PICK r : r = [clerk[c] EXCEPT !.pc = "fee"]
  OBVIOUS
<1>5. r \in ClerkStates /\ ClerkKnows(r) /\ clerk' = [clerk EXCEPT ![c] = r]
  <2>1. "fee" \in ClerkPcs
    BY DEF ClerkPcs
  <2>2. r \in ClerkStates /\ ClerkKnows(r)
    BY <1>1, <1>4, <2>1, ThenIs
  <2>3. clerk' = [clerk EXCEPT ![c] = r]
    BY <1>4 DEF writeMirror, Then, Hand
  <2> QED BY <2>2, <2>3
<1>6. CASE UNCHANGED mirror
  BY <1>3, <1>5, <1>6, ClerkOnly
<1>7. ASSUME NEW n \in MirrorRefs,
             FileMirror(t, n, IF mirror[t, n] = "none" \/ saw = "settled" THEN saw ELSE mirror[t, n])
      PROVE  TransferInv'
  <2>1. PICK s : s = IF mirror[t, n] = "none" \/ saw = "settled" THEN saw ELSE mirror[t, n]
    OBVIOUS
  <2>2. s \in TransferStates /\ (s = "settled" => moved[t] = "settled") /\ FileMirror(t, n, s)
    BY <1>3, <1>7, <2>1, MirrorIs
  <2> QED BY <1>3, <1>5, <2>2, MirrorServed
<1> QED BY <1>1, <1>2, <1>6, <1>7 DEF writeMirror

LEMMA FindMirrorOK ==
    ASSUME TransferInv, NEW c \in Clerks, findMirror(c)
    PROVE  TransferInv'
<1>1. PICK t \in Transfers : t = clerk[c].t
  BY ClerkIs DEF ClerkKnows, findMirror, In
<1>2. UNCHANGED <<transfer, mirror, feeRow, moved, feeMoved>>
  BY DEF findMirror, books
<1>3. CASE Leave(c)
  BY <1>2, <1>3, FreeIs, ClerkOnly DEF Leave, Hand
<1>4. CASE Then(c, "backfill")
  <2>1. PICK r : r = [clerk[c] EXCEPT !.pc = "backfill"]
    OBVIOUS
  <2>2. r \in ClerkStates /\ ClerkKnows(r) /\ clerk' = [clerk EXCEPT ![c] = r]
    BY <1>1, <1>4, <2>1, ThenIs DEF ClerkPcs, Then, Hand
  <2> QED BY <1>2, <2>2, ClerkOnly
<1> QED BY <1>3, <1>4 DEF findMirror

LEMMA BackfillMirrorOK ==
    ASSUME TransferInv, NEW c \in Clerks, backfillMirror(c)
    PROVE  TransferInv'
<1>1. PICK t \in Transfers : t = clerk[c].t
  BY ClerkIs DEF ClerkKnows, backfillMirror, In
<1>2. clerk' = [clerk EXCEPT ![c] = Free] /\ UNCHANGED <<transfer, feeRow, moved, feeMoved>>
  BY DEF backfillMirror, Leave, Hand
<1>3. PICK n \in MirrorRefs :
          FileMirror(t, n, IF mirror[t, n] = "none" /\ moved[t] = "settled" THEN "settled" ELSE mirror[t, n])
  BY <1>1 DEF backfillMirror
<1>4. PICK s : s = IF mirror[t, n] = "none" /\ moved[t] = "settled" THEN "settled" ELSE mirror[t, n]
  OBVIOUS
<1>5. s \in TransferStates /\ (s = "settled" => moved[t] = "settled") /\ FileMirror(t, n, s)
  BY <1>3, <1>4, MirrorIs DEF TransferStates
<1> QED BY <1>2, <1>5, FreeIs, MirrorServed

\* A fee row is written with what is so at DOKU.
LEMMA FeeRowWritten ==
    ASSUME TransferInv, NEW t \in Transfers, NEW s \in TransferStates, feeRow' = [feeRow EXCEPT ![t] = s],
           s = "settled" => feeMoved[t] = "settled", UNCHANGED <<transfer, mirror, moved>>,
           NEW m \in Movements,
           UNCHANGED feeMoved \/ (feeMoved[t] # "settled" /\ feeMoved' = [feeMoved EXCEPT ![t] = m])
    PROVE  SettledForGood /\ TransferTyped' /\ MirrorsBacked' /\ (feeMoved[t] = "settled" => feeMoved'[t] = "settled")
<1>1. feeRow \in [Transfers -> TransferStates] /\ feeMoved \in [Transfers -> Movements]
  BY DEF TransferInv, TransferTyped
<1>2. feeRow' \in [Transfers -> TransferStates] /\ feeRow'[t] = s /\ \A u \in Transfers \ {t} : feeRow'[u] = feeRow[u]
  BY <1>1
<1>3. feeMoved' \in [Transfers -> Movements] /\ \A u \in Transfers : feeMoved[u] = "settled" => feeMoved'[u] = "settled"
  BY <1>1
<1>4. SettledForGood
  BY <1>3 DEF SettledForGood
<1>5. TransferTyped'
  BY <1>2, <1>3 DEF TransferInv, TransferTyped
<1>6. MirrorsBacked'
  BY <1>2, <1>3 DEF TransferInv, MirrorsBacked
<1> QED BY <1>3, <1>4, <1>5, <1>6

LEMMA FeeLegOK ==
    ASSUME TransferInv, NEW c \in Clerks, feeLeg(c)
    PROVE  TransferInv'
<1>1. PICK t \in Transfers : t = clerk[c].t
  BY ClerkIs DEF ClerkKnows, feeLeg, In
<1>2. /\ UNCHANGED <<transfer, mirror, moved>> /\ feeRow \in [Transfers -> TransferStates]
      /\ feeMoved \in [Transfers -> Movements]
  BY DEF feeLeg, TransferInv, TransferTyped
<1>3. CASE Then(c, "end") /\ UNCHANGED <<feeRow, feeMoved>>
  <2>1. PICK r : r = [clerk[c] EXCEPT !.pc = "end"]
    OBVIOUS
  <2>2. r \in ClerkStates /\ ClerkKnows(r)
    BY <1>1, <2>1, ThenIs DEF ClerkPcs
  <2> QED BY <1>2, <1>3, <2>1, <2>2, ClerkOnly DEF Then, Hand
<1>4. ASSUME NEW f \in Movements, NEW m \in Movements,
             feeRow' = [feeRow EXCEPT ![t] = IF @ = "none" THEN "created" ELSE @],
             UNCHANGED feeMoved \/ (feeMoved[t] # "settled" /\ feeMoved' = [feeMoved EXCEPT ![t] = m]),
             f = "settled" => feeMoved'[t] = "settled",
             clerk' = [clerk EXCEPT ![c] = [clerk[c] EXCEPT !.pc = "feeMark", !.fee = f]]
      PROVE  TransferInv'
  <2>1. PICK s : s = IF feeRow[t] = "none" THEN "created" ELSE feeRow[t]
    OBVIOUS
  <2>2. s \in TransferStates /\ (s = "settled" => feeMoved[t] = "settled") /\ feeRow' = [feeRow EXCEPT ![t] = s]
    BY <1>2, <1>4, <2>1 DEF TransferStates, TransferInv, MirrorsBacked
  <2>3. SettledForGood /\ TransferTyped' /\ MirrorsBacked'
    BY <1>2, <1>4, <2>2, FeeRowWritten
  <2>4. PICK r : r = [clerk[c] EXCEPT !.pc = "feeMark", !.fee = f]
    OBVIOUS
  <2>5. r \in ClerkStates /\ r.t = t /\ r.saw = clerk[c].saw /\ r.fee = f
    BY <1>1, <2>4, ClerkIs DEF ClerkStates, ClerkPcs
  <2>6. ClerkKnows(r)'
    BY <1>1, <1>2, <1>4, <2>5, ClerkIs DEF ClerkKnows
  <2>7. clerk' = [clerk EXCEPT ![c] = r]
    BY <1>4, <2>4
  <2> QED BY <2>3, <2>5, <2>6, <2>7, ClerkServed
<1>5. CASE /\ feeRow' = [feeRow EXCEPT ![t] = IF @ = "none" THEN "created" ELSE @]
           /\ feeMoved[t] = "none"
           /\ \E s \in {"processing", "settled"} :
                 /\ feeMoved' = [feeMoved EXCEPT ![t] = s]
                 /\ clerk' = [clerk EXCEPT ![c] = [clerk[c] EXCEPT !.pc = "feeMark", !.fee = s]]
  <2>1. PICK s \in Movements : /\ feeMoved' = [feeMoved EXCEPT ![t] = s]
                               /\ clerk' = [clerk EXCEPT ![c] = [clerk[c] EXCEPT !.pc = "feeMark", !.fee = s]]
    BY <1>5 DEF Movements
  <2>2. feeMoved'[t] = s
    BY <1>2, <2>1
  <2> QED BY <1>4, <1>5, <2>1, <2>2
<1>6. CASE /\ feeRow' = [feeRow EXCEPT ![t] = IF @ = "none" THEN "created" ELSE @] /\ UNCHANGED feeMoved
           /\ \/ clerk' = [clerk EXCEPT ![c] = [clerk[c] EXCEPT !.pc = "feeMark", !.fee = feeMoved[t]]]
              \/ clerk' = [clerk EXCEPT ![c] = [clerk[c] EXCEPT !.pc = "feeMark", !.fee = "failed"]]
  <2>1. PICK f \in {feeMoved[t], "failed"} :
            clerk' = [clerk EXCEPT ![c] = [clerk[c] EXCEPT !.pc = "feeMark", !.fee = f]]
    BY <1>6
  <2>2. f \in Movements /\ (f = "settled" => feeMoved'[t] = "settled")
    BY <1>2, <1>6, <2>1 DEF Movements
  <2> QED BY <1>4, <1>6, <2>1, <2>2
<1> QED BY <1>1, <1>3, <1>5, <1>6 DEF feeLeg, Hand

LEMMA FeeMarkOK ==
    ASSUME TransferInv, NEW c \in Clerks, feeMark(c)
    PROVE  TransferInv'
<1>1. PICK t \in Transfers : t = clerk[c].t
  BY ClerkIs DEF ClerkKnows, feeMark, In
<1>2. PICK f \in Movements : f = clerk[c].fee
  BY ClerkIs DEF ClerkStates
<1>3. UNCHANGED <<transfer, mirror, moved, feeMoved>> /\ feeRow' = [feeRow EXCEPT ![t] = f]
  BY <1>1, <1>2 DEF feeMark
<1>4. f \in TransferStates /\ (f = "settled" => feeMoved[t] = "settled")
  BY <1>1, <1>2, ClerkIs DEF Movements, TransferStates, ClerkKnows
<1>5. SettledForGood /\ TransferTyped' /\ MirrorsBacked'
  BY <1>2, <1>3, <1>4, FeeRowWritten
<1>6. PICK r : r = [clerk[c] EXCEPT !.pc = "end"]
  OBVIOUS
<1>7. r \in ClerkStates /\ ClerkKnows(r)
  BY <1>1, <1>6, ThenIs DEF ClerkPcs
<1>8. clerk' = [clerk EXCEPT ![c] = r]
  BY <1>6 DEF feeMark, Then, Hand
<1> QED BY <1>5, <1>7, <1>8, ClerkServed

LEMMA SweepOK ==
    ASSUME TransferInv, NEW c \in Clerks, sweepStatus(c)
    PROVE  TransferInv'
<1>1. PICK t \in Transfers : t = clerk[c].t
  BY ClerkIs DEF ClerkKnows, sweepStatus, In
<1>2. UNCHANGED <<feeRow, moved, feeMoved>> /\ moved[t] \in Movements
  BY DEF sweepStatus, TransferInv, TransferTyped
<1>3. PICK r : r = [clerk[c] EXCEPT !.pc = "ensure"]
  OBVIOUS
<1>4. r \in ClerkStates /\ ClerkKnows(r)
  BY <1>1, <1>3, ThenIs DEF ClerkPcs
<1>5. clerk' = [clerk EXCEPT ![c] = r]
  BY <1>3 DEF sweepStatus, Then, Hand
<1>6. CASE UNCHANGED <<transfer, mirror>>
  BY <1>2, <1>4, <1>5, <1>6, ClerkOnly
<1>7. CASE markTx(t, moved[t], TRUE) /\ UNCHANGED mirror
  <2>1. PICK s \in TransferStates : s = moved[t]
    BY <1>2 DEF Movements, TransferStates
  <2>2. markTx(t, s, TRUE)
    BY <1>7, <2>1
  <2> QED BY <1>2, <1>4, <1>5, <1>7, <2>1, <2>2, MarkServed
<1>8. ASSUME NEW n \in MirrorRefs, markTx(t, moved[t], TRUE), moved[t] = "settled", FileMirror(t, n, "settled")
      PROVE  TransferInv'
  <2>1. PICK x : x = [status |-> moved[t], ref |-> TRUE, claim |-> FALSE]
    OBVIOUS
  <2>2. x \in TransferRows /\ x.status = moved[t] /\ transfer' = [transfer EXCEPT ![t] = x]
    BY <1>2, <1>8, <2>1 DEF TransferRows, TransferStates, Movements, markTx
  <2>3. transfer \in [Transfers -> TransferRows]
    BY DEF TransferInv, TransferTyped
  <2>4. /\ transfer' \in [Transfers -> TransferRows] /\ transfer'[t] = x
        /\ \A u \in Transfers \ {t} : transfer'[u] = transfer[u]
    BY <2>2, <2>3
  <2>5. /\ mirror' \in [Transfers \X MirrorRefs -> TransferStates]
        /\ \A u \in Transfers, k \in MirrorRefs : mirror'[u, k] = "settled" => moved'[u] = "settled"
    BY <1>2, <1>8, MirrorFiled DEF TransferStates
  <2>6. TransferTyped'
    BY <1>2, <2>4, <2>5 DEF TransferInv, TransferTyped
  <2>7. MirrorsBacked'
    BY <1>2, <1>8, <2>2, <2>4, <2>5 DEF TransferInv, MirrorsBacked
  <2> QED BY <1>2, <1>4, <1>5, <2>6, <2>7, RowsServed
<1> QED BY <1>1, <1>6, <1>7, <1>8 DEF sweepStatus

\* Requests, sweeps and the mirror they write know of a transfer only what
\* DOKU has answered.
THEOREM TransferInvariance == TransferSpec => []TransferInv
<1>1. TransferInit => TransferInv
  <2> SUFFICES ASSUME TransferInit PROVE TransferInv
    OBVIOUS
  <2>1. TransferTyped /\ MirrorsBacked
    BY DEF TransferInit, TransferTyped, MirrorsBacked, TransferRows, TransferStates, Movements
  <2>2. clerk \in [Clerks -> ClerkStates] /\ \A c \in Clerks : clerk[c] = Free
    BY FreeIs DEF TransferInit
  <2> QED BY <2>1, <2>2, FreeIs DEF TransferInv
<1>2. TransferInv /\ [TransferNext]_transferVars => TransferInv'
  <2> SUFFICES ASSUME TransferInv, [TransferNext]_transferVars PROVE TransferInv'
    OBVIOUS
  <2>1. CASE UNCHANGED transferVars
    BY <2>1 DEF transferVars, TransferInv, TransferTyped, MirrorsBacked, ClerkKnows
  <2>2. CASE linkProfile \/ \E t \in Transfers : MovementEnds(t)
    BY <2>2, AccountsOK, MovementEndsOK
  <2>3. ASSUME NEW c \in Clerks,
               \/ registerAccount(c) \/ registerAnswer(c) \/ inquiryAnswer(c) \/ claimTransfer(c)
               \/ payTransfer(c) \/ failTransfer(c) \/ submitted(c) \/ askStatus(c) \/ adoptStatus(c)
               \/ writeMirror(c) \/ feeLeg(c) \/ feeMark(c) \/ endConfirm(c) \/ releaseClaim(c)
               \/ reinquire(c) \/ writeCancel(c) \/ writeSync(c) \/ sweepStatus(c)
               \/ findMirror(c) \/ backfillMirror(c) \/ CrashClerk(c)
        PROVE  TransferInv'
    BY <2>3, AccountsOK, EndsMarkedOK, ClaimTransferOK, PayTransferOK, GoesOnMarkedOK, AskStatusOK, WriteMirrorOK, FeeLegOK,
       FeeMarkOK, SweepOK, FindMirrorOK, BackfillMirrorOK
  <2>4. ASSUME NEW c \in Clerks, NEW t \in Transfers,
               \/ transferInquiry(c, t) \/ transferConfirm(c, t) \/ retryTransfer(c, t)
               \/ cancelTransfer(c, t) \/ syncTransfer(c, t) \/ adminSweep(c, t) \/ adminBackfillMirrors(c, t)
        PROVE  TransferInv'
    BY <2>4, InquiryOK, TakesUpOK
  <2> QED BY <2>1, <2>2, <2>3, <2>4 DEF TransferNext
<1> QED BY <1>1, <1>2, PTL DEF TransferSpec

---------------------------------------------------------------------------
\* Redemptions

ClaimRows == [status: {"none", "created", "processing", "settled", "failed", "cancelled"}, old: BOOLEAN,
              ledger: {"none", "requested", "burned", "completed", "payout_failed", "failed", "expired"}]
PayStates == {"none", "created", "processing", "settled", "failed"}
TellerPcs == {"idle", "burn", "burned", "markBurned", "payout", "transfer", "payMark", "expire"}
TellerStates == [pc: TellerPcs, r: Claims \cup {NoClaim}, resumed: BOOLEAN,
                 saw: {"none", "processing", "settled", "failed", "duplicate"}]

SagaTyped ==
    /\ claim \in [Claims -> ClaimRows]
    /\ payRow \in [Claims -> PayStates]
    /\ burnt \in [Claims -> Movements]
    /\ paidOut \in [Claims -> Movements]

\* What the rows say of a claim is so at DOKU.
SagaKnown ==
    /\ PayoutsBacked
    /\ \A r \in Claims :
          /\ claim[r].status = "none" => burnt[r] = "none"
          /\ claim[r].ledger \in {"burned", "payout_failed"} => burnt[r] # "none"
          /\ payRow[r] \in {"settled", "processing"} => paidOut[r] # "none"

TellerKnows(s) ==
    /\ s.pc # "idle" => s.r \in Claims /\ claim[s.r].status # "none"
    /\ s.pc = "burn" => burnt[s.r] = "none"
    /\ s.pc = "burned" => s.saw \in {"settled", "processing", "failed"} /\ (s.saw # "failed" => burnt[s.r] # "none")
    /\ s.pc \in {"markBurned", "payout", "transfer", "payMark"} => burnt[s.r] # "none"
    /\ s.pc = "payMark" => s.saw # "none" /\ (s.saw # "failed" => paidOut[s.r] # "none")

OneBurner ==
    \A x, y \in Tellers : teller[x].pc = "burn" /\ teller[y].pc = "burn" /\ teller[x].r = teller[y].r => x = y

RedemptionInv ==
    /\ SagaTyped /\ SagaKnown /\ OneBurner /\ teller \in [Tellers -> TellerStates]
    /\ \A x \in Tellers : TellerKnows(teller[x])

\* What was asked of DOKU stays asked.
Furthered ==
    \A r \in Claims : /\ burnt[r] # "none" => burnt'[r] # "none"
                      /\ paidOut[r] # "none" => paidOut'[r] # "none"
                      /\ claim[r].status # "none" => claim'[r].status # "none"

LEMMA TellerKept ==
    ASSUME Furthered, NEW s, TellerKnows(s), s.pc = "burn" => burnt'[s.r] = "none"
    PROVE  TellerKnows(s)'
BY DEF Furthered, TellerKnows

LEMMA TellerServed ==
    ASSUME RedemptionInv, Furthered, NEW x \in Tellers, NEW s \in TellerStates, teller' = [teller EXCEPT ![x] = s],
           TellerKnows(s)', s.pc = "burn" => \A y \in Tellers \ {x} : teller[y].pc = "burn" => teller[y].r # s.r,
           \A y \in Tellers \ {x} : teller[y].pc = "burn" => burnt'[teller[y].r] = "none",
           SagaTyped', SagaKnown'
    PROVE  RedemptionInv'
<1>1. teller \in [Tellers -> TellerStates]
  BY DEF RedemptionInv
<1>2. teller' \in [Tellers -> TellerStates] /\ teller'[x] = s /\ \A y \in Tellers \ {x} : teller'[y] = teller[y]
  BY <1>1
<1>3. ASSUME NEW y \in Tellers PROVE TellerKnows(teller[y])'
  <2>1. CASE y = x
    BY <1>2, <2>1 DEF TellerKnows
  <2>2. CASE y # x
    <3>1. PICK u : u = teller[y]
      OBVIOUS
    <3>2. TellerKnows(u) /\ (u.pc = "burn" => burnt'[u.r] = "none")
      BY <2>2, <3>1 DEF RedemptionInv
    <3>3. TellerKnows(u)'
      BY <3>2, TellerKept
    <3>4. teller'[y] = u
      BY <1>2, <2>2, <3>1
    <3> QED BY <3>3, <3>4 DEF TellerKnows
  <2> QED BY <2>1, <2>2
<1>4. OneBurner'
  BY <1>2 DEF OneBurner, RedemptionInv
<1> QED BY <1>2, <1>3, <1>4 DEF RedemptionInv

LEMMA BurnersKnow == RedemptionInv => \A y \in Tellers : teller[y].pc = "burn" => burnt[teller[y].r] = "none"
BY DEF RedemptionInv, TellerKnows

\* A request that writes rows, and asks nothing of DOKU.
LEMMA RowsTold ==
    ASSUME RedemptionInv, NEW x \in Tellers, NEW s \in TellerStates, teller' = [teller EXCEPT ![x] = s],
           TellerKnows(s), s.pc # "burn", UNCHANGED <<burnt, paidOut>>,
           \A r \in Claims : claim[r].status # "none" => claim'[r].status # "none",
           SagaTyped', SagaKnown'
    PROVE  RedemptionInv'
<1>1. Furthered
  BY DEF Furthered
<1>2. TellerKnows(s)'
  BY <1>1, TellerKept
<1> QED BY <1>1, <1>2, TellerServed, BurnersKnow

LEMMA TellerOnly ==
    ASSUME RedemptionInv, NEW x \in Tellers, NEW s \in TellerStates, teller' = [teller EXCEPT ![x] = s],
           TellerKnows(s), s.pc # "burn", UNCHANGED <<claim, payRow, burnt, paidOut>>
    PROVE  RedemptionInv'
<1>1. SagaTyped' /\ SagaKnown'
  BY DEF RedemptionInv, SagaTyped, SagaKnown, PayoutsBacked
<1> QED BY <1>1, RowsTold

\* The parent row, and perhaps the payout's, written with what is so at DOKU.
LEMMA ParentTold ==
    ASSUME RedemptionInv, NEW x \in Tellers, NEW s \in TellerStates, teller' = [teller EXCEPT ![x] = s],
           TellerKnows(s), s.pc # "burn", UNCHANGED <<burnt, paidOut>>,
           NEW r \in Claims, NEW y \in ClaimRows, claim' = [claim EXCEPT ![r] = y], y.status # "none",
           y.ledger \in {"burned", "payout_failed"} => burnt[r] # "none",
           y.ledger = "completed" => paidOut[r] # "none",
           NEW p \in PayStates, payRow' = [payRow EXCEPT ![r] = p],
           p \in {"settled", "processing"} => paidOut[r] # "none"
    PROVE  RedemptionInv'
<1>1. claim \in [Claims -> ClaimRows] /\ payRow \in [Claims -> PayStates]
  BY DEF RedemptionInv, SagaTyped
<1>2. claim' \in [Claims -> ClaimRows] /\ claim'[r] = y /\ \A u \in Claims \ {r} : claim'[u] = claim[u]
  BY <1>1
<1>3. payRow' \in [Claims -> PayStates] /\ payRow'[r] = p /\ \A u \in Claims \ {r} : payRow'[u] = payRow[u]
  BY <1>1
<1>4. SagaTyped'
  BY <1>2, <1>3 DEF RedemptionInv, SagaTyped
<1>5. SagaKnown'
  BY <1>2, <1>3 DEF RedemptionInv, SagaKnown, PayoutsBacked
<1>6. \A u \in Claims : claim[u].status # "none" => claim'[u].status # "none"
  BY <1>2
<1> QED BY <1>4, <1>5, <1>6, RowsTold

\* The parent row with a status and a ledger status.
Standing(r, a, b) == [claim[r] EXCEPT !.status = a, !.ledger = b]

LEMMA ParentIs ==
    ASSUME RedemptionInv, NEW r \in Claims, NEW a, NEW b,
           a \in {"created", "processing", "settled", "failed", "cancelled"},
           b \in {"requested", "burned", "completed", "payout_failed", "failed", "expired"}
    PROVE  LET y == Standing(r, a, b)
           IN  y \in ClaimRows /\ y.status = a /\ y.ledger = b /\ (Parent(r, a, b) => claim' = [claim EXCEPT ![r] = y])
<1> DEFINE y == Standing(r, a, b)
<1>1. claim \in [Claims -> ClaimRows]
  BY DEF RedemptionInv, SagaTyped
<1>2. y \in ClaimRows /\ y.status = a /\ y.ledger = b
  BY <1>1 DEF ClaimRows, Standing
<1>3. Parent(r, a, b) => claim' = [claim EXCEPT ![r] = y]
  BY <1>1 DEF Parent, Standing
<1> QED BY <1>2, <1>3

LEMMA TellerIs ==
    ASSUME RedemptionInv, NEW x \in Tellers
    PROVE  /\ teller[x] \in TellerStates /\ TellerKnows(teller[x])
           /\ teller[x].saw \in {"none", "processing", "settled", "failed", "duplicate"}
           /\ teller[x].pc # "idle" => teller[x].r \in Claims /\ claim[teller[x].r].status # "none"
BY DEF RedemptionInv, TellerStates, TellerKnows

LEMMA OffIs == Off \in TellerStates /\ Off.pc = "idle" /\ TellerKnows(Off)
BY DEF Off, TellerStates, TellerPcs, TellerKnows

LEMMA OnwardIs ==
    ASSUME RedemptionInv, NEW x \in Tellers, NEW pc \in TellerPcs, NEW s, s = [teller[x] EXCEPT !.pc = pc]
    PROVE  s \in TellerStates /\ s.pc = pc /\ s.r = teller[x].r /\ s.saw = teller[x].saw
BY TellerIs DEF TellerStates

---------------------------------------------------------------------------

LEMMA RequestOK ==
    ASSUME RedemptionInv, NEW x \in Tellers, NEW r \in Claims, requestRedemption(x, r)
    PROVE  RedemptionInv'
<1>1. claim[r].status = "none" /\ burnt[r] = "none" /\ claim \in [Claims -> ClaimRows]
  BY DEF requestRedemption, RedemptionInv, SagaKnown, SagaTyped
<1>2. PICK y : y = Standing(r, "created", "requested")
  OBVIOUS
<1>3. y \in ClaimRows /\ y.status = "created" /\ y.ledger = "requested" /\ claim' = [claim EXCEPT ![r] = y]
  BY <1>2, ParentIs DEF requestRedemption
<1>4. PICK s : s = [Off EXCEPT !.pc = "burn", !.r = r]
  OBVIOUS
<1>5. s \in TellerStates /\ s.pc = "burn" /\ s.r = r
  BY <1>4 DEF Off, TellerStates, TellerPcs
<1>6. teller' = [teller EXCEPT ![x] = s] /\ UNCHANGED <<payRow, burnt, paidOut>>
  BY <1>4 DEF requestRedemption, Pass
<1>7. claim' \in [Claims -> ClaimRows] /\ claim'[r] = y /\ \A u \in Claims \ {r} : claim'[u] = claim[u]
  BY <1>1, <1>3
<1>8. Furthered /\ SagaTyped'
  BY <1>3, <1>6, <1>7 DEF Furthered, RedemptionInv, SagaTyped
<1>9. SagaKnown'
  BY <1>3, <1>6, <1>7 DEF RedemptionInv, SagaKnown, PayoutsBacked
<1>10. TellerKnows(s)'
  BY <1>1, <1>3, <1>5, <1>6, <1>7 DEF TellerKnows
<1>11. \A v \in Tellers \ {x} : teller[v].pc = "burn" => teller[v].r # r
  BY <1>1, TellerIs
<1>12. \A v \in Tellers \ {x} : teller[v].pc = "burn" => burnt'[teller[v].r] = "none"
  BY <1>6, BurnersKnow
<1> QED BY <1>5, <1>6, <1>8, <1>9, <1>10, <1>11, <1>12, TellerServed

LEMMA BurnOK ==
    ASSUME RedemptionInv, NEW x \in Tellers, burn(x)
    PROVE  RedemptionInv'
<1>1. PICK r \in Claims : r = teller[x].r
  BY TellerIs DEF burn, Has
<1>2. teller[x].pc = "burn" /\ burnt[r] = "none" /\ claim[r].status # "none" /\ UNCHANGED <<claim, payRow, paidOut>>
  BY <1>1, TellerIs, BurnersKnow DEF burn, Has
<1>3. PICK b \in {"none", "processing", "settled"}, saw \in {"processing", "settled", "failed"} :
          /\ burnt' = [burnt EXCEPT ![r] = b] /\ (saw # "failed" => b # "none")
          /\ teller' = [teller EXCEPT ![x] = [teller[x] EXCEPT !.pc = "burned", !.saw = saw]]
  <2>1. CASE \E s \in {"processing", "settled"} : /\ burnt' = PutRow(burnt, r, s)
                                                  /\ Pass(x, [teller[x] EXCEPT !.pc = "burned", !.saw = s])
    BY <2>1 DEF PutRow, Pass
  <2>2. CASE /\ Pass(x, [teller[x] EXCEPT !.pc = "burned", !.saw = "failed"])
             /\ \E s \in {"none", "settled"} : burnt' = PutRow(burnt, r, s)
    BY <2>2 DEF PutRow, Pass
  <2> QED BY <1>1, <2>1, <2>2 DEF burn
<1>4. PICK s : s = [teller[x] EXCEPT !.pc = "burned", !.saw = saw]
  OBVIOUS
<1>5. s \in TellerStates /\ s.pc = "burned" /\ s.r = r /\ s.saw = saw
  BY <1>1, <1>4, TellerIs DEF TellerStates, TellerPcs
<1>6. burnt \in [Claims -> Movements] /\ b \in Movements
  BY DEF RedemptionInv, SagaTyped, Movements
<1>7. burnt' \in [Claims -> Movements] /\ burnt'[r] = b /\ \A u \in Claims \ {r} : burnt'[u] = burnt[u]
  BY <1>3, <1>6
<1>8. Furthered /\ SagaTyped'
  BY <1>2, <1>7 DEF Furthered, RedemptionInv, SagaTyped
<1>9. SagaKnown'
  BY <1>2, <1>7 DEF RedemptionInv, SagaKnown, PayoutsBacked
<1>10. TellerKnows(s)'
  BY <1>2, <1>3, <1>5, <1>7 DEF TellerKnows
<1>11. \A v \in Tellers \ {x} : teller[v].pc = "burn" => teller[v].r \in Claims /\ teller[v].r # r
  BY <1>1, <1>2, TellerIs DEF RedemptionInv, OneBurner
<1>12. \A v \in Tellers \ {x} : teller[v].pc = "burn" => burnt'[teller[v].r] = "none"
  BY <1>7, <1>11, BurnersKnow
<1>13. teller' = [teller EXCEPT ![x] = s]
  BY <1>3, <1>4
<1> QED BY <1>5, <1>8, <1>9, <1>10, <1>12, <1>13, TellerServed

\* The parent alone is written, and the request ends.
LEMMA ParentEnds ==
    ASSUME RedemptionInv, NEW x \in Tellers, teller' = [teller EXCEPT ![x] = Off], UNCHANGED <<burnt, paidOut>>,
           NEW r \in Claims, NEW a, NEW b, Parent(r, a, b),
           a \in {"created", "processing", "settled", "failed", "cancelled"},
           b \in {"requested", "burned", "completed", "payout_failed", "failed", "expired"},
           b \in {"burned", "payout_failed"} => burnt[r] # "none",
           b = "completed" => paidOut[r] # "none",
           NEW p \in PayStates, payRow' = [payRow EXCEPT ![r] = p],
           p \in {"settled", "processing"} => paidOut[r] # "none"
    PROVE  RedemptionInv'
<1>1. PICK y : y = Standing(r, a, b)
  OBVIOUS
<1>2. y \in ClaimRows /\ y.status = a /\ y.ledger = b /\ claim' = [claim EXCEPT ![r] = y]
  BY <1>1, ParentIs
<1> QED BY <1>2, OffIs, ParentTold

LEMMA PayRowStays ==
    ASSUME RedemptionInv, NEW r \in Claims, UNCHANGED payRow
    PROVE  \E p \in PayStates : payRow' = [payRow EXCEPT ![r] = p] /\ (p \in {"settled", "processing"} => paidOut[r] # "none")
BY DEF RedemptionInv, SagaTyped, SagaKnown

LEMMA MarkBurnOK ==
    ASSUME RedemptionInv, NEW x \in Tellers, markBurn(x)
    PROVE  RedemptionInv'
<1>1. PICK r \in Claims : r = teller[x].r
  BY TellerIs DEF markBurn, Has
<1>2. UNCHANGED <<payRow, burnt, paidOut>> /\ teller[x].pc = "burned"
  BY DEF markBurn, Has
<1>3. PICK p \in PayStates : payRow' = [payRow EXCEPT ![r] = p] /\ (p \in {"settled", "processing"} => paidOut[r] # "none")
  BY <1>2, PayRowStays
<1>4. CASE Onward(x, "markBurned") /\ teller[x].saw = "settled" /\ UNCHANGED claim
  <2>1. PICK s : s = [teller[x] EXCEPT !.pc = "markBurned"]
    OBVIOUS
  <2>2. s \in TellerStates /\ s.pc = "markBurned" /\ s.r = r
    BY <1>1, <2>1, OnwardIs DEF TellerPcs
  <2>3. TellerKnows(s)
    BY <1>1, <1>2, <1>4, <2>2, TellerIs DEF TellerKnows
  <2>4. teller' = [teller EXCEPT ![x] = s]
    BY <1>4, <2>1 DEF Onward, Pass
  <2> QED BY <1>2, <1>4, <2>2, <2>3, <2>4, TellerOnly
<1>5. CASE End(x) /\ Parent(r, "failed", "failed")
  BY <1>2, <1>3, <1>5, ParentEnds DEF End, Pass
<1>6. CASE End(x) /\ Parent(r, "processing", "burned") /\ teller[x].saw # "failed"
  <2>1. burnt[r] # "none"
    BY <1>1, <1>2, <1>6, TellerIs DEF TellerKnows
  <2> QED BY <1>2, <1>3, <1>6, <2>1, ParentEnds DEF End, Pass
<1> QED BY <1>1, <1>4, <1>5, <1>6 DEF markBurn

LEMMA MarkBurnedOK ==
    ASSUME RedemptionInv, NEW x \in Tellers, markBurned(x)
    PROVE  RedemptionInv'
<1>1. PICK r \in Claims : r = teller[x].r
  BY TellerIs DEF markBurned, Has
<1>2. /\ UNCHANGED <<payRow, burnt, paidOut>> /\ claim[r].status # "none" /\ burnt[r] # "none"
      /\ claim \in [Claims -> ClaimRows]
  BY <1>1, TellerIs DEF markBurned, Has, TellerKnows, RedemptionInv, SagaTyped
<1>3. PICK p \in PayStates : payRow' = [payRow EXCEPT ![r] = p] /\ (p \in {"settled", "processing"} => paidOut[r] # "none")
  BY <1>2, PayRowStays
<1>4. PICK y : y = [claim[r] EXCEPT !.ledger = "burned"]
  OBVIOUS
<1>5. y \in ClaimRows /\ y.status # "none" /\ y.ledger = "burned" /\ claim' = [claim EXCEPT ![r] = y]
  BY <1>1, <1>2, <1>4 DEF ClaimRows, markBurned
<1>6. PICK s : s = [teller[x] EXCEPT !.pc = "payout"]
  OBVIOUS
<1>7. s \in TellerStates /\ s.pc = "payout" /\ s.r = r
  BY <1>1, <1>6, OnwardIs DEF TellerPcs
<1>8. TellerKnows(s)
  BY <1>2, <1>7 DEF TellerKnows
<1>9. teller' = [teller EXCEPT ![x] = s]
  BY <1>6 DEF markBurned, Onward, Pass
<1> QED BY <1>2, <1>3, <1>5, <1>7, <1>8, <1>9, ParentTold

LEMMA PayoutOK ==
    ASSUME RedemptionInv, NEW x \in Tellers, payout(x)
    PROVE  RedemptionInv'
<1>1. PICK r \in Claims : r = teller[x].r
  BY TellerIs DEF payout, Has
<1>2. /\ UNCHANGED <<burnt, paidOut>> /\ claim[r].status # "none" /\ burnt[r] # "none" /\ payRow \in [Claims -> PayStates]
      /\ claim \in [Claims -> ClaimRows]
      /\ (payRow[r] \in {"settled", "processing"} => paidOut[r] # "none")
      /\ (claim[r].ledger = "completed" => paidOut[r] # "none")
  BY <1>1, TellerIs DEF payout, Has, TellerKnows, RedemptionInv, SagaTyped, SagaKnown, PayoutsBacked
<1>3. CASE payRow[r] \in {"settled", "processing"} /\ End(x) /\ Parent(r, payRow[r], "completed") /\ UNCHANGED payRow
  <2>1. PICK p \in PayStates : payRow' = [payRow EXCEPT ![r] = p] /\ (p \in {"settled", "processing"} => paidOut[r] # "none")
    BY <1>3, PayRowStays
  <2>2. PICK a : a = payRow[r]
    OBVIOUS
  <2>3. a \in {"settled", "processing"} /\ Parent(r, a, "completed")
    BY <1>3, <2>2
  <2> QED BY <1>2, <1>3, <2>1, <2>3, ParentEnds DEF End, Pass
<1>4. CASE /\ payRow[r] \notin {"settled", "processing"} /\ Onward(x, "transfer") /\ UNCHANGED claim
           /\ payRow' = PutRow(payRow, r, IF payRow[r] = "none" THEN "created" ELSE payRow[r])
  <2>1. PICK p : p = IF payRow[r] = "none" THEN "created" ELSE payRow[r]
    OBVIOUS
  <2>2. p \in PayStates /\ p \notin {"settled", "processing"} /\ payRow' = [payRow EXCEPT ![r] = p]
    BY <1>2, <1>4, <2>1 DEF PayStates, PutRow
  <2>3. PICK y \in ClaimRows : y = claim[r] /\ claim' = [claim EXCEPT ![r] = y]
    BY <1>2, <1>4
  <2>4. PICK s : s = [teller[x] EXCEPT !.pc = "transfer"]
    OBVIOUS
  <2>5. s \in TellerStates /\ s.pc = "transfer" /\ s.r = r
    BY <1>1, <2>4, OnwardIs DEF TellerPcs
  <2>6. TellerKnows(s)
    BY <1>2, <2>5 DEF TellerKnows
  <2>7. teller' = [teller EXCEPT ![x] = s]
    BY <1>4, <2>4 DEF Onward, Pass
  <2>8. y.status # "none" /\ (y.ledger = "completed" => paidOut[r] # "none")
    BY <1>2, <2>3
  <2> QED BY <1>2, <2>2, <2>3, <2>5, <2>6, <2>7, <2>8, ParentTold
<1>5. CASE End(x) /\ UNCHANGED <<claim, payRow>>
  BY <1>2, <1>5, OffIs, TellerOnly DEF End, Pass
<1> QED BY <1>1, <1>3, <1>4, <1>5 DEF payout

LEMMA PayoutTransferOK ==
    ASSUME RedemptionInv, NEW x \in Tellers, payoutTransfer(x)
    PROVE  RedemptionInv'
<1>1. PICK r \in Claims : r = teller[x].r
  BY TellerIs DEF payoutTransfer, Has
<1>2. UNCHANGED <<claim, payRow, burnt>> /\ claim[r].status # "none" /\ burnt[r] # "none" /\ paidOut \in [Claims -> Movements]
  BY <1>1, TellerIs DEF payoutTransfer, Has, TellerKnows, RedemptionInv, SagaTyped
<1>3. PICK saw \in {"processing", "settled", "failed", "duplicate"} :
          /\ teller' = [teller EXCEPT ![x] = [teller[x] EXCEPT !.pc = "payMark", !.saw = saw]]
          /\ \/ UNCHANGED paidOut /\ (saw # "failed" => paidOut[r] # "none")
             \/ \E m \in {"processing", "settled"} : paidOut' = [paidOut EXCEPT ![r] = m]
  <2>1. CASE /\ paidOut[r] # "none" /\ UNCHANGED paidOut
             /\ Pass(x, [teller[x] EXCEPT !.pc = "payMark",
                                          !.saw = IF paidOut[r] = "processing" THEN "duplicate" ELSE paidOut[r]])
    <3>1. PICK saw : saw = IF paidOut[r] = "processing" THEN "duplicate" ELSE paidOut[r]
      OBVIOUS
    <3>2. saw \in {"processing", "settled", "failed", "duplicate"}
      BY <1>2, <2>1, <3>1 DEF Movements
    <3> QED BY <2>1, <3>1, <3>2 DEF Pass
  <2>2. ASSUME NEW s \in {"processing", "settled"}, NEW saw \in {"processing", s}, paidOut' = PutRow(paidOut, r, s),
               Pass(x, [teller[x] EXCEPT !.pc = "payMark", !.saw = saw])
        PROVE  /\ saw \in {"processing", "settled", "failed", "duplicate"}
               /\ teller' = [teller EXCEPT ![x] = [teller[x] EXCEPT !.pc = "payMark", !.saw = saw]]
               /\ \E m \in {"processing", "settled"} : paidOut' = [paidOut EXCEPT ![r] = m]
    BY <2>2 DEF PutRow, Pass
  <2>3. CASE /\ Pass(x, [teller[x] EXCEPT !.pc = "payMark", !.saw = "failed"])
             /\ UNCHANGED paidOut \/ paidOut' = PutRow(paidOut, r, "settled")
    BY <2>3 DEF PutRow, Pass
  <2> QED BY <1>1, <2>1, <2>2, <2>3 DEF payoutTransfer
<1>4. PICK s : s = [teller[x] EXCEPT !.pc = "payMark", !.saw = saw]
  OBVIOUS
<1>5. s \in TellerStates /\ s.pc = "payMark" /\ s.r = r /\ s.saw = saw
  BY <1>1, <1>4, TellerIs DEF TellerStates, TellerPcs
<1>6. /\ paidOut' \in [Claims -> Movements] /\ (saw # "failed" => paidOut'[r] # "none")
      /\ \A u \in Claims : paidOut[u] # "none" => paidOut'[u] # "none"
      /\ \A u \in Claims \ {r} : paidOut'[u] = paidOut[u]
  BY <1>2, <1>3 DEF Movements
<1>7. Furthered /\ SagaTyped'
  BY <1>2, <1>6 DEF Furthered, RedemptionInv, SagaTyped
<1>8. SagaKnown'
  BY <1>2, <1>6 DEF RedemptionInv, SagaKnown, PayoutsBacked
<1>9. TellerKnows(s)'
  BY <1>2, <1>5, <1>6 DEF TellerKnows
<1>10. \A v \in Tellers \ {x} : teller[v].pc = "burn" => burnt'[teller[v].r] = "none"
  BY <1>2, BurnersKnow
<1>11. teller' = [teller EXCEPT ![x] = s]
  BY <1>3, <1>4
<1> QED BY <1>5, <1>7, <1>8, <1>9, <1>10, <1>11, TellerServed

LEMMA MarkPayoutOK ==
    ASSUME RedemptionInv, NEW x \in Tellers, markPayout(x)
    PROVE  RedemptionInv'
<1>1. PICK r \in Claims : r = teller[x].r
  BY TellerIs DEF markPayout, Has
<1>2. PICK saw : saw = teller[x].saw
  OBVIOUS
<1>3. /\ UNCHANGED <<burnt, paidOut>> /\ burnt[r] # "none" /\ saw \in {"processing", "settled", "failed", "duplicate"}
      /\ (saw # "failed" => paidOut[r] # "none") /\ teller' = [teller EXCEPT ![x] = Off]
  BY <1>1, <1>2, TellerIs DEF markPayout, Has, TellerKnows, End, Pass
<1>4. PICK s : s = IF saw = "duplicate" THEN "processing" ELSE saw
  OBVIOUS
<1>5. PICK b : b = CASE s = "settled" -> "completed" [] saw = "processing" -> "burned" [] OTHER -> "payout_failed"
  OBVIOUS
<1>6. Parent(r, s, b) /\ payRow' = [payRow EXCEPT ![r] = s]
  BY <1>1, <1>2, <1>4, <1>5 DEF markPayout, PutRow
<1>7. /\ s \in PayStates /\ s \in {"processing", "settled", "failed"} /\ b \in {"completed", "burned", "payout_failed"}
      /\ (b = "completed" => paidOut[r] # "none") /\ (s \in {"settled", "processing"} => paidOut[r] # "none")
  BY <1>3, <1>4, <1>5 DEF PayStates
<1> QED BY <1>3, <1>6, <1>7, ParentEnds

LEMMA RecoverOK ==
    ASSUME RedemptionInv, NEW x \in Tellers, NEW r \in Claims, recoverRedemptions(x, r)
    PROVE  RedemptionInv'
<1>1. PICK pc \in {"payout", "expire"} :
          /\ pc = "payout" => claim[r].ledger \in {"burned", "payout_failed"}
          /\ teller' = [teller EXCEPT ![x] = [Off EXCEPT !.pc = pc, !.r = r, !.resumed = TRUE]]
  BY DEF recoverRedemptions, resumes, Pass
<1>2. PICK s : s = [Off EXCEPT !.pc = pc, !.r = r, !.resumed = TRUE]
  OBVIOUS
<1>3. s \in TellerStates /\ s.pc = pc /\ s.r = r
  BY <1>2 DEF Off, TellerStates, TellerPcs
<1>4. TellerKnows(s)
  BY <1>1, <1>3 DEF TellerKnows, recoverRedemptions, RedemptionInv, SagaKnown
<1>5. UNCHANGED <<claim, payRow, burnt, paidOut>>
  BY DEF recoverRedemptions, saga
<1> QED BY <1>1, <1>2, <1>3, <1>4, <1>5, TellerOnly

LEMMA ExpireOK ==
    ASSUME RedemptionInv, NEW x \in Tellers, expire(x)
    PROVE  RedemptionInv'
<1>1. PICK r \in Claims : r = teller[x].r
  BY TellerIs DEF expire, Has
<1>2. UNCHANGED <<payRow, burnt, paidOut>> /\ Parent(r, "cancelled", "expired") /\ teller' = [teller EXCEPT ![x] = Off]
  BY <1>1 DEF expire, End, Pass
<1>3. PICK p \in PayStates : payRow' = [payRow EXCEPT ![r] = p] /\ (p \in {"settled", "processing"} => paidOut[r] # "none")
  BY <1>2, PayRowStays
<1> QED BY <1>2, <1>3, ParentEnds

\* The steps no request takes.
LEMMA AloneOK ==
    ASSUME RedemptionInv, Furthered, SagaTyped', SagaKnown',
           \A y \in Tellers : teller'[y] \in {teller[y], Off}, teller' \in [Tellers -> TellerStates],
           \A y \in Tellers : teller[y].pc = "burn" => burnt'[teller[y].r] = "none"
    PROVE  RedemptionInv'
<1>1. ASSUME NEW y \in Tellers PROVE TellerKnows(teller[y])'
  <2>1. PICK s : s = teller'[y]
    OBVIOUS
  <2>2. TellerKnows(s) /\ (s.pc = "burn" => burnt'[s.r] = "none")
    BY <2>1, OffIs DEF RedemptionInv
  <2>3. TellerKnows(s)'
    BY <2>2, TellerKept
  <2> QED BY <2>1, <2>3 DEF TellerKnows
<1>2. OneBurner'
  BY OffIs DEF OneBurner, RedemptionInv
<1> QED BY <1>1, <1>2 DEF RedemptionInv

LEMMA TimeOK ==
    ASSUME RedemptionInv,
           \/ \E s \in DOMAIN halted : CrashSite(s) \/ \E halt \in BOOLEAN : setRedemptionHalt(s, halt)
           \/ \E r \in Claims : FifteenMinutes(r) \/ SagaMovementEnds(r)
           \/ UNCHANGED redemptionVars
    PROVE  RedemptionInv'
<1>1. /\ claim \in [Claims -> ClaimRows] /\ burnt \in [Claims -> Movements] /\ paidOut \in [Claims -> Movements]
      /\ teller \in [Tellers -> TellerStates]
  BY DEF RedemptionInv, SagaTyped
<1>2. CASE /\ UNCHANGED <<claim, payRow, burnt, paidOut>> /\ teller' \in [Tellers -> TellerStates]
           /\ \A y \in Tellers : teller'[y] \in {teller[y], Off}
  <2>1. Furthered /\ SagaTyped' /\ SagaKnown'
    BY <1>2 DEF Furthered, RedemptionInv, SagaTyped, SagaKnown, PayoutsBacked
  <2>2. \A y \in Tellers : teller[y].pc = "burn" => burnt'[teller[y].r] = "none"
    BY <1>2, BurnersKnow
  <2> QED BY <1>2, <2>1, <2>2, AloneOK
<1>3. ASSUME NEW s \in DOMAIN halted, CrashSite(s) PROVE RedemptionInv'
  <2>1. teller' = [x \in Tellers |-> IF Site[x] = s THEN Off ELSE teller[x]] /\ UNCHANGED <<claim, payRow, burnt, paidOut>>
    BY <1>3 DEF CrashSite
  <2>2. teller' \in [Tellers -> TellerStates] /\ \A y \in Tellers : teller'[y] \in {teller[y], Off}
    BY <1>1, <2>1, OffIs
  <2> QED BY <1>2, <2>1, <2>2
<1>4. ASSUME NEW s \in DOMAIN halted, NEW halt \in BOOLEAN, setRedemptionHalt(s, halt) PROVE RedemptionInv'
  BY <1>1, <1>2, <1>4 DEF setRedemptionHalt
<1>5. ASSUME NEW r \in Claims, FifteenMinutes(r) PROVE RedemptionInv'
  <2>1. claim' = [claim EXCEPT ![r].old = TRUE] /\ UNCHANGED <<payRow, burnt, paidOut, teller>>
    BY <1>5 DEF FifteenMinutes
  <2>2. /\ claim' \in [Claims -> ClaimRows]
        /\ \A u \in Claims : claim'[u].status = claim[u].status /\ claim'[u].ledger = claim[u].ledger
    BY <1>1, <2>1 DEF ClaimRows
  <2>3. Furthered /\ SagaTyped' /\ SagaKnown'
    BY <2>1, <2>2 DEF Furthered, RedemptionInv, SagaTyped, SagaKnown, PayoutsBacked
  <2> QED BY <1>1, <2>1, <2>3, BurnersKnow, AloneOK
<1>6. ASSUME NEW r \in Claims, SagaMovementEnds(r) PROVE RedemptionInv'
  <2>1. UNCHANGED <<claim, payRow, teller>>
    BY <1>6 DEF SagaMovementEnds
  <2>2. /\ burnt' \in [Claims -> Movements] /\ paidOut' \in [Claims -> Movements]
        /\ \A u \in Claims : (burnt'[u] = "none" <=> burnt[u] = "none") /\ (paidOut'[u] = "none" <=> paidOut[u] = "none")
    BY <1>1, <1>6 DEF SagaMovementEnds, PutRow, Movements
  <2>3. Furthered /\ SagaTyped' /\ SagaKnown'
    BY <2>1, <2>2 DEF Furthered, RedemptionInv, SagaTyped, SagaKnown, PayoutsBacked
  <2>4. \A y \in Tellers : teller[y].pc = "burn" => burnt'[teller[y].r] = "none"
    BY <2>2, BurnersKnow, TellerIs
  <2> QED BY <1>1, <2>1, <2>3, <2>4, AloneOK
<1>7. CASE UNCHANGED redemptionVars
  BY <1>1, <1>2, <1>7 DEF redemptionVars
<1> QED BY <1>3, <1>4, <1>5, <1>6, <1>7

\* Whoever goes on with a redemption, after a crash or beside another sweep,
\* has seen its burn asked for.
THEOREM RedemptionInvariance == RedemptionSpec => []RedemptionInv
<1>1. RedemptionInit => RedemptionInv
  <2> SUFFICES ASSUME RedemptionInit PROVE RedemptionInv
    OBVIOUS
  <2>1. SagaTyped
    BY DEF RedemptionInit, SagaTyped, ClaimRows, PayStates, Movements
  <2>2. SagaKnown
    BY DEF RedemptionInit, SagaKnown, PayoutsBacked
  <2>3. teller \in [Tellers -> TellerStates] /\ \A x \in Tellers : teller[x] = Off
    BY OffIs DEF RedemptionInit
  <2>4. OneBurner
    BY <2>3, OffIs DEF OneBurner
  <2> QED BY <2>1, <2>2, <2>3, <2>4, OffIs DEF RedemptionInv
<1>2. RedemptionInv /\ [RedemptionNext]_redemptionVars => RedemptionInv'
  <2> SUFFICES ASSUME RedemptionInv, [RedemptionNext]_redemptionVars PROVE RedemptionInv'
    OBVIOUS
  <2>1. ASSUME NEW x \in Tellers,
               \/ burn(x) \/ markBurn(x) \/ markBurned(x) \/ payout(x) \/ payoutTransfer(x) \/ markPayout(x) \/ expire(x)
        PROVE  RedemptionInv'
    BY <2>1, BurnOK, MarkBurnOK, MarkBurnedOK, PayoutOK, PayoutTransferOK, MarkPayoutOK, ExpireOK
  <2>2. ASSUME NEW x \in Tellers, NEW r \in Claims, requestRedemption(x, r) \/ recoverRedemptions(x, r)
        PROVE  RedemptionInv'
    BY <2>2, RequestOK, RecoverOK
  <2> QED BY <2>1, <2>2, TimeOK DEF RedemptionNext
<1> QED BY <1>1, <1>2, PTL DEF RedemptionSpec

---------------------------------------------------------------------------
\* Sponsored fees

FeeRows == [rate: Nat, active: BOOLEAN]
Quotes == [version: Nat, rate: Nat, network: Nat, total: Nat, cap: Nat, at: Nat]
FeeKinds == {"withdraw", "execute", "activate", "deploy"}
WalletStates == [pc: {"idle", "quote", "approve", "posted", "attest"}, call: Nat, kind: FeeKinds, quote: Quotes,
                 nonce: Nat, tries: Nat]
FlightRecords == [c: Payers, call: Nat, kind: FeeKinds, quote: Quotes, nonce: Nat, network: Nat]
SettledRecords == [by: FlightRecords, protocol: Nat, actual: Nat, at: Nat, reconciled: BOOLEAN]

FeeTyped ==
    /\ policyRows \in Seq(FeeRows) /\ Len(policyRows) >= 2
    /\ DOMAIN policyCache = Apis
    /\ networkCost \in Nat /\ feeClock \in Nat
    /\ wallets \in [Payers -> WalletStates]
    /\ flights \subseteq FlightRecords /\ settledFees \subseteq SettledRecords
    /\ feeAccount \in [rail: {"svm", "evm"}, deployed: BOOLEAN, nonce: Nat]

\* Versions 1 and 2 have one rate wherever they are read: in the table, in the
\* code, in program and contracts.
ViewSound(view) ==
    /\ view.current \in DOMAIN view.rates /\ view.current \in Nat
    /\ \A v \in DOMAIN view.rates : view.rates[v] \in Nat /\ (v \in {1, 2} => view.rates[v] = 5000)

CacheSound(cache) == DOMAIN cache = Apis /\ \A a \in Apis : cache[a] = NoView \/ ViewSound(cache[a])

QuoteSound(quote) == quote.version \in {1, 2} => quote.rate = 5000

\* What a client has posted, its user approved.
WalletKnows(c, w) ==
    /\ QuoteSound(w.quote)
    /\ w.pc \in {"posted", "attest"} => <<c, w.call, w.quote>> \in approvals

\* The call is over for the client that made it.
CallOver(f) ==
    /\ f.call <= wallets[f.c].call
    /\ wallets[f.c].pc # "idle" => f.call < wallets[f.c].call

FlightKnown(f) ==
    /\ <<f.c, f.call, f.quote>> \in approvals /\ QuoteSound(f.quote) /\ CallOver(f)
    /\ f.network * 100 <= f.quote.network * 120

SettledKnown(s) ==
    /\ FlightKnown(s.by)
    /\ s.by.network + s.protocol <= s.by.quote.cap
    /\ s.protocol = protocolFeeOf(s.by.network, s.by.quote.rate)
    /\ s.at < s.by.quote.at + QuoteTtl

SameCall(f, g) == f.c = g.c /\ f.call = g.call

CallsOnce ==
    /\ \A f, g \in flights : SameCall(f, g) => f = g
    /\ \A s, t \in settledFees : SameCall(s.by, t.by) => s = t
    /\ \A f \in flights, s \in settledFees : ~SameCall(f, s.by)

FeeInv ==
    /\ FeeTyped /\ policyRows[1].rate = 5000 /\ policyRows[2].rate = 5000 /\ CacheSound(policyCache) /\ CallsOnce
    /\ \A c \in Payers : WalletKnows(c, wallets[c])
    /\ \A f \in flights : FlightKnown(f)
    /\ \A s \in settledFees : SettledKnown(s)

LEMMA FeesFollow == FeeInv => FeesAsApproved
<1> SUFFICES ASSUME FeeInv PROVE FeesAsApproved
  OBVIOUS
<1>1. ASSUME NEW s \in settledFees
      PROVE  \E quote \in {q[3] : q \in {p \in approvals : p[1] = s.by.c /\ p[2] = s.by.call}} :
                /\ s.by.network + s.protocol <= quote.cap
                /\ s.protocol = protocolFeeOf(s.by.network, quote.rate)
                /\ s.by.network * 100 <= quote.network * 120
                /\ s.at < quote.at + QuoteTtl
  <2>1. PICK q : q = <<s.by.c, s.by.call, s.by.quote>>
    OBVIOUS
  <2>2. q \in {p \in approvals : p[1] = s.by.c /\ p[2] = s.by.call} /\ q[3] = s.by.quote
    BY <2>1 DEF FeeInv, SettledKnown, FlightKnown
  <2>3. s.by.quote \in {x[3] : x \in {p \in approvals : p[1] = s.by.c /\ p[2] = s.by.call}}
    BY <2>2
  <2>4. /\ s.by.network + s.protocol <= s.by.quote.cap
        /\ s.protocol = protocolFeeOf(s.by.network, s.by.quote.rate)
        /\ s.by.network * 100 <= s.by.quote.network * 120
        /\ s.at < s.by.quote.at + QuoteTtl
    <3>1. SettledKnown(s)
      BY DEF FeeInv
    <3> QED BY <3>1 DEF SettledKnown, FlightKnown
  <2> QED BY <2>3, <2>4
<1>2. \A s, t \in settledFees : s.by.c = t.by.c /\ s.by.call = t.by.call => s = t
  BY DEF FeeInv, CallsOnce, SameCall
<1> QED BY <1>1, <1>2 DEF FeesAsApproved

---------------------------------------------------------------------------
\* Policies and quotes

LEMMA SmallestNumber ==
    ASSUME NEW S \in SUBSET Nat, S # {}
    PROVE  \E x \in S : \A y \in S : x <= y
<1>1. IsWellFoundedOn(OpToRel(<, Nat), Nat)
  BY NatLessThanWellFounded
<1>2. PICK x \in S : \A y \in S : ~(<<y, x>> \in OpToRel(<, Nat))
  BY <1>1, WFMin
<1>3. \A y \in S : ~(y < x)
  BY <1>2 DEF OpToRel
<1> QED BY <1>3

LEMMA FallbackSound == ViewSound(codeFallback)
<1>1. DOMAIN FEE_POLICY_TABLE = 1..2 /\ FEE_POLICY_TABLE[1] = 5000 /\ FEE_POLICY_TABLE[2] = 5000
  BY DEF FEE_POLICY_TABLE
<1>2. codeFallback.rates = FEE_POLICY_TABLE /\ codeFallback.current = 2
  BY DEF codeFallback
<1>3. \A v \in 1..2 : v = 1 \/ v = 2
  OBVIOUS
<1> QED BY <1>1, <1>2, <1>3 DEF ViewSound

LEMMA ReadSound == FeeInv => ViewSound(readPolicies)
<1> SUFFICES ASSUME FeeInv PROVE ViewSound(readPolicies)
  OBVIOUS
<1>1. /\ policyRows \in Seq(FeeRows) /\ Len(policyRows) \in Nat /\ Len(policyRows) >= 2
      /\ policyRows[1].rate = 5000 /\ policyRows[2].rate = 5000
  BY DEF FeeInv, FeeTyped
<1>2. DOMAIN policyRows = 1..Len(policyRows) /\ \A v \in 1..Len(policyRows) : policyRows[v] \in FeeRows
  BY <1>1
<1> DEFINE on == {v \in DOMAIN policyRows : policyRows[v].active}
           cur == readPolicies.current
           rates == readPolicies.rates
<1>3. /\ cur = IF on = {} THEN Len(policyRows) ELSE CHOOSE v \in on : \A o \in on : v <= o
      /\ rates = [v \in DOMAIN policyRows |-> policyRows[v].rate]
  BY DEF readPolicies
<1>4. on \subseteq 1..Len(policyRows) /\ on \in SUBSET Nat
  BY <1>1, <1>2
<1> HIDE DEF on, cur, rates
<1>5. cur \in 1..Len(policyRows)
  <2>1. CASE on = {}
    BY <1>1, <1>3, <2>1
  <2>2. CASE on # {}
    <3>1. \E v \in on : \A o \in on : v <= o
      BY <1>4, <2>2, SmallestNumber
    <3>2. (CHOOSE v \in on : \A o \in on : v <= o) \in on
      BY <3>1, Zenon
    <3> QED BY <1>3, <1>4, <2>2, <3>2
  <2> QED BY <2>1, <2>2
<1>6. DOMAIN rates = 1..Len(policyRows) /\ \A v \in 1..Len(policyRows) : rates[v] = policyRows[v].rate
  BY <1>2, <1>3
<1>7. \A v \in 1..Len(policyRows) : rates[v] \in Nat /\ (v \in {1, 2} => rates[v] = 5000)
  BY <1>1, <1>2, <1>6 DEF FeeRows
<1>8. readPolicies.rates = rates /\ readPolicies.current = cur
  BY DEF rates, cur
<1>9. cur \in Nat
  BY <1>1, <1>5
<1> QED BY <1>5, <1>6, <1>7, <1>8, <1>9 DEF ViewSound

LEMMA PoliciesSound ==
    ASSUME FeeInv, NEW a \in Apis, NEW view, policies(a, view)
    PROVE  ViewSound(view) /\ CacheSound(policyCache')
<1>1. CacheSound(policyCache)
  BY DEF FeeInv
<1>2. ViewSound(view)
  <2>1. CASE Cached(a) /\ view = policyCache[a]
    BY <1>1, <2>1 DEF Cached, CacheSound
  <2> QED BY <2>1, ReadSound, FallbackSound DEF policies
<1>3. policyCache' = [policyCache EXCEPT ![a] = view]
  BY DEF policies
<1>4. CacheSound(policyCache')
  BY <1>1, <1>2, <1>3 DEF CacheSound
<1> QED BY <1>2, <1>4

LEMMA FeeIsNat == ASSUME NEW n \in Nat, NEW r \in Nat PROVE protocolFeeOf(n, r) \in Nat
BY DEF protocolFeeOf

LEMMA NetworkIsNat == FeeInv => networkFee \in Nat
BY FeeQuoteConstants DEF FeeInv, FeeTyped, networkFee

LEMMA EnvelopeSound ==
    ASSUME FeeInv, NEW view, ViewSound(view), NEW network \in Nat
    PROVE  quoteEnvelope(view, network) \in Quotes /\ QuoteSound(quoteEnvelope(view, network))
<1>1. PICK rate \in Nat : rate = view.rates[view.current]
  BY DEF ViewSound
<1>2. PICK total \in Nat : total = network + protocolFeeOf(network, rate)
  BY FeeIsNat
<1>3. quoteEnvelope(view, network) = [version |-> view.current, rate |-> rate, network |-> network, total |-> total,
                                      cap |-> total, at |-> feeClock]
  BY <1>1, <1>2 DEF quoteEnvelope
<1>4. view.current \in Nat /\ feeClock \in Nat /\ (view.current \in {1, 2} => rate = 5000)
  BY <1>1 DEF ViewSound, FeeInv, FeeTyped
<1> QED BY <1>3, <1>4 DEF Quotes, QuoteSound

---------------------------------------------------------------------------
\* Sponsored fees: the steps

\* A client goes on with its call, ends it, or begins the next.
GoesOnWith(c, w) ==
    \/ w.call = wallets[c].call /\ (w.pc = "idle" \/ wallets[c].pc # "idle")
    \/ w.call = wallets[c].call + 1

LEMMA WalletChanged ==
    ASSUME FeeInv, NEW c \in Payers, NEW w \in WalletStates, wallets' = [wallets EXCEPT ![c] = w],
           GoesOnWith(c, w), WalletKnows(c, w)', approvals \subseteq approvals'
    PROVE  /\ wallets' \in [Payers -> WalletStates] /\ wallets'[c] = w
           /\ \A v \in Payers : WalletKnows(v, wallets[v])'
           /\ \A f \in FlightRecords : FlightKnown(f) => FlightKnown(f)'
<1>1. wallets \in [Payers -> WalletStates]
  BY DEF FeeInv, FeeTyped
<1>2. wallets' \in [Payers -> WalletStates] /\ wallets'[c] = w /\ \A v \in Payers \ {c} : wallets'[v] = wallets[v]
  BY <1>1
<1>3. ASSUME NEW v \in Payers PROVE WalletKnows(v, wallets[v])'
  <2>1. CASE v = c
    BY <1>2, <2>1
  <2>2. CASE v # c
    BY <1>2, <2>2 DEF FeeInv, WalletKnows
  <2> QED BY <2>1, <2>2
<1>4. wallets[c].call \in Nat /\ w.call \in Nat
  BY <1>1 DEF WalletStates
<1>5. ASSUME NEW f \in FlightRecords, CallOver(f) PROVE CallOver(f)'
  <2>1. f.call \in Nat /\ f.c \in Payers
    BY DEF FlightRecords
  <2>2. CASE f.c = c
    <3>1. wallets'[f.c] = w
      BY <1>2, <2>2
    <3>2. f.call <= w.call /\ (w.pc # "idle" => f.call < w.call)
      BY <1>4, <1>5, <2>1, <2>2 DEF CallOver, GoesOnWith
    <3> QED BY <3>1, <3>2 DEF CallOver
  <2>3. CASE f.c # c
    BY <1>2, <1>5, <2>1, <2>3 DEF CallOver
  <2> QED BY <2>2, <2>3
<1>6. ASSUME NEW f \in FlightRecords, FlightKnown(f) PROVE FlightKnown(f)'
  BY <1>5, <1>6 DEF FlightKnown
<1> QED BY <1>2, <1>3, <1>6

\* What has been charged stays known when no flight is forgotten.
LEMMA SettledStayKnown ==
    ASSUME FeeInv, UNCHANGED settledFees, \A f \in FlightRecords : FlightKnown(f) => FlightKnown(f)'
    PROVE  \A s \in settledFees' : SettledKnown(s)'
<1> SUFFICES ASSUME NEW s \in settledFees' PROVE SettledKnown(s)'
  OBVIOUS
<1>1. s \in settledFees /\ s.by \in FlightRecords
  BY DEF FeeInv, FeeTyped, SettledRecords
<1>2. SettledKnown(s)
  BY <1>1 DEF FeeInv
<1>3. FlightKnown(s.by)'
  BY <1>1, <1>2 DEF SettledKnown
<1> QED BY <1>2, <1>3 DEF SettledKnown

LEMMA WalletServed ==
    ASSUME FeeInv, NEW c \in Payers, NEW w \in WalletStates, wallets' = [wallets EXCEPT ![c] = w],
           GoesOnWith(c, w), WalletKnows(c, w)', approvals \subseteq approvals',
           CacheSound(policyCache'), UNCHANGED <<policyRows, networkCost, flights, settledFees, feeAccount, feeClock>>
    PROVE  FeeInv'
<1>1. /\ wallets' \in [Payers -> WalletStates] /\ \A v \in Payers : WalletKnows(v, wallets[v])'
      /\ \A f \in FlightRecords : FlightKnown(f) => FlightKnown(f)'
  BY WalletChanged
<1>2. FeeTyped'
  BY <1>1 DEF FeeInv, FeeTyped, CacheSound
<1>3. \A f \in flights' : FlightKnown(f)'
  BY <1>1 DEF FeeInv, FeeTyped
<1>4. \A s \in settledFees' : SettledKnown(s)'
  BY <1>1, SettledStayKnown
<1>5. CallsOnce'
  BY DEF FeeInv, CallsOnce
<1> QED BY <1>1, <1>2, <1>3, <1>4, <1>5 DEF FeeInv

LEMMA WalletIs ==
    ASSUME FeeInv, NEW c \in Payers
    PROVE  /\ wallets[c] \in WalletStates /\ WalletKnows(c, wallets[c]) /\ wallets[c].call \in Nat
           /\ wallets[c].quote \in Quotes /\ wallets[c].kind \in FeeKinds /\ feeAccount.nonce \in Nat
           /\ wallets[c].nonce \in Nat
BY DEF FeeInv, FeeTyped, WalletStates

LEMMA NoQuoteIs == NoQuote \in Quotes /\ QuoteSound(NoQuote)
BY DEF NoQuote, Quotes, QuoteSound

LEMMA GaveUpIs ==
    ASSUME FeeInv, NEW c \in Payers
    PROVE  /\ GaveUp(c) \in WalletStates /\ GoesOnWith(c, GaveUp(c)) /\ GaveUp(c).pc = "idle"
           /\ GaveUp(c).call = wallets[c].call /\ QuoteSound(GaveUp(c).quote)
<1>1. GaveUp(c) = [pc |-> "idle", call |-> wallets[c].call, kind |-> "withdraw", quote |-> NoQuote, nonce |-> 0, tries |-> 0]
  BY DEF GaveUp, AtRest
<1> QED BY <1>1, NoQuoteIs, WalletIs DEF WalletStates, FeeKinds, GoesOnWith

LEMMA PathsOfOne ==
    ASSUME NEW P, NEW W, NEW f \in [P -> W], NEW c \in P, NEW pc, NEW quote, NEW nonce
    PROVE  /\ [f EXCEPT ![c].pc = pc] = [f EXCEPT ![c] = [f[c] EXCEPT !.pc = pc]]
           /\ [f EXCEPT ![c].pc = pc, ![c].quote = quote]
                 = [f EXCEPT ![c] = [f[c] EXCEPT !.pc = pc, !.quote = quote]]
           /\ [f EXCEPT ![c].pc = pc, ![c].quote = quote, ![c].nonce = IF f[c].tries = 0 THEN @ ELSE nonce]
                 = [f EXCEPT ![c] = [f[c] EXCEPT !.pc = pc, !.quote = quote,
                                                 !.nonce = IF f[c].tries = 0 THEN f[c].nonce ELSE nonce]]
<1>1. [f EXCEPT ![c].pc = pc] = [f EXCEPT ![c] = [f[c] EXCEPT !.pc = pc]]
  BY Zenon
<1>2. [f EXCEPT ![c].pc = pc, ![c].quote = quote] = [f EXCEPT ![c] = [f[c] EXCEPT !.pc = pc, !.quote = quote]]
  BY Zenon
<1>3. [f EXCEPT ![c].pc = pc, ![c].quote = quote, ![c].nonce = IF f[c].tries = 0 THEN @ ELSE nonce]
         = [f EXCEPT ![c] = [f[c] EXCEPT !.pc = pc, !.quote = quote,
                                         !.nonce = IF f[c].tries = 0 THEN f[c].nonce ELSE nonce]]
  BY Zenon
<1> QED BY <1>1, <1>2, <1>3

LEMMA AtRestIs == AtRest \in WalletStates /\ AtRest.quote = NoQuote
BY NoQuoteIs DEF AtRest, WalletStates, FeeKinds

LEMMA CallOK ==
    ASSUME FeeInv, NEW c \in Payers, NEW kind \in FeeKinds, Call(c, kind)
    PROVE  FeeInv'
<1>1. PICK call \in Nat : call = wallets[c].call + 1
  BY WalletIs
<1>2. PICK nonce \in Nat : nonce = feeAccount.nonce
  BY WalletIs
<1>3. PICK w : w = [AtRest EXCEPT !.pc = "quote", !.call = call, !.kind = kind, !.nonce = nonce]
  OBVIOUS
<1>4. w \in WalletStates /\ w.call = call /\ w.pc = "quote" /\ w.quote = NoQuote
  BY <1>3, AtRestIs DEF WalletStates
<1>5. wallets' = [wallets EXCEPT ![c] = w]
  <2>1. wallets' = [wallets EXCEPT ![c] = [AtRest EXCEPT !.pc = "quote", !.call = wallets[c].call + 1, !.kind = kind,
                                                         !.nonce = feeAccount.nonce]]
    BY DEF Call
  <2> QED BY <1>1, <1>2, <1>3, <2>1
<1>6. WalletKnows(c, w)' /\ GoesOnWith(c, w)
  BY <1>1, <1>4, NoQuoteIs DEF WalletKnows, GoesOnWith, QuoteSound
<1>7. /\ CacheSound(policyCache') /\ approvals \subseteq approvals'
      /\ UNCHANGED <<policyRows, networkCost, flights, settledFees, feeAccount, feeClock>>
  BY DEF Call, FeeInv
<1> QED BY <1>4, <1>5, <1>6, <1>7, WalletServed

LEMMA QuotedOK ==
    ASSUME FeeInv, NEW c \in Payers, NEW a \in Apis, NEW network \in Nat, Quoted(c, a, network)
    PROVE  FeeInv'
<1>1. PICK view : /\ policies(a, view)
                  /\ wallets' = [wallets EXCEPT ![c].pc = "approve", ![c].quote = quoteEnvelope(view, network)]
  BY DEF Quoted
<1>2. ViewSound(view) /\ CacheSound(policyCache')
  BY <1>1, PoliciesSound
<1>3. PICK q \in Quotes : q = quoteEnvelope(view, network) /\ QuoteSound(q)
  BY <1>2, EnvelopeSound
<1>4. PICK w : w = [wallets[c] EXCEPT !.pc = "approve", !.quote = q]
  OBVIOUS
<1>5. w \in WalletStates /\ w.pc = "approve" /\ w.quote = q /\ w.call = wallets[c].call
  BY <1>4, WalletIs DEF WalletStates
<1>6. wallets' = [wallets EXCEPT ![c] = w]
  <2>1. wallets \in [Payers -> WalletStates]
    BY DEF FeeInv, FeeTyped
  <2>2. wallets' = [wallets EXCEPT ![c] = [wallets[c] EXCEPT !.pc = "approve", !.quote = quoteEnvelope(view, network)]]
    BY <1>1, <2>1, PathsOfOne, Zenon
  <2> QED BY <1>3, <1>4, <2>2
<1>7. WalletKnows(c, w)' /\ GoesOnWith(c, w)
  BY <1>3, <1>5 DEF WalletKnows, GoesOnWith, QuoteSound, Quoted
<1>8. approvals \subseteq approvals' /\ UNCHANGED <<policyRows, networkCost, flights, settledFees, feeAccount, feeClock>>
  BY DEF Quoted
<1> QED BY <1>2, <1>5, <1>6, <1>7, <1>8, WalletServed

\* A client goes on with the quote it has.
Continued(c, pc, quote, nonce, tries) ==
    [wallets[c] EXCEPT !.pc = pc, !.quote = quote, !.nonce = nonce, !.tries = tries]

LEMMA ContinuedIs ==
    ASSUME FeeInv, NEW c \in Payers, NEW pc \in {"quote", "posted", "attest"}, NEW quote \in Quotes, NEW nonce \in Nat,
           NEW tries \in Nat
    PROVE  LET w == Continued(c, pc, quote, nonce, tries)
           IN  w \in WalletStates /\ w.pc = pc /\ w.call = wallets[c].call /\ w.quote = quote
BY WalletIs DEF Continued, WalletStates
LEMMA OnQuoteOK ==
    ASSUME FeeInv, NEW c \in Payers, onQuote(c) \/ signView(c)
    PROVE  FeeInv'
<1>1. /\ UNCHANGED <<policyRows, networkCost, flights, settledFees, feeAccount, feeClock>>
      /\ UNCHANGED policyCache /\ wallets[c].pc = "approve"
  BY DEF onQuote, signView
<1>2. CacheSound(policyCache') /\ wallets \in [Payers -> WalletStates]
  BY <1>1 DEF FeeInv, FeeTyped
<1>3. CASE wallets' = [wallets EXCEPT ![c] = GaveUp(c)] /\ UNCHANGED approvals
  <2>1. PICK w \in WalletStates : w = GaveUp(c) /\ GoesOnWith(c, w) /\ w.pc = "idle" /\ QuoteSound(w.quote)
    BY GaveUpIs
  <2>2. WalletKnows(c, w)'
    BY <2>1 DEF WalletKnows, QuoteSound
  <2> QED BY <1>1, <1>2, <1>3, <2>1, <2>2, WalletServed
<1>4. ASSUME NEW quote \in Quotes, QuoteSound(quote), NEW nonce \in Nat,
             approvals' = approvals \cup {<<c, wallets[c].call, quote>>},
             wallets' = [wallets EXCEPT ![c] = [wallets[c] EXCEPT !.pc = "posted", !.quote = quote, !.nonce = nonce]]
      PROVE  FeeInv'
  <2>1. PICK w : w = [wallets[c] EXCEPT !.pc = "posted", !.quote = quote, !.nonce = nonce]
    OBVIOUS
  <2>2. w \in WalletStates /\ w.pc = "posted" /\ w.call = wallets[c].call /\ w.quote = quote
    BY <1>2, <2>1 DEF WalletStates
  <2>3. wallets' = [wallets EXCEPT ![c] = w]
    BY <1>4, <2>1
  <2>4. WalletKnows(c, w)' /\ GoesOnWith(c, w) /\ approvals \subseteq approvals'
    BY <1>1, <1>4, <2>2 DEF WalletKnows, GoesOnWith, QuoteSound
  <2> QED BY <1>1, <1>2, <2>2, <2>3, <2>4, WalletServed
<1>5. ASSUME NEW room \in Headrooms,
             approvals' = approvals \cup {<<c, wallets[c].call, [wallets[c].quote EXCEPT !.cap = @ + room]>>},
             wallets' = [wallets EXCEPT ![c].pc = "posted", ![c].quote = [wallets[c].quote EXCEPT !.cap = @ + room],
                            ![c].nonce = IF wallets[c].tries = 0 THEN @ ELSE feeAccount.nonce]
      PROVE  FeeInv'
  <2>1. PICK old \in Quotes : old = wallets[c].quote /\ QuoteSound(old)
    BY WalletIs DEF WalletKnows
  <2>2. PICK cap \in Nat : cap = old.cap + room
    BY FeeQuoteConstants DEF Quotes
  <2>3. PICK quote : quote = [old EXCEPT !.cap = cap]
    OBVIOUS
  <2>4. quote \in Quotes /\ quote.version = old.version /\ quote.rate = old.rate
    BY <2>3 DEF Quotes
  <2>5. QuoteSound(quote)
    BY <2>1, <2>4 DEF QuoteSound
  <2>6. quote = [wallets[c].quote EXCEPT !.cap = @ + room]
    BY <2>1, <2>2, <2>3
  <2>7. PICK nonce \in Nat : nonce = IF wallets[c].tries = 0 THEN wallets[c].nonce ELSE feeAccount.nonce
    BY WalletIs
  <2>8. wallets' = [wallets EXCEPT ![c].pc = "posted", ![c].quote = quote,
                       ![c].nonce = IF wallets[c].tries = 0 THEN @ ELSE feeAccount.nonce]
    BY <1>5, <2>6
  <2>9. wallets' = [wallets EXCEPT ![c] = [wallets[c] EXCEPT !.pc = "posted", !.quote = quote,
                       !.nonce = IF wallets[c].tries = 0 THEN wallets[c].nonce ELSE feeAccount.nonce]]
    BY <1>2, <2>8, PathsOfOne, Zenon
  <2>10. wallets' = [wallets EXCEPT ![c] = [wallets[c] EXCEPT !.pc = "posted", !.quote = quote, !.nonce = nonce]]
    BY <2>7, <2>9
  <2> QED BY <1>4, <1>5, <2>4, <2>5, <2>6, <2>10
<1>6. CASE /\ approvals' = approvals \cup {<<c, wallets[c].call, wallets[c].quote>>}
           /\ wallets' = [wallets EXCEPT ![c].pc = "posted"]
  <2>1. PICK quote \in Quotes : quote = wallets[c].quote /\ QuoteSound(quote)
    BY WalletIs DEF WalletKnows
  <2>2. PICK nonce \in Nat : nonce = wallets[c].nonce
    BY WalletIs
  <2>3. wallets' = [wallets EXCEPT ![c] = [wallets[c] EXCEPT !.pc = "posted"]]
    BY <1>2, <1>6, PathsOfOne, Zenon
  <2>4. wallets[c] \in WalletStates
    BY <1>2
  <2>5. [wallets[c] EXCEPT !.pc = "posted", !.quote = quote, !.nonce = nonce] = [wallets[c] EXCEPT !.pc = "posted"]
    BY <2>1, <2>2, <2>4 DEF WalletStates
  <2> QED BY <1>4, <1>6, <2>1, <2>3, <2>5
<1> QED BY <1>3, <1>5, <1>6 DEF onQuote, signView

LEMMA AnsweredOK ==
    ASSUME FeeInv, NEW c \in Payers, NEW err, Answered(c, err), wallets[c].pc \in {"posted", "attest"},
           CacheSound(policyCache'),
           UNCHANGED <<policyRows, networkCost, approvals, flights, settledFees, feeAccount, feeClock>>
    PROVE  FeeInv'
<1>1. wallets[c] \in WalletStates /\ feeAccount.nonce \in Nat /\ wallets[c].quote \in Quotes
  BY WalletIs
<1>2. QuoteSound(wallets[c].quote) /\ <<c, wallets[c].call, wallets[c].quote>> \in approvals
  BY WalletIs DEF WalletKnows
<1>3. ASSUME NEW w \in WalletStates, wallets' = [wallets EXCEPT ![c] = w], GoesOnWith(c, w), QuoteSound(w.quote),
             w.pc \in {"posted", "attest"} => w.call = wallets[c].call /\ w.quote = wallets[c].quote
      PROVE  FeeInv'
  <2>1. WalletKnows(c, w)'
    BY <1>2, <1>3 DEF WalletKnows, QuoteSound
  <2> QED BY <1>3, <2>1, WalletServed
<1>4. CASE wallets' = [wallets EXCEPT ![c] = GaveUp(c)]
  <2>1. PICK w \in WalletStates : w = GaveUp(c) /\ GoesOnWith(c, w) /\ w.pc = "idle" /\ QuoteSound(w.quote)
    BY GaveUpIs
  <2> QED BY <1>3, <1>4, <2>1
<1>5. ASSUME NEW pc \in {"posted", "quote"}, NEW nonce \in Nat,
             wallets' = [wallets EXCEPT ![c] = [wallets[c] EXCEPT !.pc = pc, !.tries = 1, !.nonce = nonce]]
      PROVE  FeeInv'
  <2>1. PICK w : w = [wallets[c] EXCEPT !.pc = pc, !.tries = 1, !.nonce = nonce]
    OBVIOUS
  <2>2. w \in WalletStates /\ w.pc = pc /\ w.call = wallets[c].call /\ w.quote = wallets[c].quote
    BY <1>1, <2>1 DEF WalletStates
  <2>3. GoesOnWith(c, w)
    BY <2>2 DEF GoesOnWith
  <2> QED BY <1>2, <1>3, <1>5, <2>1, <2>2, <2>3
<1>6. wallets' = [wallets EXCEPT ![c] =
          IF wallets[c].tries > 0 \/ wallets[c].kind \in Creating \/ err \notin {"stale", "re-quote"}
          THEN GaveUp(c)
          ELSE [wallets[c] EXCEPT !.pc = IF err = "stale" THEN "posted" ELSE "quote", !.tries = 1,
                                  !.nonce = IF err = "stale" THEN feeAccount.nonce ELSE wallets[c].nonce]]
  BY DEF Answered
<1>7. PICK pc \in {"posted", "quote"} : pc = IF err = "stale" THEN "posted" ELSE "quote"
  OBVIOUS
<1>8. PICK nonce \in Nat : nonce = IF err = "stale" THEN feeAccount.nonce ELSE wallets[c].nonce
  BY WalletIs
<1>9. CASE wallets[c].tries > 0 \/ wallets[c].kind \in Creating \/ err \notin {"stale", "re-quote"}
  BY <1>4, <1>6, <1>9
<1>10. CASE ~(wallets[c].tries > 0 \/ wallets[c].kind \in Creating \/ err \notin {"stale", "re-quote"})
  BY <1>5, <1>6, <1>7, <1>8, <1>10
<1> QED BY <1>9, <1>10

LEMMA SubmitOK ==
    ASSUME FeeInv, NEW c \in Payers, NEW a \in Apis, submitGate(c, a)
    PROVE  FeeInv'
<1>1. PICK view : /\ policies(a, view)
                  /\ LET err == GateError(c, view)
                     IN  IF err = "none" THEN wallets' = [wallets EXCEPT ![c].pc = "attest"] ELSE Answered(c, err)
  BY DEF submitGate
<1>2. CacheSound(policyCache')
  BY <1>1, PoliciesSound
<1>3. /\ UNCHANGED <<policyRows, networkCost, approvals, flights, settledFees, feeAccount, feeClock>>
      /\ wallets[c].pc = "posted"
  BY DEF submitGate
<1>4. PICK err : /\ err = GateError(c, view)
                 /\ IF err = "none" THEN wallets' = [wallets EXCEPT ![c].pc = "attest"] ELSE Answered(c, err)
  BY <1>1
<1>5. CASE err # "none"
  BY <1>2, <1>3, <1>4, <1>5, AnsweredOK
<1>6. CASE wallets' = [wallets EXCEPT ![c].pc = "attest"]
  <2>1. wallets \in [Payers -> WalletStates] /\ wallets[c] \in WalletStates
    BY DEF FeeInv, FeeTyped
  <2>2. PICK w : w = [wallets[c] EXCEPT !.pc = "attest"]
    OBVIOUS
  <2>3. w \in WalletStates /\ w.pc = "attest" /\ w.call = wallets[c].call /\ w.quote = wallets[c].quote
    BY <2>1, <2>2 DEF WalletStates
  <2>4. wallets' = [wallets EXCEPT ![c] = w]
    <3>1. wallets' = [wallets EXCEPT ![c] = [wallets[c] EXCEPT !.pc = "attest"]]
      BY <1>6, <2>1, PathsOfOne, Zenon
    <3> QED BY <2>2, <3>1
  <2>5. QuoteSound(wallets[c].quote) /\ <<c, wallets[c].call, wallets[c].quote>> \in approvals
    BY <1>3, WalletIs DEF WalletKnows
  <2>6. WalletKnows(c, w)' /\ GoesOnWith(c, w)
    BY <1>3, <2>3, <2>5 DEF WalletKnows, GoesOnWith, QuoteSound
  <2>7. approvals \subseteq approvals'
    BY <1>3
  <2> QED BY <1>2, <1>3, <2>3, <2>4, <2>6, <2>7, WalletServed
<1> QED BY <1>4, <1>5, <1>6

LEMMA BroadcastOK ==
    ASSUME FeeInv, NEW c \in Payers, NEW f \in FlightRecords, wallets[c].pc = "attest",
           f.c = c, f.call = wallets[c].call, f.quote = wallets[c].quote,
           f.network * 100 <= f.quote.network * 120,
           flights' = flights \cup {f}, wallets' = [wallets EXCEPT ![c] = GaveUp(c)], CacheSound(policyCache'),
           UNCHANGED <<policyRows, networkCost, approvals, settledFees, feeAccount, feeClock>>
    PROVE  FeeInv'
<1>1. PICK w \in WalletStates : /\ w = GaveUp(c) /\ GoesOnWith(c, w) /\ w.pc = "idle" /\ w.call = wallets[c].call
                                /\ QuoteSound(w.quote)
  BY GaveUpIs
<1>2. WalletKnows(c, w)'
  BY <1>1 DEF WalletKnows, QuoteSound
<1>3. /\ wallets' \in [Payers -> WalletStates] /\ wallets'[c] = w
      /\ \A v \in Payers : WalletKnows(v, wallets[v])'
      /\ \A g \in FlightRecords : FlightKnown(g) => FlightKnown(g)'
  BY <1>1, <1>2, WalletChanged
<1>4. FeeTyped'
  BY <1>3 DEF FeeInv, FeeTyped, CacheSound
<1>5. FlightKnown(f)'
  <2>1. wallets[c].call \in Nat /\ QuoteSound(f.quote) /\ <<f.c, f.call, f.quote>> \in approvals
    BY WalletIs DEF WalletKnows
  <2>2. CallOver(f)'
    BY <1>1, <1>3, <2>1 DEF CallOver
  <2> QED BY <2>1, <2>2 DEF FlightKnown, QuoteSound
<1>6. \A g \in flights' : FlightKnown(g)'
  BY <1>3, <1>5 DEF FeeInv, FeeTyped
<1>7. \A s \in settledFees' : SettledKnown(s)'
  BY <1>3, SettledStayKnown
<1>8. ASSUME NEW g \in FlightRecords, FlightKnown(g) PROVE ~SameCall(f, g) /\ ~SameCall(g, f)
  <2>1. g.call \in Nat /\ wallets[c].call \in Nat /\ wallets[c].pc # "idle"
    BY WalletIs DEF FlightRecords
  <2>2. CASE g.c = c
    <3>1. g.call < wallets[c].call
      BY <1>8, <2>1, <2>2 DEF FlightKnown, CallOver
    <3> QED BY <2>1, <3>1 DEF SameCall
  <2>3. CASE g.c # c
    BY <2>3 DEF SameCall
  <2> QED BY <2>2, <2>3
<1>9. \A g \in flights : ~SameCall(f, g) /\ ~SameCall(g, f)
  BY <1>8 DEF FeeInv, FeeTyped
<1>10. \A s \in settledFees : ~SameCall(f, s.by)
  <2> TAKE s \in settledFees
  <2>1. s.by \in FlightRecords
    BY DEF FeeInv, FeeTyped, SettledRecords
  <2>2. FlightKnown(s.by)
    BY DEF FeeInv, SettledKnown
  <2> QED BY <1>8, <2>1, <2>2
<1>11. CallsOnce'
  BY <1>9, <1>10 DEF FeeInv, CallsOnce
<1> QED BY <1>3, <1>4, <1>6, <1>7, <1>11 DEF FeeInv

LEMMA AttestOK ==
    ASSUME FeeInv, NEW c \in Payers, NEW a \in Apis, attest(c, a)
    PROVE  FeeInv'
<1>1. PICK view, err :
         /\ policies(a, view)
         /\ err = "none" => ~exceedsDriftBound(networkFee, wallets[c].quote.network)
         /\ \/ /\ err = "none"
               /\ flights' = flights \cup {[c |-> c, call |-> wallets[c].call, kind |-> wallets[c].kind,
                                            quote |-> wallets[c].quote, nonce |-> wallets[c].nonce,
                                            network |-> networkFee]}
               /\ wallets' = [wallets EXCEPT ![c] = GaveUp(c)]
            \/ Answered(c, err) /\ UNCHANGED flights
            \/ Answered(c, "insufficient") /\ UNCHANGED flights
  <2>1. PICK view :
          LET quote == wallets[c].quote
              total == networkFee + protocolFeeOf(networkFee, RateOf(view, quote.version))
              err == CASE ~Rated(view, quote.version)                   -> "unknown"
                       [] exceedsDriftBound(networkFee, quote.network) -> "re-quote"
                       [] exceedsMaxTotalFee(total, quote.cap)         -> "re-quote"
                       [] OTHER                                        -> "none"
          IN  /\ policies(a, view)
              /\ \/ /\ err = "none"
                    /\ flights' = flights \cup {[c |-> c, call |-> wallets[c].call, kind |-> wallets[c].kind,
                                                 quote |-> quote, nonce |-> wallets[c].nonce,
                                                 network |-> networkFee]}
                    /\ wallets' = [wallets EXCEPT ![c] = GaveUp(c)]
                 \/ err # "none" /\ Answered(c, err) /\ UNCHANGED flights
                 \/ Answered(c, "insufficient") /\ UNCHANGED flights
    BY DEF attest
  <2> DEFINE total == networkFee + protocolFeeOf(networkFee, RateOf(view, wallets[c].quote.version))
             error == CASE ~Rated(view, wallets[c].quote.version)                  -> "unknown"
                        [] exceedsDriftBound(networkFee, wallets[c].quote.network) -> "re-quote"
                        [] exceedsMaxTotalFee(total, wallets[c].quote.cap)         -> "re-quote"
                        [] OTHER                                                   -> "none"
  <2>2. error = "none" => ~exceedsDriftBound(networkFee, wallets[c].quote.network)
    OBVIOUS
  <2>3. /\ policies(a, view)
        /\ \/ /\ error = "none"
              /\ flights' = flights \cup {[c |-> c, call |-> wallets[c].call, kind |-> wallets[c].kind,
                                           quote |-> wallets[c].quote, nonce |-> wallets[c].nonce,
                                           network |-> networkFee]}
              /\ wallets' = [wallets EXCEPT ![c] = GaveUp(c)]
           \/ Answered(c, error) /\ UNCHANGED flights
           \/ Answered(c, "insufficient") /\ UNCHANGED flights
    BY <2>1
  <2> HIDE DEF error
  <2> QED BY <2>2, <2>3
<1>2. CacheSound(policyCache')
  BY <1>1, PoliciesSound
<1>3. /\ UNCHANGED <<policyRows, networkCost, approvals, settledFees, feeAccount, feeClock>>
      /\ wallets[c].pc = "attest"
  BY DEF attest
<1>4. ASSUME NEW e, Answered(c, e), UNCHANGED flights PROVE FeeInv'
  BY <1>2, <1>3, <1>4, AnsweredOK
<1>5. CASE /\ err = "none"
           /\ flights' = flights \cup {[c |-> c, call |-> wallets[c].call, kind |-> wallets[c].kind,
                                        quote |-> wallets[c].quote, nonce |-> wallets[c].nonce,
                                        network |-> networkFee]}
           /\ wallets' = [wallets EXCEPT ![c] = GaveUp(c)]
  <2>1. PICK n \in Nat : n = networkFee
    BY NetworkIsNat
  <2>2. PICK f : f = [c |-> c, call |-> wallets[c].call, kind |-> wallets[c].kind, quote |-> wallets[c].quote,
                      nonce |-> wallets[c].nonce, network |-> n]
    OBVIOUS
  <2>3. f \in FlightRecords /\ f.c = c /\ f.call = wallets[c].call /\ f.quote = wallets[c].quote /\ f.network = n
    BY <2>2, WalletIs DEF FlightRecords
  <2>4. n * 100 <= wallets[c].quote.network * 120
    <3>1. wallets[c].quote.network \in Nat
      BY WalletIs DEF Quotes
    <3>2. ~exceedsDriftBound(n, wallets[c].quote.network)
      BY <1>1, <1>5, <2>1
    <3> QED BY <3>1, <3>2 DEF exceedsDriftBound
  <2>5. flights' = flights \cup {f} /\ wallets' = [wallets EXCEPT ![c] = GaveUp(c)]
    BY <1>5, <2>1, <2>2
  <2> QED BY <1>2, <1>3, <2>3, <2>4, <2>5, BroadcastOK
<1> QED BY <1>1, <1>4, <1>5

LEMMA KnownStays ==
    ASSUME UNCHANGED <<wallets, approvals>>
    PROVE  /\ \A c \in Payers : WalletKnows(c, wallets[c]) => WalletKnows(c, wallets[c])'
           /\ \A f \in FlightRecords : FlightKnown(f) => FlightKnown(f)'
           /\ \A s \in SettledRecords : SettledKnown(s) => SettledKnown(s)'
<1>1. \A c \in Payers : WalletKnows(c, wallets[c]) => WalletKnows(c, wallets[c])'
  BY DEF WalletKnows
<1>2. \A f : FlightKnown(f) => FlightKnown(f)'
  BY DEF FlightKnown, CallOver
<1>3. \A s \in SettledRecords : SettledKnown(s) => SettledKnown(s)'
  BY <1>2 DEF SettledKnown
<1> QED BY <1>1, <1>2, <1>3

LEMMA LandOK ==
    ASSUME FeeInv, NEW f \in flights, LandFee(f)
    PROVE  FeeInv'
<1>1. f \in FlightRecords /\ FlightKnown(f) /\ f.network \in Nat /\ f.quote \in Quotes
  BY DEF FeeInv, FeeTyped, FlightRecords
<1>2. /\ UNCHANGED <<wallets, approvals, policyRows, policyCache, networkCost, feeClock>>
      /\ flights' = flights \ {f}
  BY DEF LandFee
<1>3. PICK protocol \in Nat : protocol = protocolFeeOf(f.network, FEE_POLICY_TABLE[f.quote.version])
                              /\ protocol = protocolFeeOf(f.network, f.quote.rate)
                              /\ f.network + protocol <= f.quote.cap
  <2>1. f.quote.version \in {1, 2}
    BY DEF LandFee, Settles
  <2>2. f.quote.rate = 5000
    BY <1>1, <2>1 DEF FlightKnown, QuoteSound
  <2>3. FEE_POLICY_TABLE[f.quote.version] = 5000
    BY <2>1 DEF FEE_POLICY_TABLE
  <2>4. protocolFeeOf(f.network, 5000) \in Nat
    <3>1. PICK n \in Nat : n = f.network
      BY <1>1
    <3>2. PICK rate \in Nat : rate = 5000
      OBVIOUS
    <3>3. protocolFeeOf(n, rate) \in Nat
      BY FeeIsNat
    <3> QED BY <3>1, <3>2, <3>3
  <2>5. f.network + protocolFeeOf(f.network, FEE_POLICY_TABLE[f.quote.version]) <= f.quote.cap
    BY DEF LandFee, Settles
  <2> QED BY <2>2, <2>3, <2>4, <2>5
<1>4. PICK actual \in Nat : actual = IF feeAccount.rail = "svm" THEN networkCost ELSE networkFee
  BY NetworkIsNat DEF FeeInv, FeeTyped
<1>5. PICK s : s = [by |-> f, protocol |-> protocol, actual |-> actual, at |-> feeClock, reconciled |-> FALSE]
  OBVIOUS
<1>6. settledFees' = settledFees \cup {s}
  BY <1>3, <1>4, <1>5 DEF LandFee
<1>7. s \in SettledRecords /\ s.by = f /\ s.protocol = protocol /\ s.at = feeClock
  BY <1>1, <1>5 DEF SettledRecords, FeeInv, FeeTyped
<1>8. feeAccount' \in [rail: {"svm", "evm"}, deployed: BOOLEAN, nonce: Nat]
  <2>1. PICK n \in Nat : n = IF f.kind \in Creating THEN feeAccount.nonce ELSE feeAccount.nonce + 1
    BY DEF FeeInv, FeeTyped
  <2>2. feeAccount \in [rail: {"svm", "evm"}, deployed: BOOLEAN, nonce: Nat]
    BY DEF FeeInv, FeeTyped
  <2>3. feeAccount' = [feeAccount EXCEPT !.deployed = TRUE, !.nonce = n]
    BY <2>1 DEF LandFee
  <2> QED BY <2>2, <2>3
<1>9. FeeTyped'
  BY <1>2, <1>6, <1>7, <1>8 DEF FeeInv, FeeTyped
<1>10. SettledKnown(s)
  <2>1. feeClock < f.quote.at + QuoteTtl
    BY DEF LandFee, Settles, Expiry
  <2> QED BY <1>1, <1>3, <1>7, <2>1 DEF SettledKnown
<1>11. /\ \A c \in Payers : WalletKnows(c, wallets[c])'
       /\ \A g \in flights' : FlightKnown(g)'
       /\ \A t \in settledFees' : SettledKnown(t)'
  BY <1>2, <1>6, <1>7, <1>10, KnownStays DEF FeeInv, FeeTyped
<1>12. CallsOnce'
  BY <1>2, <1>6, <1>7 DEF FeeInv, CallsOnce, SameCall
<1> QED BY <1>2, <1>9, <1>11, <1>12 DEF FeeInv, CacheSound

LEMMA ReconciledOK ==
    ASSUME FeeInv, NEW s \in settledFees, NEW loss, Reconciled(s, loss)
    PROVE  FeeInv'
<1>1. s \in SettledRecords /\ SettledKnown(s)
  BY DEF FeeInv, FeeTyped
<1>2. PICK t : t = [s EXCEPT !.reconciled = TRUE]
  OBVIOUS
<1>3. t \in SettledRecords /\ t.by = s.by /\ t.protocol = s.protocol /\ t.at = s.at
  BY <1>1, <1>2 DEF SettledRecords
<1>4. /\ settledFees' = (settledFees \ {s}) \cup {t}
      /\ UNCHANGED <<policyRows, policyCache, networkCost, wallets, approvals, flights, feeAccount, feeClock>>
  BY <1>2 DEF Reconciled
<1>5. SettledKnown(t)
  BY <1>1, <1>3 DEF SettledKnown
<1>6. FeeTyped'
  BY <1>3, <1>4 DEF FeeInv, FeeTyped
<1>7. /\ \A c \in Payers : WalletKnows(c, wallets[c])'
      /\ \A g \in flights' : FlightKnown(g)'
      /\ \A u \in settledFees' : SettledKnown(u)'
  BY <1>3, <1>4, <1>5, KnownStays DEF FeeInv, FeeTyped
<1>8. CallsOnce'
  BY <1>3, <1>4 DEF FeeInv, CallsOnce, SameCall
<1> QED BY <1>4, <1>6, <1>7, <1>8 DEF FeeInv, CacheSound

\* The rest of the steps touch neither clients nor flights nor charges.
LEMMA FeesAside ==
    ASSUME FeeInv, FeeTyped', CacheSound(policyCache'), policyRows'[1].rate = 5000, policyRows'[2].rate = 5000,
           UNCHANGED <<wallets, approvals, flights, settledFees>>
    PROVE  FeeInv'
<1>1. /\ \A c \in Payers : WalletKnows(c, wallets[c])'
      /\ \A g \in flights' : FlightKnown(g)'
      /\ \A u \in settledFees' : SettledKnown(u)'
  BY KnownStays DEF FeeInv, FeeTyped
<1>2. CallsOnce'
  BY DEF FeeInv, CallsOnce
<1> QED BY <1>1, <1>2 DEF FeeInv

LEMMA MarketOK ==
    ASSUME FeeInv, OtherSpend \/ FeeTick \/ \E price \in Prices : Move(price)
    PROVE  FeeInv'
<1>1. UNCHANGED <<policyRows, policyCache, wallets, approvals, flights, settledFees>>
  BY DEF OtherSpend, FeeTick, Move
<1>2. feeAccount' \in [rail: {"svm", "evm"}, deployed: BOOLEAN, nonce: Nat]
  <2>1. PICK n \in Nat : n = feeAccount.nonce + 1
    BY WalletIs DEF FeeInv, FeeTyped
  <2>2. feeAccount \in [rail: {"svm", "evm"}, deployed: BOOLEAN, nonce: Nat]
    BY DEF FeeInv, FeeTyped
  <2>3. feeAccount' = feeAccount \/ feeAccount' = [feeAccount EXCEPT !.deployed = TRUE, !.nonce = n]
    BY <2>1 DEF OtherSpend, FeeTick, Move
  <2> QED BY <2>2, <2>3
<1>3. networkCost' \in Nat /\ feeClock' \in Nat
  <2>1. networkCost \in Nat /\ feeClock \in Nat
    BY DEF FeeInv, FeeTyped
  <2>2. networkCost' = networkCost \/ networkCost' \in Prices
    BY DEF OtherSpend, FeeTick, Move
  <2>3. feeClock' = feeClock \/ feeClock' = feeClock + 1
    BY DEF OtherSpend, FeeTick, Move
  <2>4. networkCost' \in Nat
    BY <2>1, <2>2, PricesAssumption
  <2> QED BY <2>1, <2>3, <2>4
<1>4. FeeTyped'
  BY <1>1, <1>2, <1>3 DEF FeeInv, FeeTyped
<1>5. CacheSound(policyCache') /\ policyRows'[1].rate = 5000 /\ policyRows'[2].rate = 5000
  BY <1>1 DEF FeeInv
<1> QED BY <1>1, <1>4, <1>5, FeesAside

LEMMA ForgetSound ==
    ASSUME FeeInv, NEW a \in Apis, policyCache' = [policyCache EXCEPT ![a] = NoView]
    PROVE  CacheSound(policyCache')
BY DEF FeeInv, CacheSound

LEMMA PolicyOK ==
    ASSUME FeeInv, NEW a \in Apis,
           \/ \E rate \in NewRates : createPolicy(a, rate)
           \/ \E v \in DOMAIN policyRows : activateVersion(a, v)
    PROVE  FeeInv'
<1>1. /\ UNCHANGED <<networkCost, wallets, approvals, flights, settledFees, feeAccount, feeClock>>
      /\ policyCache' = [policyCache EXCEPT ![a] = NoView]
  BY DEF createPolicy, activateVersion
<1>2. /\ policyRows \in Seq(FeeRows) /\ Len(policyRows) \in Nat /\ Len(policyRows) >= 2
      /\ policyRows[1].rate = 5000 /\ policyRows[2].rate = 5000
  BY DEF FeeInv, FeeTyped
<1>3. 1 \in DOMAIN policyRows /\ 2 \in DOMAIN policyRows /\ \A v \in DOMAIN policyRows : policyRows[v] \in FeeRows
  BY <1>2
<1>4. ASSUME policyRows' \in Seq(FeeRows), Len(policyRows') >= 2, policyRows'[1].rate = 5000, policyRows'[2].rate = 5000
      PROVE  FeeInv'
  <2>1. CacheSound(policyCache')
    BY <1>1, ForgetSound
  <2>2. FeeTyped'
    BY <1>1, <1>4, <2>1 DEF FeeInv, FeeTyped, CacheSound
  <2> QED BY <1>1, <1>4, <2>1, <2>2, FeesAside
<1>5. ASSUME NEW rate \in NewRates, createPolicy(a, rate) PROVE FeeInv'
  <2>0. rate \in Nat
    BY FeeQuoteConstants
  <2>1. PICK fresh \in FeeRows : fresh = [rate |-> rate, active |-> FALSE]
    BY <2>0 DEF FeeRows
  <2>2. policyRows' = Append(policyRows, fresh)
    BY <1>5, <2>1 DEF createPolicy
  <2>3. policyRows' \in Seq(FeeRows) /\ Len(policyRows') >= 2
    BY <1>2, <2>2
  <2>4. policyRows'[1] = policyRows[1] /\ policyRows'[2] = policyRows[2]
    BY <1>2, <2>2
  <2> QED BY <1>2, <1>4, <2>3, <2>4
<1>6. ASSUME NEW version \in DOMAIN policyRows, activateVersion(a, version) PROVE FeeInv'
  <2>1. policyRows' = [v \in DOMAIN policyRows |-> [policyRows[v] EXCEPT !.active = v = version]]
    BY <1>6 DEF activateVersion
  <2>2. \A v \in DOMAIN policyRows : /\ [policyRows[v] EXCEPT !.active = v = version] \in FeeRows
                                     /\ [policyRows[v] EXCEPT !.active = v = version].rate = policyRows[v].rate
    BY <1>3 DEF FeeRows
  <2>3. \A v \in DOMAIN policyRows : policyRows'[v] \in FeeRows /\ policyRows'[v].rate = policyRows[v].rate
    BY <2>1, <2>2
  <2>4. policyRows' \in Seq(FeeRows) /\ Len(policyRows') = Len(policyRows)
    BY <1>2, <2>1, <2>2
  <2> QED BY <1>2, <1>3, <1>4, <2>3, <2>4
<1> QED BY <1>5, <1>6

LEMMA FeeStartOK == FeeInit => FeeInv
<1> SUFFICES ASSUME FeeInit PROVE FeeInv
  OBVIOUS
<1>1. networkCost \in Nat
  <2>0. Prices \subseteq Nat /\ Prices # {}
    BY PricesAssumption
  <2>1. Prices \in SUBSET Nat /\ Prices # {}
    BY <2>0, Zenon
  <2>2. \E p \in Prices : \A o \in Prices : p <= o
    BY <2>1, SmallestNumber
  <2>3. (CHOOSE p \in Prices : \A o \in Prices : p <= o) \in Prices
    BY <2>2, Zenon
  <2> QED BY <2>1, <2>3, Zenon DEF FeeInit
<1>2. /\ policyRows \in Seq(FeeRows) /\ Len(policyRows) >= 2
      /\ policyRows[1].rate = 5000 /\ policyRows[2].rate = 5000
  <2> DEFINE off == [rate |-> 5000, active |-> FALSE]
             on == [rate |-> 5000, active |-> TRUE]
  <2>1. off \in FeeRows /\ off.rate = 5000 /\ on \in FeeRows /\ on.rate = 5000
    BY DEF FeeRows
  <2>2. policyRows = <<off, on>>
    BY DEF FeeInit
  <2> HIDE DEF off, on
  <2> QED BY <2>1, <2>2
<1>3. wallets \in [Payers -> WalletStates] /\ \A c \in Payers : wallets[c] = AtRest
  BY AtRestIs DEF FeeInit
<1>4. feeAccount \in [rail: {"svm", "evm"}, deployed: BOOLEAN, nonce: Nat]
  <2>1. Rails \subseteq {"svm", "evm"} /\ {FALSE} \subseteq BOOLEAN /\ {0} \subseteq Nat
    BY FeeQuoteConstants
  <2>2. feeAccount \in [rail: Rails, deployed: {FALSE}, nonce: {0}]
    BY Zenon DEF FeeInit
  <2> QED BY <2>1, <2>2, Zenon
<1>5. FeeTyped
  BY <1>1, <1>2, <1>3, <1>4 DEF FeeInit, FeeTyped
<1>6. AtRest.pc = "idle" /\ AtRest.quote = NoQuote
  BY DEF AtRest
<1>7. ASSUME NEW c \in Payers PROVE WalletKnows(c, wallets[c])
  BY <1>3, <1>6, NoQuoteIs DEF WalletKnows
<1>8. CacheSound(policyCache) /\ CallsOnce
  BY DEF FeeInit, CacheSound, CallsOnce
<1>9. flights = {} /\ settledFees = {}
  BY DEF FeeInit
<1> QED BY <1>2, <1>5, <1>7, <1>8, <1>9 DEF FeeInv

LEMMA FeeStepOK == FeeInv /\ [FeeNext]_feeVars => FeeInv'
<1> SUFFICES ASSUME FeeInv, [FeeNext]_feeVars PROVE FeeInv'
  OBVIOUS
<1>1. ASSUME NEW a \in Apis,
             \/ \E rate \in NewRates : createPolicy(a, rate)
             \/ \E v \in DOMAIN policyRows : activateVersion(a, v)
      PROVE  FeeInv'
  BY <1>1, PolicyOK
<1>2. ASSUME NEW a \in Apis, NEW c \in Payers,
             quoteWithdraw(c, a) \/ quoteExecute(c, a) \/ viewOfActivation(c, a) \/ viewOfFees(c, a)
      PROVE  FeeInv'
  <2>1. networkFee \in Nat /\ \A n \in deployQuotes : n \in Nat
    BY NetworkIsNat DEF deployQuotes
  <2>2. \E n \in Nat : Quoted(c, a, n)
    BY <1>2, <2>1 DEF quoteWithdraw, quoteExecute, viewOfActivation, viewOfFees
  <2> QED BY <2>2, QuotedOK
<1>3. ASSUME NEW a \in Apis, NEW c \in Payers, submitGate(c, a) \/ attest(c, a)
      PROVE  FeeInv'
  BY <1>3, SubmitOK, AttestOK
<1>4. ASSUME NEW c \in Payers, withdrawCall(c) \/ executeCall(c) \/ activateCall(c) \/ deployCall(c)
      PROVE  FeeInv'
  <2>1. \E kind \in FeeKinds : Call(c, kind)
    BY <1>4 DEF withdrawCall, executeCall, activateCall, deployCall, FeeKinds
  <2> QED BY <2>1, CallOK
<1>5. ASSUME NEW c \in Payers, onQuote(c) \/ signView(c)
      PROVE  FeeInv'
  BY <1>5, OnQuoteOK
<1>6. ASSUME NEW f \in flights, LandFee(f)
      PROVE  FeeInv'
  BY <1>6, LandOK
<1>7. ASSUME NEW s \in settledFees, reconcileSpend(s) \/ reconcileDeploy(s)
      PROVE  FeeInv'
  <2>1. \E loss : Reconciled(s, loss)
    BY <1>7 DEF reconcileSpend, reconcileDeploy
  <2> QED BY <2>1, ReconciledOK
<1>8. CASE OtherSpend \/ FeeTick \/ \E price \in Prices : Move(price)
  BY <1>8, MarketOK
<1>9. CASE UNCHANGED feeVars
  <2>1. UNCHANGED <<policyRows, policyCache, networkCost, wallets, approvals, flights, settledFees, feeAccount, feeClock>>
    BY <1>9 DEF feeVars
  <2>2. FeeTyped' /\ CacheSound(policyCache')
    BY <2>1 DEF FeeInv, FeeTyped, CacheSound
  <2>3. policyRows'[1].rate = 5000 /\ policyRows'[2].rate = 5000
    BY <2>1 DEF FeeInv
  <2> QED BY <2>1, <2>2, <2>3, FeesAside
<1> QED BY <1>1, <1>2, <1>3, <1>4, <1>5, <1>6, <1>7, <1>8, <1>9 DEF FeeNext

\* Every quote a client holds has the rate its version has on chain, what it
\* has posted its user approved, and no call is broadcast twice.
THEOREM FeeInvariance == FeeSpec => []FeeInv
<1>1. FeeInit => FeeInv
  BY FeeStartOK
<1>2. FeeInv /\ [FeeNext]_feeVars => FeeInv'
  BY FeeStepOK
<1> QED BY <1>1, <1>2, PTL DEF FeeSpec

---------------------------------------------------------------------------
\* Experience: the inductive invariant

XpStates == [total: Int, level: {1, 2}, policy: Policies]
XpEntries == [user: Users, delta: Int, app: XpApps \cup {"admin"}]
QuotaRows == XpApps \cup {Owner}
Submissions ==
    [pc: {"state", "app", "org", "append"}, app: XpApps, event: XpEvents, user: Users, tries: {0, 1},
     held: SUBSET (Users \cup QuotaRows)]
Corrections == [pc: {"adjust"}, user: Users, delta: Int, policy: Policies]

XpTyped ==
    /\ DOMAIN xp \subseteq Users /\ xp \in [DOMAIN xp -> XpStates]
    /\ journal \in Seq(XpEntries)
    /\ completion \subseteq [app: XpApps, event: XpEvents, user: Users] /\ IsFiniteSet(completion)
    /\ intake \in [Intakes -> Submissions \cup {NoIntake}]
    /\ quota \in [QuotaRows -> [cap: Nat, suspended: BOOLEAN]] /\ highest \in [QuotaRows -> 0..NoCap]
    /\ policy \in Policies
    /\ admin.pc = "adjust" => admin \in Corrections
    /\ admin.pc = "page" => admin.policy \in Policies

\* A row lock has one holder, and a user's is on a row that exists.
LocksApart == \A v, w \in Intakes : v # w => intake[v].held \cap intake[w].held = {}
UserLocked == \A w \in Intakes : intake[w] # NoIntake /\ intake[w].user \in intake[w].held => intake[w].user \in DOMAIN xp

\* Whose row is locked has not done the task.
TaskOpen ==
    \A w \in Intakes : intake[w] # NoIntake /\ intake[w].user \in intake[w].held =>
        \A c \in completion : c.user # intake[w].user

\* A cap that never was lifted has a row to lock.
CapsKept == \A a \in QuotaRows : highest[a] # NoCap => quota[a].cap # NoCap /\ quota[a].cap <= highest[a]

\* An intake past a quota row holds it, and past the evaluation there is room.
QuotaLocked ==
    \A w \in Intakes : intake[w].pc \in {"org", "append"} /\ highest[intake[w].app] # NoCap => intake[w].app \in intake[w].held
RoomLeft(w, a) == highest[a] # NoCap => a \in intake[w].held /\ Awarded(a) + Reward <= highest[a]
RoomKept == \A w \in Intakes : intake[w].pc = "append" => RoomLeft(w, intake[w].app) /\ RoomLeft(w, Owner)

\* Entries and completions are of users with a row.
NoEarlierEntries == \A u \in Users : u \notin DOMAIN xp => EntriesOf(u) = {}
CompletionsHaveRows == \A c \in completion : c.user \in DOMAIN xp

XpInv ==
    /\ XpTyped /\ LocksApart /\ UserLocked /\ TaskOpen /\ CapsKept /\ QuotaLocked /\ RoomKept
    /\ NoEarlierEntries /\ CompletionsHaveRows /\ XpAccounted

\* What an untouched ledger says stays.
LEMMA XpSumsSame ==
    ASSUME UNCHANGED journal
    PROVE  /\ \A u : TotalOf(u)' = TotalOf(u) /\ EntriesOf(u)' = EntriesOf(u)
           /\ \A a : Awarded(a)' = Awarded(a) /\ AwardsOf(a)' = AwardsOf(a)
BY DEF TotalOf, EntriesOf, Awarded, AwardsOf, Deltas

\* One more entry counts for its user, its app and the owner.
LEMMA XpSumsGrow ==
    ASSUME journal \in Seq(XpEntries), NEW u \in Users, NEW delta \in Int, NEW source \in XpApps \cup {"admin"},
           journal' = Append(journal, Entry(u, delta, source))
    PROVE  /\ journal' \in Seq(XpEntries)
           /\ \A v \in Users : TotalOf(v) \in Int /\ TotalOf(v)' = TotalOf(v) + (IF v = u THEN delta ELSE 0)
           /\ \A v \in Users : v # u => EntriesOf(v)' = EntriesOf(v)
           /\ \A a \in QuotaRows :
                 /\ Awarded(a) \in Int
                 /\ Awarded(a)' = Awarded(a) + (IF source = a \/ (a = Owner /\ source \in XpApps) THEN delta ELSE 0)
           /\ Cardinality(AwardsOf(Owner)) \in Nat
           /\ Cardinality(AwardsOf(Owner))' = Cardinality(AwardsOf(Owner)) + (IF source \in XpApps THEN 1 ELSE 0)
<1> DEFINE n == Len(journal)
<1>1. /\ n \in Nat /\ DOMAIN journal = 1..n /\ IsFiniteSet(DOMAIN journal)
      /\ \A k \in 1..n : journal[k] \in XpEntries
  <2>1. n \in Nat /\ DOMAIN journal = 1..n /\ \A k \in 1..n : journal[k] \in XpEntries
    OBVIOUS
  <2>2. IsFiniteSet(1..n)
    BY <2>1, FS_Interval
  <2> QED BY <2>1, <2>2
<1>2. Entry(u, delta, source) \in XpEntries /\ Entry(u, delta, source).delta = delta
      /\ Entry(u, delta, source).user = u /\ Entry(u, delta, source).app = source
  BY DEF Entry, XpEntries
<1>3. /\ journal' \in Seq(XpEntries) /\ DOMAIN journal' = (1..n) \cup {n + 1}
      /\ (\A k \in 1..n : journal'[k] = journal[k]) /\ journal'[n + 1] = Entry(u, delta, source)
  BY <1>1, <1>2
<1>4. n + 1 \notin 1..n
  BY <1>1
<1> HIDE DEF n
<1>5. /\ \A k \in 1..n : Deltas[k] \in Int /\ Deltas'[k] = Deltas[k]
      /\ Deltas'[n + 1] = delta
  BY <1>1, <1>2, <1>3 DEF Deltas, XpEntries
<1>6. ASSUME NEW S \in SUBSET (1..n)
      PROVE  /\ IsFiniteSet(S) /\ SumFunctionOnSet(Deltas, S) \in Int
             /\ SumFunctionOnSet(Deltas', S) = SumFunctionOnSet(Deltas, S)
             /\ SumFunctionOnSet(Deltas', S \cup {n + 1}) = SumFunctionOnSet(Deltas, S) + delta
             /\ Cardinality(S) \in Nat /\ Cardinality(S \cup {n + 1}) = Cardinality(S) + 1
  <2>1. IsFiniteSet(S) /\ n + 1 \notin S
    BY <1>1, <1>4, FS_Subset
  <2>2. PICK d, e : d = Deltas /\ e = Deltas'
    OBVIOUS
  <2>3. (\A k \in S : d[k] \in Int /\ e[k] = d[k] /\ e[k] \in Int) /\ e[n + 1] = delta /\ e[n + 1] \in Int
    BY <1>5, <2>2
  <2>4. SumFunctionOnSet(d, S) \in Int
    BY <2>1, <2>3, SumExtends
  <2>5. SumFunctionOnSet(e, S) = SumFunctionOnSet(d, S)
    BY <2>1, <2>3, SumSame
  <2>6. SumFunctionOnSet(e, S \cup {n + 1}) = SumFunctionOnSet(e, S) + e[n + 1]
    <3>1. \A x : x \notin S /\ e[x] \in Int => SumFunctionOnSet(e, S \cup {x}) = SumFunctionOnSet(e, S) + e[x]
      BY <2>1, <2>3, SumExtends
    <3> QED BY <2>1, <2>3, <3>1
  <2>7. Cardinality(S) \in Nat /\ Cardinality(S \cup {n + 1}) = Cardinality(S) + 1
    BY <2>1, FS_CardinalityType, FS_AddElement
  <2> QED BY <2>1, <2>2, <2>3, <2>4, <2>5, <2>6, <2>7
<1>7. ASSUME NEW v \in Users
      PROVE  /\ EntriesOf(v) \in SUBSET (1..n)
             /\ EntriesOf(v)' = IF v = u THEN EntriesOf(v) \cup {n + 1} ELSE EntriesOf(v)
  BY <1>1, <1>2, <1>3 DEF EntriesOf
<1>8. ASSUME NEW a \in QuotaRows
      PROVE  /\ AwardsOf(a) \in SUBSET (1..n)
             /\ AwardsOf(a)' = IF source = a \/ (a = Owner /\ source \in XpApps) THEN AwardsOf(a) \cup {n + 1} ELSE AwardsOf(a)
  BY <1>1, <1>2, <1>3 DEF AwardsOf
<1>9. ASSUME NEW v \in Users
      PROVE  TotalOf(v) \in Int /\ TotalOf(v)' = TotalOf(v) + (IF v = u THEN delta ELSE 0)
  <2>1. PICK S : S = EntriesOf(v)
    OBVIOUS
  <2>2. /\ TotalOf(v) = SumFunctionOnSet(Deltas, S)
        /\ TotalOf(v)' = SumFunctionOnSet(Deltas', IF v = u THEN S \cup {n + 1} ELSE S)
    BY <1>7, <2>1 DEF TotalOf
  <2>3. S \in SUBSET (1..n)
    BY <1>7, <2>1
  <2>4. /\ SumFunctionOnSet(Deltas, S) \in Int /\ SumFunctionOnSet(Deltas', S) = SumFunctionOnSet(Deltas, S)
        /\ SumFunctionOnSet(Deltas', S \cup {n + 1}) = SumFunctionOnSet(Deltas, S) + delta
    BY <1>6, <2>3
  <2>5. CASE v = u
    BY <2>2, <2>4, <2>5
  <2>6. CASE v # u
    BY <2>2, <2>4, <2>6
  <2> QED BY <2>5, <2>6
<1>10. ASSUME NEW a \in QuotaRows
      PROVE  /\ Awarded(a) \in Int
             /\ Awarded(a)' = Awarded(a) + (IF source = a \/ (a = Owner /\ source \in XpApps) THEN delta ELSE 0)
  <2>1. PICK S : S = AwardsOf(a)
    OBVIOUS
  <2>2. /\ Awarded(a) = SumFunctionOnSet(Deltas, S)
        /\ Awarded(a)' = SumFunctionOnSet(Deltas', IF source = a \/ (a = Owner /\ source \in XpApps) THEN S \cup {n + 1} ELSE S)
    BY <1>8, <2>1 DEF Awarded
  <2>3. S \in SUBSET (1..n)
    BY <1>8, <2>1
  <2>4. /\ SumFunctionOnSet(Deltas, S) \in Int /\ SumFunctionOnSet(Deltas', S) = SumFunctionOnSet(Deltas, S)
        /\ SumFunctionOnSet(Deltas', S \cup {n + 1}) = SumFunctionOnSet(Deltas, S) + delta
    BY <1>6, <2>3
  <2>5. CASE source = a \/ (a = Owner /\ source \in XpApps)
    BY <2>2, <2>4, <2>5
  <2>6. CASE ~ (source = a \/ (a = Owner /\ source \in XpApps))
    BY <2>2, <2>4, <2>6
  <2> QED BY <2>5, <2>6
<1>11. /\ Cardinality(AwardsOf(Owner)) \in Nat
       /\ Cardinality(AwardsOf(Owner))' = Cardinality(AwardsOf(Owner)) + (IF source \in XpApps THEN 1 ELSE 0)
  <2>1. PICK S : S = AwardsOf(Owner)
    OBVIOUS
  <2>2. Owner \in QuotaRows /\ (source = Owner => source \in XpApps)
    BY ExperienceConstants DEF QuotaRows, Owner
  <2>3. S \in SUBSET (1..n) /\ AwardsOf(Owner)' = IF source \in XpApps THEN S \cup {n + 1} ELSE S
    BY <1>8, <2>1, <2>2
  <2>4. Cardinality(AwardsOf(Owner))' = Cardinality(AwardsOf(Owner)')
    OBVIOUS
  <2>5. Cardinality(S) \in Nat /\ Cardinality(S \cup {n + 1}) = Cardinality(S) + 1
    BY <1>6, <2>3
  <2> QED BY <2>1, <2>3, <2>4, <2>5
<1> QED BY <1>3, <1>7, <1>9, <1>10, <1>11

---------------------------------------------------------------------------
\* Experience: the steps

LEMMA XpShapes ==
    ASSUME XpTyped, NEW w \in Intakes
    PROVE  /\ intake[w] = NoIntake \/ intake[w] \in Submissions
           /\ intake[w].pc # "idle" => intake[w] \in Submissions
           /\ intake[w] # NoIntake => intake[w] \in Submissions
BY DEF XpTyped, NoIntake

\* A step of one intake that touches no row.
LEMMA IntakeMoves ==
    ASSUME XpInv, NEW w \in Intakes, NEW n \in Submissions \cup {NoIntake},
           intake' = [intake EXCEPT ![w] = n], UNCHANGED <<xp, journal, completion, admin, adminVars>>,
           \A v \in Intakes : v # w => n.held \cap intake[v].held = {},
           n # NoIntake /\ n.user \in n.held =>
               n.user \in DOMAIN xp /\ \A c \in completion : c.user # n.user,
           n.pc \in {"org", "append"} /\ highest[n.app] # NoCap => n.app \in n.held,
           n.pc = "append" => \A a \in {n.app, Owner} :
               highest[a] # NoCap => a \in n.held /\ Awarded(a) + Reward <= highest[a]
    PROVE  XpInv'
<1>1. /\ intake'[w] = n /\ \A v \in Intakes : v # w => intake'[v] = intake[v]
      /\ intake' \in [Intakes -> Submissions \cup {NoIntake}]
  BY DEF XpInv, XpTyped
<1>2. UNCHANGED <<xp, journal, completion, admin, quota, highest, standing, task, policy>>
  BY DEF adminVars
<1>3. /\ \A u : TotalOf(u)' = TotalOf(u) /\ EntriesOf(u)' = EntriesOf(u)
      /\ \A a : Awarded(a)' = Awarded(a) /\ AwardsOf(a)' = AwardsOf(a)
  BY <1>2, XpSumsSame
<1>4. XpTyped'
  BY <1>1, <1>2 DEF XpInv, XpTyped
<1>5. LocksApart' /\ UserLocked' /\ TaskOpen'
  BY <1>1, <1>2 DEF XpInv, LocksApart, UserLocked, TaskOpen
<1>6. CapsKept' /\ QuotaLocked'
  BY <1>1, <1>2 DEF XpInv, CapsKept, QuotaLocked
<1>7. RoomKept'
  BY <1>1, <1>2, <1>3 DEF XpInv, RoomKept, RoomLeft
<1>8. NoEarlierEntries' /\ CompletionsHaveRows'
  BY <1>2, <1>3 DEF XpInv, NoEarlierEntries, CompletionsHaveRows
<1>9. XpAccounted'
  BY <1>2, <1>3 DEF XpInv, XpAccounted
<1> QED BY <1>4, <1>5, <1>6, <1>7, <1>8, <1>9 DEF XpInv

LEMMA XpSumsTyped ==
    ASSUME journal \in Seq(XpEntries)
    PROVE  /\ \A u \in Users : TotalOf(u) \in Int /\ (EntriesOf(u) = {} => TotalOf(u) = 0)
           /\ \A a \in QuotaRows : Awarded(a) \in Int
<1>1. \A k \in DOMAIN journal : Deltas[k] \in Int
  <2>1. DOMAIN journal = 1..Len(journal) /\ \A k \in 1..Len(journal) : journal[k] \in XpEntries
    OBVIOUS
  <2> QED BY <2>1 DEF Deltas, XpEntries
<1>2. IsFiniteSet(DOMAIN journal)
  <2>1. Len(journal) \in Nat /\ DOMAIN journal = 1..Len(journal)
    OBVIOUS
  <2> QED BY <2>1, FS_Interval
<1>3. ASSUME NEW S \in SUBSET (DOMAIN journal)
      PROVE  SumFunctionOnSet(Deltas, S) \in Int /\ (S = {} => SumFunctionOnSet(Deltas, S) = 0)
  <2>1. IsFiniteSet(S)
    BY <1>2, FS_Subset
  <2> QED BY <1>1, <2>1, SumExtends
<1>4. \A u : EntriesOf(u) \in SUBSET (DOMAIN journal) /\ TotalOf(u) = SumFunctionOnSet(Deltas, EntriesOf(u))
  BY DEF EntriesOf, TotalOf
<1>5. \A a : AwardsOf(a) \in SUBSET (DOMAIN journal) /\ Awarded(a) = SumFunctionOnSet(Deltas, AwardsOf(a))
  BY DEF AwardsOf, Awarded
<1> QED BY <1>3, <1>4, <1>5

LEMMA submitEventOK ==
    ASSUME XpInv, NEW w \in Intakes, NEW a \in XpApps, NEW e \in XpEvents, NEW u \in Users, submitEvent(w, a, e, u)
    PROVE  XpInv'
<1>1. PICK n : n = [pc |-> "state", app |-> a, event |-> e, user |-> u, tries |-> 0, held |-> {}]
  OBVIOUS
<1>2. n \in Submissions /\ n.held = {} /\ n.pc = "state" /\ intake' = [intake EXCEPT ![w] = n]
  BY <1>1 DEF Submissions, submitEvent
<1>3. UNCHANGED <<xp, journal, completion, admin, adminVars>>
  BY DEF submitEvent
<1>4. n.user \notin n.held /\ n.pc \notin {"org", "append"} /\ n.pc # "append" /\ \A v \in Intakes : n.held \cap intake[v].held = {}
  BY <1>2
<1> QED BY <1>2, <1>3, <1>4, IntakeMoves

LEMMA lockStateOK == ASSUME XpInv, NEW w \in Intakes, lockState(w) PROVE XpInv'
<1>1. PICK i : i = intake[w]
  OBVIOUS
<1>2. i \in Submissions
  BY <1>1, XpShapes DEF XpInv, lockState
<1>3. PICK n : n = IF \E c \in completion : (c.app = i.app /\ c.event = i.event) \/ c.user = i.user
                   THEN NoIntake ELSE [i EXCEPT !.pc = "app", !.held = {i.user} \cap DOMAIN xp]
  OBVIOUS
<1>4. intake' = [intake EXCEPT ![w] = n] /\ UNCHANGED <<xp, journal, completion, admin, adminVars>>
  BY <1>1, <1>3 DEF lockState
<1>5. CASE \E c \in completion : (c.app = i.app /\ c.event = i.event) \/ c.user = i.user
  <2>1. n = NoIntake /\ n.held = {} /\ n.pc = "idle"
    BY <1>3, <1>5 DEF NoIntake
  <2> QED BY <1>4, <2>1, IntakeMoves
<1>6. CASE ~ \E c \in completion : (c.app = i.app /\ c.event = i.event) \/ c.user = i.user
  <2>1. n = [i EXCEPT !.pc = "app", !.held = {i.user} \cap DOMAIN xp]
    BY <1>3, <1>6
  <2>2. n \in Submissions /\ n.pc = "app" /\ n.user = i.user /\ n.held \subseteq {i.user} /\ n.held \subseteq DOMAIN xp
    BY <1>2, <2>1 DEF Submissions
  <2>3. \A v \in Intakes : n.held \cap intake[v].held = {}
    BY <1>1, <2>2 DEF lockState, Held
  <2>4. n.user \in n.held => n.user \in DOMAIN xp /\ \A c \in completion : c.user # n.user
    BY <1>6, <2>2
  <2>5. n.pc \notin {"org", "append"} /\ n.pc # "append"
    BY <2>2
  <2> QED BY <1>4, <2>2, <2>3, <2>4, <2>5, IntakeMoves
<1> QED BY <1>5, <1>6

LEMMA LockOnIs == \A a : LockOn(a) \subseteq {a}
BY DEF LockOn

LEMMA CappedIsLocked ==
    ASSUME XpInv, NEW a \in QuotaRows, highest[a] # NoCap
    PROVE  a \in LockOn(a) /\ quota[a].cap # NoCap /\ quota[a].cap <= highest[a]
BY DEF XpInv, CapsKept, LockOn, HasQuotaRow

LEMMA lockQuotaOK == ASSUME XpInv, NEW w \in Intakes, lockQuota(w) PROVE XpInv'
<1>1. PICK i : i = intake[w]
  OBVIOUS
<1>2. i \in Submissions /\ i # NoIntake
  BY <1>1, XpShapes DEF XpInv, lockQuota, NoIntake
<1>3. PICK n : n = [i EXCEPT !.pc = "org", !.held = @ \cup LockOn(i.app)]
  OBVIOUS
<1>4. /\ n.pc = "org" /\ n.held = i.held \cup LockOn(i.app) /\ n.user = i.user /\ n.app = i.app
      /\ n \in Submissions
  <2>1. i.held \cup LockOn(i.app) \subseteq Users \cup QuotaRows
    BY <1>2, LockOnIs DEF Submissions, QuotaRows
  <2> QED BY <1>2, <1>3, <2>1 DEF Submissions
<1>5. intake' = [intake EXCEPT ![w] = n] /\ UNCHANGED <<xp, journal, completion, admin, adminVars>>
  BY <1>1, <1>2, <1>3 DEF lockQuota, XpInv, XpTyped, Submissions
<1>6. \A v \in Intakes : v # w => n.held \cap intake[v].held = {}
  BY <1>1, <1>4, LockOnIs DEF XpInv, LocksApart, lockQuota, QuotaFree, Held
<1>7. n.user \in n.held => n.user \in DOMAIN xp /\ \A c \in completion : c.user # n.user
  <2>1. i.user \notin LockOn(i.app)
    BY <1>2, ExperienceConstants, LockOnIs DEF Submissions
  <2> QED BY <1>1, <1>2, <1>4, <2>1 DEF XpInv, UserLocked, TaskOpen
<1>8. highest[n.app] # NoCap => n.app \in n.held
  BY <1>2, <1>4, CappedIsLocked DEF Submissions, QuotaRows
<1> QED BY <1>4, <1>5, <1>6, <1>7, <1>8, IntakeMoves

LEMMA evaluateQuotasOK == ASSUME XpInv, NEW w \in Intakes, evaluateQuotas(w) PROVE XpInv'
<1>1. PICK i : i = intake[w]
  OBVIOUS
<1>2. i \in Submissions /\ i # NoIntake /\ i.pc = "org"
  BY <1>1, XpShapes DEF XpInv, evaluateQuotas, NoIntake
<1>3. PICK ok \in BOOLEAN : ok = (evaluate(i.app) /\ evaluate(Owner) /\ Eligible(i.app))
  OBVIOUS
<1>4. PICK n : n = IF ok THEN [i EXCEPT !.pc = "append", !.held = @ \cup LockOn(Owner)] ELSE NoIntake
  OBVIOUS
<1>5. intake' = [intake EXCEPT ![w] = n] /\ UNCHANGED <<xp, journal, completion, admin, adminVars>>
  BY <1>1, <1>3, <1>4 DEF evaluateQuotas
<1>6. CASE ~ ok
  <2>1. n = NoIntake /\ n.held = {} /\ n.pc = "idle"
    BY <1>4, <1>6 DEF NoIntake
  <2> QED BY <1>5, <2>1, IntakeMoves
<1>7. CASE ok
  <2>1. /\ n.pc = "append" /\ n.held = i.held \cup LockOn(Owner) /\ n.user = i.user /\ n.app = i.app
        /\ n \in Submissions
    BY <1>2, <1>4, <1>7, LockOnIs DEF Submissions, QuotaRows
  <2>2. \A v \in Intakes : v # w => n.held \cap intake[v].held = {}
    BY <1>1, <2>1, LockOnIs DEF XpInv, LocksApart, evaluateQuotas, QuotaFree, Held
  <2>3. n.user \in n.held => n.user \in DOMAIN xp /\ \A c \in completion : c.user # n.user
    <3>1. i.user \notin LockOn(Owner)
      BY <1>2, ExperienceConstants, LockOnIs DEF Submissions, Owner
    <3> QED BY <1>1, <1>2, <2>1, <3>1 DEF XpInv, UserLocked, TaskOpen
  <2>4. ASSUME NEW a \in {i.app, Owner}, highest[a] # NoCap
        PROVE  a \in n.held /\ Awarded(a) + Reward <= highest[a]
    <3>1. a \in QuotaRows /\ Owner \in QuotaRows
      BY <1>2 DEF Submissions, QuotaRows
    <3>2. a \in n.held
      <4>1. CASE a = i.app
        BY <1>1, <1>2, <2>1, <2>4, <4>1 DEF XpInv, QuotaLocked
      <4>2. CASE a = Owner
        BY <2>1, <2>4, <3>1, <4>2, CappedIsLocked
      <4> QED BY <4>1, <4>2
    <3>3. quota[a].cap # NoCap /\ quota[a].cap <= highest[a] /\ quota[a].cap \in Nat /\ highest[a] \in Nat
      BY <2>4, <3>1, CappedIsLocked, ExperienceConstants DEF XpInv, XpTyped
    <3>4. Awarded(a) + Reward <= quota[a].cap
      BY <1>3, <1>7, <3>3 DEF evaluate
    <3>5. Awarded(a) \in Int /\ Reward \in Int
      BY <3>1, XpSumsTyped, ExperienceConstants DEF XpInv, XpTyped
    <3> QED BY <3>2, <3>3, <3>4, <3>5
  <2>5. n.pc = "append" => \A a \in {n.app, Owner} : highest[a] # NoCap => a \in n.held /\ Awarded(a) + Reward <= highest[a]
    BY <2>1, <2>4
  <2>6. highest[n.app] # NoCap => n.app \in n.held
    BY <2>1, <2>5
  <2> QED BY <1>5, <2>1, <2>2, <2>3, <2>5, <2>6, IntakeMoves
<1> QED BY <1>6, <1>7

LEMMA retryIntakeOK == ASSUME XpInv, NEW w \in Intakes, retryIntake(w) PROVE XpInv'
<1>1. PICK i : i = intake[w]
  OBVIOUS
<1>2. i \in Submissions
  BY <1>1, XpShapes DEF XpInv, retryIntake
<1>3. PICK n \in {NoIntake, [i EXCEPT !.pc = "state", !.tries = 1, !.held = {}]} : intake' = [intake EXCEPT ![w] = n]
  BY <1>1 DEF retryIntake
<1>4. n \in Submissions \cup {NoIntake} /\ n.held = {} /\ n.pc \in {"state", "idle"}
  <2>1. NoIntake.held = {} /\ NoIntake.pc = "idle"
    BY DEF NoIntake
  <2>2. PICK j : j = [i EXCEPT !.pc = "state", !.tries = 1, !.held = {}]
    OBVIOUS
  <2>3. j \in Submissions /\ j.held = {} /\ j.pc = "state"
    BY <1>2, <2>2 DEF Submissions
  <2> QED BY <1>3, <2>1, <2>2, <2>3
<1> QED BY <1>3, <1>4, IntakeMoves, ZenonT(60) DEF retryIntake

LEMMA RollbackIntakeOK == ASSUME XpInv, NEW w \in Intakes, RollbackIntake(w) PROVE XpInv'
<1>1. NoIntake.held = {} /\ NoIntake.pc = "idle"
  BY DEF NoIntake
<1> QED BY <1>1, IntakeMoves DEF RollbackIntake

\* The award itself: who appends holds every row that could say no.
LEMMA appendTaskAwardOK == ASSUME XpInv, NEW w \in Intakes, appendTaskAward(w) PROVE XpInv'
<1>1. PICK i : i = intake[w]
  OBVIOUS
<1>2. i \in Submissions /\ i # NoIntake /\ i.pc = "append"
  BY <1>1, XpShapes DEF XpInv, appendTaskAward, NoIntake
<1>3. i.user \in Users /\ i.app \in XpApps /\ i.event \in XpEvents /\ Owner \in QuotaRows /\ i.app \in QuotaRows
  BY <1>2 DEF Submissions, QuotaRows
<1>4. PICK c : c = [app |-> i.app, event |-> i.event, user |-> i.user]
  OBVIOUS
<1>5. PICK total : total = Row(i.user).total + Reward
  OBVIOUS
<1>6. PICK x : x = [total |-> total, level |-> levelFromXp(total, policy), policy |-> policy]
  OBVIOUS
<1>7. /\ journal' = Append(journal, Entry(i.user, Reward, i.app)) /\ completion' = completion \cup {c}
      /\ xp' = [u \in DOMAIN xp \cup {i.user} |-> IF u = i.user THEN x ELSE xp[u]]
      /\ intake' = [intake EXCEPT ![w] = NoIntake]
  BY <1>1, <1>4, <1>5, <1>6 DEF appendTaskAward
<1>8. UNCHANGED <<admin, quota, highest, standing, task, policy>>
  BY DEF appendTaskAward, adminVars
<1>9. /\ ~ \E d \in completion : d.app = i.app /\ d.event = i.event
      /\ i.user \in DOMAIN xp => i.user \in i.held
  BY <1>1 DEF appendTaskAward, Collides
<1>10. Reward \in Nat \ {0} /\ Reward \in Int
  BY ExperienceConstants
<1>11. /\ journal' \in Seq(XpEntries)
       /\ \A v \in Users : TotalOf(v) \in Int /\ TotalOf(v)' = TotalOf(v) + (IF v = i.user THEN Reward ELSE 0)
       /\ \A v \in Users : v # i.user => EntriesOf(v)' = EntriesOf(v)
       /\ \A a \in QuotaRows :
             /\ Awarded(a) \in Int
             /\ Awarded(a)' = Awarded(a) + (IF i.app = a \/ (a = Owner /\ i.app \in XpApps) THEN Reward ELSE 0)
       /\ Cardinality(AwardsOf(Owner)) \in Nat
       /\ Cardinality(AwardsOf(Owner))' = Cardinality(AwardsOf(Owner)) + (IF i.app \in XpApps THEN 1 ELSE 0)
  BY <1>3, <1>7, <1>10, XpSumsGrow DEF XpInv, XpTyped
<1>12. \A a \in QuotaRows : a # i.app /\ a # Owner => Awarded(a)' = Awarded(a)
  BY <1>11
<1>13. /\ intake'[w] = NoIntake /\ \A v \in Intakes : v # w => intake'[v] = intake[v]
       /\ intake' \in [Intakes -> Submissions \cup {NoIntake}] /\ NoIntake.held = {} /\ NoIntake.pc = "idle"
  BY <1>7 DEF XpInv, XpTyped, NoIntake
\* The user's row.
<1>14. total = TotalOf(i.user) + Reward /\ total >= 0 /\ total \in Int
  <2>1. CASE i.user \in DOMAIN xp
    <3>1. xp[i.user].total = TotalOf(i.user) /\ xp[i.user].total >= 0
      BY <2>1 DEF XpInv, XpAccounted
    <3>2. Row(i.user) = xp[i.user]
      BY <2>1 DEF Row
    <3> QED BY <1>3, <1>5, <1>10, <1>11, <3>1, <3>2
  <2>2. CASE i.user \notin DOMAIN xp
    <3>1. TotalOf(i.user) = 0
      BY <1>3, <2>2, XpSumsTyped DEF XpInv, XpTyped, NoEarlierEntries
    <3>2. Row(i.user).total = 0
      BY <2>2 DEF Row
    <3> QED BY <1>5, <1>10, <3>1, <3>2
  <2> QED BY <2>1, <2>2
<1>15. x \in XpStates /\ x.total = total
  BY <1>6, <1>14 DEF XpInv, XpTyped, XpStates, levelFromXp
<1>16. DOMAIN xp' = DOMAIN xp \cup {i.user} /\ xp'[i.user] = x /\ \A u \in DOMAIN xp : u # i.user => xp'[u] = xp[u]
  BY <1>7
<1>17. c.app = i.app /\ c.event = i.event /\ c.user = i.user /\ c \in [app: XpApps, event: XpEvents, user: Users] /\ c \notin completion
  BY <1>3, <1>4, <1>9
\* Nobody else holds what it holds.
<1>18. \A v \in Intakes : v # w => i.held \cap intake[v].held = {}
  BY <1>1 DEF XpInv, LocksApart
<1>19. \A d \in completion : d.user # i.user
  <2>1. CASE i.user \in i.held
    BY <1>1, <1>2, <2>1 DEF XpInv, TaskOpen
  <2>2. CASE i.user \notin DOMAIN xp
    BY <2>2 DEF XpInv, CompletionsHaveRows
  <2> QED BY <1>9, <2>1, <2>2
<1>20. XpTyped'
  <2>1. xp' \in [DOMAIN xp' -> XpStates] /\ DOMAIN xp' \subseteq Users
    BY <1>3, <1>7, <1>15 DEF XpInv, XpTyped
  <2>2. completion' \subseteq [app: XpApps, event: XpEvents, user: Users] /\ IsFiniteSet(completion')
    BY <1>7, <1>17, FS_AddElement DEF XpInv, XpTyped
  <2> QED BY <1>8, <1>11, <1>13, <2>1, <2>2 DEF XpInv, XpTyped
<1>21. LocksApart' /\ UserLocked'
  BY <1>13, <1>16 DEF XpInv, LocksApart, UserLocked
<1>22. TaskOpen'
  <2> SUFFICES ASSUME NEW v \in Intakes, intake'[v] # NoIntake, intake'[v].user \in intake'[v].held, NEW d \in completion'
               PROVE  d.user # intake'[v].user
    BY DEF TaskOpen
  <2>1. v # w /\ intake'[v] = intake[v]
    BY <1>13
  <2>2. intake[v].user \in DOMAIN xp /\ \A e \in completion : e.user # intake[v].user
    BY <2>1 DEF XpInv, UserLocked, TaskOpen
  <2>3. intake[v].user # i.user
    BY <1>9, <1>18, <2>1, <2>2
  <2> QED BY <1>7, <1>17, <2>1, <2>2, <2>3
<1>23. CapsKept' /\ QuotaLocked'
  BY <1>8, <1>13 DEF XpInv, CapsKept, QuotaLocked
<1>24. \A a \in {i.app, Owner} : highest[a] # NoCap => a \in i.held /\ Awarded(a) + Reward <= highest[a]
  BY <1>1, <1>2 DEF XpInv, RoomKept, RoomLeft
<1>25. RoomKept'
  <2> SUFFICES ASSUME NEW v \in Intakes, intake'[v].pc = "append", NEW a \in {intake'[v].app, Owner}, highest'[a] # NoCap
               PROVE  a \in intake'[v].held /\ Awarded(a)' + Reward <= highest'[a]
    BY DEF RoomKept, RoomLeft
  <2>1. v # w /\ intake'[v] = intake[v] /\ highest' = highest
    BY <1>8, <1>13
  <2>2. a \in intake[v].held /\ Awarded(a) + Reward <= highest[a]
    BY <2>1 DEF XpInv, RoomKept, RoomLeft
  <2>3. a # i.app /\ a # Owner
    BY <1>18, <1>24, <2>1, <2>2
  <2>4. a \in QuotaRows
    BY <2>1, XpShapes DEF XpInv, Submissions, QuotaRows, NoIntake
  <2> QED BY <1>12, <2>1, <2>2, <2>3, <2>4
<1>26. NoEarlierEntries' /\ CompletionsHaveRows'
  BY <1>7, <1>11, <1>16, <1>17 DEF XpInv, NoEarlierEntries, CompletionsHaveRows
<1>27. \A u \in DOMAIN xp' : xp'[u].total = TotalOf(u)' /\ xp'[u].total >= 0
  <2> SUFFICES ASSUME NEW u \in DOMAIN xp' PROVE xp'[u].total = TotalOf(u)' /\ xp'[u].total >= 0
    OBVIOUS
  <2>1. CASE u = i.user
    BY <1>3, <1>11, <1>14, <1>15, <1>16, <2>1
  <2>2. CASE u # i.user
    <3>1. u \in DOMAIN xp /\ u \in Users /\ xp'[u] = xp[u]
      BY <1>16, <2>2 DEF XpInv, XpTyped
    <3>2. xp[u].total = TotalOf(u) /\ xp[u].total >= 0
      BY <3>1 DEF XpInv, XpAccounted
    <3>3. TotalOf(u)' = TotalOf(u)
      BY <1>11, <2>2, <3>1
    <3> QED BY <3>1, <3>2, <3>3
  <2> QED BY <2>1, <2>2
<1>28. \A d, e \in completion' : d.user = e.user \/ (d.app = e.app /\ d.event = e.event) => d = e
  BY <1>7, <1>9, <1>17, <1>19 DEF XpInv, XpAccounted
<1>29. Cardinality(completion') = Cardinality(AwardsOf(Owner))'
  <2>1. Cardinality(completion') = Cardinality(completion) + 1
    BY <1>7, <1>17, FS_AddElement DEF XpInv, XpTyped
  <2>2. Cardinality(completion) = Cardinality(AwardsOf(Owner))
    BY DEF XpInv, XpAccounted
  <2> QED BY <1>3, <1>11, <2>1, <2>2
<1>30. \A a \in QuotaRows : highest'[a] # NoCap => Awarded(a)' <= highest'[a]
  <2> SUFFICES ASSUME NEW a \in QuotaRows, highest[a] # NoCap PROVE Awarded(a)' <= highest[a]
    BY <1>8
  <2>1. CASE a \in {i.app, Owner}
    BY <1>3, <1>11, <1>24, <2>1
  <2>2. CASE a \notin {i.app, Owner}
    <3>1. Awarded(a) <= highest[a]
      BY DEF XpInv, XpAccounted, QuotaRows
    <3> QED BY <1>12, <2>2, <3>1
  <2> QED BY <2>1, <2>2
<1>31. XpAccounted'
  BY <1>27, <1>28, <1>29, <1>30 DEF XpAccounted, QuotaRows
<1> QED BY <1>20, <1>21, <1>22, <1>23, <1>25, <1>26, <1>31 DEF XpInv

\* A step that leaves submissions, quotas and completions alone.
RowsStand == UNCHANGED <<completion, intake, quota, highest>> /\ policy' \in Policies

LEMMA XpStands ==
    ASSUME XpInv, RowsStand, DOMAIN xp \subseteq DOMAIN xp', \A a \in QuotaRows : Awarded(a)' = Awarded(a)
    PROVE  LocksApart' /\ UserLocked' /\ TaskOpen' /\ CapsKept' /\ QuotaLocked' /\ RoomKept' /\ CompletionsHaveRows'
<1>1. UNCHANGED <<completion, intake, quota, highest>>
  BY DEF RowsStand
<1>2. LocksApart' /\ UserLocked' /\ TaskOpen' /\ CapsKept' /\ QuotaLocked' /\ CompletionsHaveRows'
  BY <1>1 DEF XpInv, LocksApart, UserLocked, TaskOpen, CapsKept, QuotaLocked, CompletionsHaveRows
<1>3. RoomKept'
  <2> SUFFICES ASSUME NEW v \in Intakes, intake[v].pc = "append", NEW a \in {intake[v].app, Owner}, highest[a] # NoCap
               PROVE  a \in intake[v].held /\ Awarded(a)' + Reward <= highest[a]
    BY <1>1 DEF RoomKept, RoomLeft
  <2>1. a \in intake[v].held /\ Awarded(a) + Reward <= highest[a]
    BY DEF XpInv, RoomKept, RoomLeft
  <2>2. a \in QuotaRows
    BY XpShapes DEF XpInv, Submissions, QuotaRows
  <2> QED BY <2>1, <2>2
<1> QED BY <1>2, <1>3

\* A step of admins that writes neither ledger nor state.
LEMMA XpQuiet ==
    ASSUME XpInv, RowsStand, UNCHANGED <<xp, journal>>,
           admin'.pc = "adjust" => admin' \in Corrections, admin'.pc = "page" => admin'.policy \in Policies
    PROVE  XpInv'
<1>1. /\ \A u : TotalOf(u)' = TotalOf(u) /\ EntriesOf(u)' = EntriesOf(u)
      /\ \A a : Awarded(a)' = Awarded(a) /\ AwardsOf(a)' = AwardsOf(a)
  BY XpSumsSame
<1>2. LocksApart' /\ UserLocked' /\ TaskOpen' /\ CapsKept' /\ QuotaLocked' /\ RoomKept' /\ CompletionsHaveRows'
  BY <1>1, XpStands
<1>3. XpTyped'
  BY DEF XpInv, XpTyped, RowsStand
<1>4. NoEarlierEntries' /\ XpAccounted'
  BY <1>1 DEF XpInv, NoEarlierEntries, XpAccounted, RowsStand
<1> QED BY <1>2, <1>3, <1>4 DEF XpInv

\* A step that writes a state row and no entry.
LEMMA XpRowsMove ==
    ASSUME XpInv, RowsStand, UNCHANGED journal, DOMAIN xp \subseteq DOMAIN xp', DOMAIN xp' \subseteq Users,
           xp' \in [DOMAIN xp' -> XpStates],
           \A u \in DOMAIN xp' : xp'[u].total = IF u \in DOMAIN xp THEN xp[u].total ELSE 0,
           admin' \in {admin, NoIntake}
    PROVE  XpInv'
<1>1. /\ \A u : TotalOf(u)' = TotalOf(u) /\ EntriesOf(u)' = EntriesOf(u)
      /\ \A a : Awarded(a)' = Awarded(a) /\ AwardsOf(a)' = AwardsOf(a)
  BY XpSumsSame
<1>2. LocksApart' /\ UserLocked' /\ TaskOpen' /\ CapsKept' /\ QuotaLocked' /\ RoomKept' /\ CompletionsHaveRows'
  BY <1>1, XpStands
<1>3. XpTyped'
  BY DEF XpInv, XpTyped, RowsStand, NoIntake
<1>4. NoEarlierEntries'
  BY <1>1 DEF XpInv, NoEarlierEntries
<1>5. \A u \in DOMAIN xp' : xp'[u].total = TotalOf(u)' /\ xp'[u].total >= 0
  <2> SUFFICES ASSUME NEW u \in DOMAIN xp' PROVE xp'[u].total = TotalOf(u) /\ xp'[u].total >= 0
    BY <1>1
  <2>1. CASE u \in DOMAIN xp
    BY <2>1 DEF XpInv, XpAccounted
  <2>2. CASE u \notin DOMAIN xp
    <3>1. TotalOf(u) = 0
      BY <2>2, XpSumsTyped DEF XpInv, XpTyped, NoEarlierEntries
    <3> QED BY <2>2, <3>1
  <2> QED BY <2>1, <2>2
<1>6. XpAccounted'
  BY <1>1, <1>5 DEF XpInv, XpAccounted, RowsStand
<1> QED BY <1>2, <1>3, <1>4, <1>6 DEF XpInv

LEMMA ensureStateOK == ASSUME XpInv, NEW u \in Users, ensureState(u) PROVE XpInv'
<1>1. PICK x : x = [total |-> 0, level |-> 1, policy |-> policy]
  OBVIOUS
<1>2. xp' = [v \in DOMAIN xp \cup {u} |-> IF v \in DOMAIN xp THEN xp[v] ELSE x]
  BY <1>1 DEF ensureState, Row
<1>3. x \in XpStates /\ x.total = 0
  BY <1>1 DEF XpInv, XpTyped, XpStates
<1>4. xp' \in [DOMAIN xp' -> XpStates] /\ DOMAIN xp' = DOMAIN xp \cup {u} /\ DOMAIN xp' \subseteq Users
  BY <1>2, <1>3 DEF XpInv, XpTyped
<1>5. \A v \in DOMAIN xp' : xp'[v].total = IF v \in DOMAIN xp THEN xp[v].total ELSE 0
  BY <1>2, <1>3
<1>6. RowsStand /\ UNCHANGED journal /\ admin' \in {admin, NoIntake}
  BY DEF ensureState, RowsStand, adminVars, XpInv, XpTyped
<1> QED BY <1>4, <1>5, <1>6, XpRowsMove

LEMMA writePageOK == ASSUME XpInv, writePage PROVE XpInv'
<1>1. admin.policy \in Policies
  BY DEF writePage, XpInv, XpTyped
<1>2. xp' = [u \in DOMAIN xp |->
           IF u \in DOMAIN admin.rows
           THEN [xp[u] EXCEPT !.level = levelFromXp(admin.rows[u].total, admin.policy), !.policy = admin.policy]
           ELSE xp[u]]
  BY DEF writePage
<1>3. \A t, p : levelFromXp(t, p) \in {1, 2}
  BY DEF levelFromXp
<1>4. ASSUME NEW u \in DOMAIN xp PROVE xp'[u] \in XpStates /\ xp'[u].total = xp[u].total
  <2>1. xp[u] \in XpStates
    BY DEF XpInv, XpTyped
  <2>2. PICK level \in {1, 2} : level = levelFromXp(admin.rows[u].total, admin.policy)
    BY <1>3
  <2>3. xp'[u] = IF u \in DOMAIN admin.rows THEN [xp[u] EXCEPT !.level = level, !.policy = admin.policy] ELSE xp[u]
    BY <1>2, <2>2
  <2> QED BY <1>1, <2>1, <2>3 DEF XpStates
<1>5. DOMAIN xp' = DOMAIN xp /\ DOMAIN xp' \subseteq Users /\ xp' \in [DOMAIN xp' -> XpStates]
  BY <1>2, <1>4 DEF XpInv, XpTyped
<1>6. RowsStand /\ UNCHANGED journal /\ admin' \in {admin, NoIntake}
  BY DEF writePage, RowsStand, adminVars, XpInv, XpTyped
<1> QED BY <1>4, <1>5, <1>6, XpRowsMove

\* A correction counts for the user and for no quota.
LEMMA adjustWriteOK == ASSUME XpInv, adjustWrite PROVE XpInv'
<1>1. PICK u, delta, p : u = admin.user /\ delta = admin.delta /\ p = admin.policy
  OBVIOUS
<1>2. u \in Users /\ delta \in Int /\ p \in Policies
  BY <1>1 DEF adjustWrite, XpInv, XpTyped, Corrections
<1>3. PICK total : total = Row(u).total + delta
  OBVIOUS
<1>4. RowsStand /\ admin' = NoIntake
  BY DEF adjustWrite, RowsStand, adminVars, XpInv, XpTyped
<1>5. CASE UNCHANGED <<xp, journal>>
  BY <1>4, <1>5, XpQuiet DEF NoIntake
<1>6. CASE ~ UNCHANGED <<xp, journal>>
  <2>1. PICK x : x = [total |-> total, level |-> levelFromXp(total, p), policy |-> p]
    OBVIOUS
  <2>2. /\ ~ (total < 0) /\ journal' = Append(journal, Entry(u, delta, "admin"))
        /\ xp' = [v \in DOMAIN xp \cup {u} |-> IF v = u THEN x ELSE xp[v]]
    BY <1>1, <1>3, <1>6, <2>1 DEF adjustWrite
  <2>3. /\ journal' \in Seq(XpEntries)
        /\ \A v \in Users : TotalOf(v) \in Int /\ TotalOf(v)' = TotalOf(v) + (IF v = u THEN delta ELSE 0)
        /\ \A v \in Users : v # u => EntriesOf(v)' = EntriesOf(v)
        /\ \A a \in QuotaRows :
              /\ Awarded(a) \in Int
              /\ Awarded(a)' = Awarded(a) + (IF "admin" = a \/ (a = Owner /\ "admin" \in XpApps) THEN delta ELSE 0)
        /\ Cardinality(AwardsOf(Owner)) \in Nat
        /\ Cardinality(AwardsOf(Owner))' = Cardinality(AwardsOf(Owner)) + (IF "admin" \in XpApps THEN 1 ELSE 0)
    BY <1>2, <2>2, XpSumsGrow DEF XpInv, XpTyped
  <2>4. "admin" \notin XpApps /\ "admin" \notin QuotaRows
    BY ExperienceConstants DEF QuotaRows, Owner
  <2>5. (\A a \in QuotaRows : Awarded(a)' = Awarded(a)) /\ Cardinality(AwardsOf(Owner))' = Cardinality(AwardsOf(Owner))
    BY <2>3, <2>4
  <2>6. total = TotalOf(u) + delta /\ total >= 0 /\ total \in Int
    <3>1. CASE u \in DOMAIN xp
      <4>1. xp[u].total = TotalOf(u) /\ Row(u) = xp[u]
        BY <3>1 DEF XpInv, XpAccounted, Row
      <4> QED BY <1>2, <1>3, <2>2, <2>3, <4>1
    <3>2. CASE u \notin DOMAIN xp
      <4>1. TotalOf(u) = 0 /\ Row(u).total = 0
        BY <1>2, <3>2, XpSumsTyped DEF XpInv, XpTyped, NoEarlierEntries, Row
      <4> QED BY <1>2, <1>3, <2>2, <4>1
    <3> QED BY <3>1, <3>2
  <2>7. x \in XpStates /\ x.total = total
    BY <1>2, <2>1, <2>6 DEF XpStates, levelFromXp
  <2>8. DOMAIN xp' = DOMAIN xp \cup {u} /\ xp'[u] = x /\ \A v \in DOMAIN xp : v # u => xp'[v] = xp[v]
    BY <2>2
  <2>9. LocksApart' /\ UserLocked' /\ TaskOpen' /\ CapsKept' /\ QuotaLocked' /\ RoomKept' /\ CompletionsHaveRows'
    BY <1>4, <2>5, <2>8, XpStands
  <2>10. XpTyped'
    <3>1. xp' \in [DOMAIN xp' -> XpStates] /\ DOMAIN xp' \subseteq Users
      BY <1>2, <2>2, <2>7 DEF XpInv, XpTyped
    <3> QED BY <1>4, <2>3, <3>1 DEF XpInv, XpTyped, RowsStand, NoIntake
  <2>11. NoEarlierEntries'
    BY <2>3, <2>8 DEF XpInv, NoEarlierEntries
  <2>12. \A v \in DOMAIN xp' : xp'[v].total = TotalOf(v)' /\ xp'[v].total >= 0
    <3> SUFFICES ASSUME NEW v \in DOMAIN xp' PROVE xp'[v].total = TotalOf(v)' /\ xp'[v].total >= 0
      OBVIOUS
    <3>1. CASE v = u
      BY <1>2, <2>3, <2>6, <2>7, <2>8, <3>1
    <3>2. CASE v # u
      <4>1. v \in DOMAIN xp /\ v \in Users /\ xp'[v] = xp[v]
        BY <2>8, <3>2 DEF XpInv, XpTyped
      <4>2. xp[v].total = TotalOf(v) /\ xp[v].total >= 0
        BY <4>1 DEF XpInv, XpAccounted
      <4>3. TotalOf(v)' = TotalOf(v)
        BY <2>3, <3>2, <4>1
      <4> QED BY <4>1, <4>2, <4>3
    <3> QED BY <3>1, <3>2
  <2>13. XpAccounted'
    BY <1>4, <2>5, <2>12 DEF XpInv, XpAccounted, RowsStand, QuotaRows
  <2> QED BY <2>9, <2>10, <2>11, <2>13 DEF XpInv
<1> QED BY <1>5, <1>6

\* A quota is changed only while no submission holds its row; a cap that is
\* lifted is lifted for good.
LEMMA SetQuotaOK ==
    ASSUME XpInv, NEW a \in QuotaRows, NEW c \in Caps \cup {NoCap}, NEW suspended \in BOOLEAN, SetQuota(a, c, suspended)
    PROVE  XpInv'
<1>1. /\ c \in 0..NoCap /\ NoCap \in Nat /\ highest \in [QuotaRows -> 0..NoCap]
      /\ quota \in [QuotaRows -> [cap: Nat, suspended: BOOLEAN]]
  BY ExperienceConstants DEF XpInv, XpTyped
<1>2. PICK m \in 0..NoCap : m = Max({highest[a], c}) /\ m >= highest[a] /\ m >= c /\ m \in {highest[a], c}
  <2>1. highest[a] \in 0..NoCap
    BY <1>1
  <2>2. PICK b \in 0..NoCap : b = highest[a]
    BY <2>1
  <2>3. \E m \in {b, c} : \A y \in {b, c} : m >= y
    BY <1>1, <2>2
  <2>4. Max({b, c}) = CHOOSE m \in {b, c} : \A y \in {b, c} : m >= y
    BY DEF Max
  <2>5. Max({b, c}) \in {b, c} /\ \A y \in {b, c} : Max({b, c}) >= y
    BY <2>3, <2>4, Zenon
  <2> QED BY <1>1, <2>2, <2>5
<1>3. /\ quota' = [quota EXCEPT ![a] = [cap |-> c, suspended |-> suspended]]
      /\ highest' = [highest EXCEPT ![a] = m]
      /\ UNCHANGED <<xp, journal, completion, intake, policy, admin>>
  BY <1>2 DEF SetQuota
<1>4. \A v \in Intakes : a \notin intake[v].held
  BY DEF SetQuota, QuotaFree, Held
<1>5. /\ quota'[a].cap = c /\ highest'[a] = m /\ \A b \in QuotaRows : b # a => quota'[b] = quota[b] /\ highest'[b] = highest[b]
      /\ quota' \in [QuotaRows -> [cap: Nat, suspended: BOOLEAN]] /\ highest' \in [QuotaRows -> 0..NoCap]
  BY <1>1, <1>3
<1>6. m # NoCap => highest[a] # NoCap /\ c # NoCap /\ highest[a] <= m /\ c <= m
  BY <1>1, <1>2
<1>7. /\ \A u : TotalOf(u)' = TotalOf(u) /\ EntriesOf(u)' = EntriesOf(u)
      /\ \A b : Awarded(b)' = Awarded(b) /\ AwardsOf(b)' = AwardsOf(b)
  BY <1>3, XpSumsSame
<1>8. XpTyped' /\ LocksApart' /\ UserLocked' /\ TaskOpen'
  BY <1>3, <1>5 DEF XpInv, XpTyped, LocksApart, UserLocked, TaskOpen
<1>9. CapsKept'
  BY <1>5, <1>6 DEF XpInv, CapsKept
<1>10. \A v \in Intakes : intake[v].pc \in {"org", "append"} => intake[v].app \in QuotaRows
  BY XpShapes DEF XpInv, Submissions, QuotaRows
<1>11. QuotaLocked'
  BY <1>3, <1>4, <1>5, <1>6, <1>10 DEF XpInv, QuotaLocked
<1>12. RoomKept'
  <2> SUFFICES ASSUME NEW v \in Intakes, intake[v].pc = "append", NEW b \in {intake[v].app, Owner}, highest'[b] # NoCap
               PROVE  b \in intake[v].held /\ Awarded(b) + Reward <= highest'[b]
    BY <1>3, <1>7 DEF RoomKept, RoomLeft
  <2>1. b \in QuotaRows
    BY <1>10 DEF QuotaRows
  <2>2. highest[b] # NoCap
    BY <1>5, <1>6, <2>1
  <2>3. b \in intake[v].held /\ Awarded(b) + Reward <= highest[b]
    BY <2>2 DEF XpInv, RoomKept, RoomLeft
  <2> QED BY <1>4, <1>5, <2>1, <2>3
<1>13. NoEarlierEntries' /\ CompletionsHaveRows'
  BY <1>3, <1>7 DEF XpInv, NoEarlierEntries, CompletionsHaveRows
<1>14. XpAccounted'
  <2>1. ASSUME NEW b \in QuotaRows, highest'[b] # NoCap PROVE Awarded(b) <= highest'[b]
    <3>1. highest[b] # NoCap /\ highest[b] <= highest'[b] /\ highest[b] \in Int /\ highest'[b] \in Int
      BY <1>1, <1>5, <1>6, <2>1
    <3>2. Awarded(b) <= highest[b] /\ Awarded(b) \in Int
      BY <3>1, XpSumsTyped DEF XpInv, XpTyped, XpAccounted, QuotaRows
    <3> QED BY <3>1, <3>2
  <2> QED BY <1>3, <1>7, <2>1 DEF XpInv, XpAccounted, QuotaRows
<1> QED BY <1>8, <1>9, <1>11, <1>12, <1>13, <1>14 DEF XpInv

LEMMA XpStepOK == XpInv /\ [ExperienceNext]_xpVars => XpInv'
<1> SUFFICES ASSUME XpInv, [ExperienceNext]_xpVars PROVE XpInv'
  OBVIOUS
<1>1. CASE UNCHANGED xpVars
  <2>1. RowsStand /\ UNCHANGED <<xp, journal, admin>>
    BY <1>1 DEF xpVars, RowsStand, XpInv, XpTyped
  <2> QED BY <2>1, XpQuiet DEF XpInv, XpTyped
<1>2. CASE \E w \in Intakes, a \in XpApps, e \in XpEvents, u \in Users : submitEvent(w, a, e, u)
  BY <1>2, submitEventOK
<1>3. ASSUME NEW w \in Intakes,
             lockState(w) \/ lockQuota(w) \/ evaluateQuotas(w) \/ appendTaskAward(w) \/ retryIntake(w) \/ RollbackIntake(w)
      PROVE  XpInv'
  BY <1>3, lockStateOK, lockQuotaOK, evaluateQuotasOK, appendTaskAwardOK, retryIntakeOK, RollbackIntakeOK
<1>4. ASSUME NEW u \in Users, NEW delta \in Int, Correct(u, delta) PROVE XpInv'
  <2>1. admin' = [pc |-> "adjust", user |-> u, delta |-> delta, policy |-> policy] /\ admin' \in Corrections
    BY <1>4 DEF Correct, Corrections, XpInv, XpTyped
  <2>2. RowsStand /\ UNCHANGED <<xp, journal>>
    BY <1>4 DEF Correct, RowsStand, XpInv, XpTyped
  <2> QED BY <2>1, <2>2, XpQuiet
<1>5. Reward \in Int /\ -Reward \in Int
  BY ExperienceConstants
<1>6. ASSUME NEW u \in Users, ensureState(u) \/ adjustXp(u) \/ reverseXp(u) PROVE XpInv'
  BY <1>4, <1>5, <1>6, ensureStateOK DEF adjustXp, reverseXp
<1>7. CASE adjustWrite \/ writePage
  BY <1>7, adjustWriteOK, writePageOK
<1>8. ASSUME NEW p \in Policies, runBackfill(p) PROVE XpInv'
  <2>1. admin'.pc = "page" /\ admin'.policy = p
    BY <1>8 DEF runBackfill
  <2>2. RowsStand /\ UNCHANGED <<xp, journal>>
    BY <1>8 DEF runBackfill, RowsStand, XpInv, XpTyped
  <2> QED BY <2>1, <2>2, XpQuiet
<1>9. CASE activatePolicy \/ updateTask \/ \E a \in XpApps : setXpPermission(a)
  <2>1. RowsStand /\ UNCHANGED <<xp, journal, admin>>
    BY <1>9 DEF activatePolicy, updateTask, setXpPermission, RowsStand, XpInv, XpTyped
  <2> QED BY <2>1, XpQuiet DEF XpInv, XpTyped
<1>10. CASE \E c \in Caps \cup {NoCap} : \/ \E a \in XpApps, suspended \in BOOLEAN : upsertQuota(a, c, suspended)
                                         \/ upsertOrgQuota(c)
  BY <1>10, SetQuotaOK DEF upsertQuota, upsertOrgQuota, QuotaRows
<1> QED BY <1>1, <1>2, <1>3, <1>6, <1>7, <1>8, <1>9, <1>10 DEF ExperienceNext

LEMMA XpStartOK == ExperienceInit => XpInv
<1> SUFFICES ASSUME ExperienceInit PROVE XpInv
  OBVIOUS
<1>1. /\ DOMAIN xp = {} /\ journal = <<>> /\ completion = {} /\ (\A w \in Intakes : intake[w] = NoIntake)
      /\ intake \in [Intakes -> Submissions \cup {NoIntake}] /\ admin.pc = "idle" /\ policy = 1
      /\ NoIntake.held = {} /\ NoIntake.pc = "idle"
  BY DEF ExperienceInit, NoIntake
<1>2. highest \in [QuotaRows -> Caps \cup {NoCap}] /\ highest \in [QuotaRows -> 0..NoCap]
  <2>1. Caps \cup {NoCap} \subseteq 0..NoCap
    BY ExperienceConstants
  <2>2. highest \in [QuotaRows -> Caps \cup {NoCap}]
    BY ExperienceConstants DEF ExperienceInit, QuotaRows, Owner
  <2> QED BY <2>1, <2>2
<1>3. quota = [a \in QuotaRows |-> [cap |-> highest[a], suspended |-> FALSE]]
  BY DEF ExperienceInit, QuotaRows
<1>4. \A a \in QuotaRows : quota[a].cap = highest[a] /\ highest[a] \in Nat
  BY <1>2, <1>3, ExperienceConstants
<1>5. XpTyped
  <2>1. quota \in [QuotaRows -> [cap: Nat, suspended: BOOLEAN]]
    BY <1>3, <1>4
  <2>2. IsFiniteSet(completion)
    BY <1>1, FS_EmptySet
  <2>3. journal \in Seq(XpEntries) /\ xp \in [DOMAIN xp -> XpStates]
    BY <1>1 DEF ExperienceInit
  <2> QED BY <1>1, <1>2, <2>1, <2>2, <2>3, ExperienceConstants DEF XpTyped
<1>6. LocksApart /\ UserLocked /\ TaskOpen /\ CapsKept /\ QuotaLocked /\ RoomKept /\ CompletionsHaveRows
  BY <1>1, <1>4 DEF LocksApart, UserLocked, TaskOpen, CapsKept, QuotaLocked, RoomKept, CompletionsHaveRows
<1>7. DOMAIN journal = {} /\ (\A u : EntriesOf(u) = {}) /\ \A a : AwardsOf(a) = {}
  BY <1>1 DEF EntriesOf, AwardsOf
<1>8. \A a : Awarded(a) = 0
  <2>1. SumFunctionOnSet(Deltas, {}) = 0
    BY FS_EmptySet, SumExtends
  <2> QED BY <1>7, <2>1 DEF Awarded
<1>9. NoEarlierEntries /\ XpAccounted
  <2>1. Cardinality(completion) = 0 /\ Cardinality(AwardsOf(Owner)) = 0
    BY <1>1, <1>7, FS_EmptySet
  <2> QED BY <1>1, <1>4, <1>7, <1>8, <2>1 DEF NoEarlierEntries, XpAccounted, QuotaRows
<1> QED BY <1>5, <1>6, <1>9 DEF XpInv

\* Locks, quotas and the ledger agree, for any users, apps, events, caps and
\* submissions: what a submission found out under its locks stays true until
\* it commits.
THEOREM ExperienceInvariance == ExperienceSpec => []XpInv
BY XpStartOK, XpStepOK, PTL DEF ExperienceSpec

---------------------------------------------------------------------------
\* Settings: the inductive invariant

SettingValues == Migrated \cup {"none", "on", "off", "junk"}
SettingRows == [value: SettingValues, version: Nat]
PastEntries == [old: SettingValues, new: SettingValues, version: Nat, saw: SettingValues]
IntakeReads == [at: {"asked", "found", "ended"}, value: SettingValues, wrong: BOOLEAN]
Gates == [open: BOOLEAN, host: Hosts \cup {NoPick}, since: Nat, read: [Keys -> IntakeReads]]
Pages == [rows: [Keys -> SettingRows], edit: Keys \cup {NoPick}, conflict: SettingRows,
          review: Keys \cup {NoPick}, seen: Seq(PastEntries), more: BOOLEAN]
Puts == [at: {"sent", "failed", "checked", "conflict", "committed", "saved", "changed"}, by: Managers, key: Keys,
         value: SettingValues, saw: SettingValues, expected: Nat, host: Hosts \cup {NoPick},
         row: SettingRows, on: {"form", "page", "gone"}]

SettingsTyped ==
    /\ setting \in [Keys -> SettingRows]
    /\ past \in [Keys -> Seq(PastEntries)]
    /\ changed \in [Keys -> Nat] /\ instant \in Nat
    /\ cached \in [Hosts -> [Keys -> [value: SettingValues, until: Nat]]]
    /\ gate \in Gates
    /\ screen \in [Managers -> Pages]
    /\ saves \in Seq(Puts \cup {Received})

\* The value a row of the catalog had at each of its versions.
ValueAt(k, v) == IF v = 1 THEN SwitchedOff ELSE past[k][v - 1].new

\* A row as it is, was, or as a page shows one that is not there.
Genuine(k, row) ==
    \/ row = NoRow
    \/ k \in Catalog /\ row.version \in 1..(Len(past[k]) + 1) /\ row.value = ValueAt(k, row.version)
    \/ k \notin Catalog /\ row = setting[k]

\* What a save relies on, at each of its steps.
SaveKnows(s) ==
    s.at # "over" =>
       /\ Genuine(s.key, [value |-> s.saw, version |-> s.expected])
       /\ s.at = "checked" => s.key \in Catalog /\ s.row # NoRow /\ s.row.version = s.expected
       /\ s.at \in {"checked", "saved", "changed"} => Genuine(s.key, s.row)
       /\ s.at = "committed" => s.key \in Catalog /\ Genuine(s.key, [value |-> s.value, version |-> s.expected + 1])
       /\ s.on = "form" => screen[s.by].edit = s.key

SavesKnow == \A i \in DOMAIN saves : SaveKnows(saves[i])

ScreensGenuine ==
    \A m \in Managers :
        /\ \A k \in Keys : Genuine(k, screen[m].rows[k])
        /\ screen[m].conflict # NoRow => screen[m].edit \in Keys /\ Genuine(screen[m].edit, screen[m].conflict)

\* The last entry a history shows is no older than its place among all.
SeenReaches ==
    \A m \in Managers :
        LET p == screen[m]
        IN  p.seen # <<>> =>
               p.review \in Keys /\ p.seen[Len(p.seen)].version + Len(p.seen) <= Len(past[p.review]) + 2

\* A cached value other than "on" was read before a switch went on.
CacheFresh ==
    /\ \A k \in Keys : changed[k] <= instant
    /\ \A h \in Hosts, k \in Keys :
          /\ cached[h][k].until <= instant + SettingsTtl
          /\ cached[h][k].value # SwitchedOn /\ setting[k].value = SwitchedOn =>
                cached[h][k].until <= changed[k] + SettingsTtl

GateFresh ==
    gate.open =>
       /\ gate.host \in Hosts /\ gate.since <= instant
       /\ \A k \in Keys :
             /\ gate.read[k].at = "found" /\ gate.read[k].value # SwitchedOn /\ setting[k].value = SwitchedOn =>
                   gate.since <= changed[k]
             /\ (gate.read[k].at = "ended" /\ ~gate.read[k].wrong
                 /\ gate.read[k].value # SwitchedOn /\ setting[k].value = SwitchedOn) =>
                   gate.since < changed[k] + SettingsTtl

SettingsInv ==
    /\ SettingsTyped /\ HistoryChained /\ NoBlindOverwrite /\ HistoryWhole
    /\ SavesKnow /\ ScreensGenuine /\ SeenReaches /\ CacheFresh /\ GateFresh

\* What is genuine is so while rows and history stay.
LEMMA GenuineStays ==
    ASSUME UNCHANGED <<setting, past>>, NEW k, NEW row, Genuine(k, row)
    PROVE  Genuine(k, row)'
BY DEF Genuine, ValueAt

\* What the gate, the cache and the clock do leaves the rest alone.
LEMMA PagesFrame ==
    ASSUME SettingsInv, UNCHANGED <<setting, past, screen, saves>>
    PROVE  HistoryChained' /\ NoBlindOverwrite' /\ HistoryWhole' /\ SavesKnow' /\ ScreensGenuine' /\ SeenReaches'
<1>1. HistoryChained' /\ NoBlindOverwrite'
  BY DEF SettingsInv, HistoryChained, Wrote, NoBlindOverwrite
<1>2. HistoryWhole' /\ SeenReaches'
  BY DEF SettingsInv, HistoryWhole, SeenReaches
<1>3. SavesKnow'
  <2> SUFFICES ASSUME NEW i \in DOMAIN saves PROVE SaveKnows(saves[i])'
    BY DEF SavesKnow
  <2>1. SaveKnows(saves[i])
    BY DEF SettingsInv, SavesKnow
  <2>2. PICK s : s = saves[i]
    OBVIOUS
  <2>3. s = saves'[i] /\ SaveKnows(s)
    BY <2>1, <2>2
  <2>4. SaveKnows(s)'
    BY <2>3 DEF SaveKnows, Genuine, ValueAt
  <2> QED BY <2>2, <2>3, <2>4 DEF SaveKnows, Genuine, ValueAt
<1>4. ScreensGenuine'
  BY DEF SettingsInv, ScreensGenuine, Genuine, ValueAt
<1> QED BY <1>1, <1>2, <1>3, <1>4

\* What the pages do leaves the cache and the gate alone.
LEMMA GatesFrame ==
    ASSUME SettingsInv, UNCHANGED <<setting, changed, cached, gate, instant>>
    PROVE  CacheFresh' /\ GateFresh'
BY DEF SettingsInv, CacheFresh, GateFresh

LEMMA BeginIntakeOK ==
    ASSUME SettingsInv, NEW h \in Hosts, beginIntake(h)
    PROVE  SettingsInv'
<1>1. gate' = [open |-> TRUE, host |-> h, since |-> instant, read |-> readDetailed(h)]
  BY DEF beginIntake
<1>2. UNCHANGED <<setting, past, changed, cached, screen, saves, instant>>
  BY DEF beginIntake
<1>3. \A k \in Keys : /\ readDetailed(h)[k] \in IntakeReads
                      /\ readDetailed(h)[k].at # "found"
                      /\ readDetailed(h)[k].at = "ended" =>
                            readDetailed(h)[k].value = cached[h][k].value /\ cached[h][k].until > instant
  BY DEF readDetailed, Ended, IntakeReads, SettingsInv, SettingsTyped, SettingValues
<1>4. readDetailed(h) \in [Keys -> IntakeReads]
  BY <1>3 DEF readDetailed
<1>5. SettingsTyped'
  BY <1>1, <1>2, <1>4 DEF SettingsInv, SettingsTyped, Gates
<1>6. CacheFresh'
  BY <1>2 DEF SettingsInv, CacheFresh
<1>7. GateFresh'
  <2> SUFFICES ASSUME NEW k \in Keys, readDetailed(h)[k].at = "ended", readDetailed(h)[k].value # SwitchedOn,
                      setting[k].value = SwitchedOn
               PROVE  instant < changed[k] + SettingsTtl
    <3>1. gate'.open /\ gate'.host = h /\ gate'.since = instant /\ gate'.read = readDetailed(h)
      BY <1>1
    <3>2. instant' = instant /\ instant <= instant
      BY <1>2 DEF SettingsInv, SettingsTyped
    <3>3. \A k \in Keys : gate'.read[k].at # "found"
      BY <3>1, <1>3
    <3>4. setting' = setting /\ changed' = changed
      BY <1>2
    <3> HIDE <1>1, <1>3
    <3> QED BY <3>1, <3>2, <3>3, <3>4 DEF GateFresh
  <2>1. cached[h][k].until <= changed[k] + SettingsTtl /\ cached[h][k].until > instant
    BY <1>3 DEF SettingsInv, CacheFresh
  <2> QED BY <2>1, SettingsConstants DEF SettingsInv, SettingsTyped
<1> QED BY <1>2, <1>5, <1>6, <1>7, PagesFrame DEF SettingsInv

LEMMA FindSettingOK ==
    ASSUME SettingsInv, NEW k \in Keys, findSetting(k)
    PROVE  SettingsInv'
<1>1. UNCHANGED <<setting, past, changed, cached, screen, saves, instant>>
  BY DEF findSetting
<1>2. PICK r \in IntakeReads :
         /\ gate' = [gate EXCEPT !.read[k] = r]
         /\ \/ r.at = "found" /\ r.value = setting[k].value
            \/ r.at = "ended" /\ r.wrong
  <2>1. CASE gate' = [gate EXCEPT !.read[k] = [@ EXCEPT !.at = "found", !.value = setting[k].value]]
    <3>1. [gate.read[k] EXCEPT !.at = "found", !.value = setting[k].value] \in IntakeReads
      <4>1. gate.read[k] \in IntakeReads /\ setting[k].value \in SettingValues
        BY DEF SettingsInv, SettingsTyped, Gates, SettingRows
      <4> QED BY <4>1 DEF IntakeReads
    <3>2. gate' = [gate EXCEPT !.read[k] = [gate.read[k] EXCEPT !.at = "found", !.value = setting[k].value]]
      BY <2>1
    <3>3. /\ [gate.read[k] EXCEPT !.at = "found", !.value = setting[k].value].at = "found"
          /\ [gate.read[k] EXCEPT !.at = "found", !.value = setting[k].value].value = setting[k].value
      BY DEF SettingsInv, SettingsTyped, Gates, IntakeReads
    <3> QED BY <3>1, <3>2, <3>3
  <2>2. CASE gate' = [gate EXCEPT !.read[k] = [Ended EXCEPT !.value = SwitchedOff, !.wrong = TRUE]]
    <3>1. /\ [Ended EXCEPT !.value = SwitchedOff, !.wrong = TRUE] \in IntakeReads
          /\ [Ended EXCEPT !.value = SwitchedOff, !.wrong = TRUE].at = "ended"
          /\ [Ended EXCEPT !.value = SwitchedOff, !.wrong = TRUE].wrong
      BY DEF IntakeReads, Ended, SwitchedOff, SettingValues
    <3> QED BY <2>2, <3>1
  <2> QED BY <2>1, <2>2 DEF findSetting
<1>3. /\ gate' \in Gates /\ gate'.open = gate.open /\ gate'.host = gate.host /\ gate'.since = gate.since
      /\ gate'.read[k] = r /\ \A j \in Keys : j # k => gate'.read[j] = gate.read[j]
  BY <1>2 DEF SettingsInv, SettingsTyped, Gates
<1>4. SettingsTyped'
  BY <1>1, <1>3 DEF SettingsInv, SettingsTyped
<1>5. CacheFresh'
  BY <1>1 DEF SettingsInv, CacheFresh
<1>6. GateFresh'
  <2>1. /\ gate'.read[k].at = "found" => gate'.read[k].value = setting[k].value
        /\ gate'.read[k].at = "ended" => gate'.read[k].wrong
    BY <1>2, <1>3
  <2>2. gate'.open => gate.host \in Hosts /\ gate.since <= instant
    BY <1>3 DEF SettingsInv, GateFresh
  <2>3. ASSUME gate'.open, NEW j \in Keys
        PROVE  /\ (gate'.read[j].at = "found" /\ gate'.read[j].value # SwitchedOn /\ setting[j].value = SwitchedOn =>
                     gate.since <= changed[j])
               /\ (gate'.read[j].at = "ended" /\ ~gate'.read[j].wrong
                  /\ gate'.read[j].value # SwitchedOn /\ setting[j].value = SwitchedOn =>
                     gate.since < changed[j] + SettingsTtl)
    <3>1. CASE j = k
      BY <2>1, <3>1
    <3>2. CASE j # k
      BY <1>3, <2>3, <3>2 DEF SettingsInv, GateFresh
    <3> QED BY <3>1, <3>2
  <2> QED BY <1>1, <1>3, <2>2, <2>3 DEF GateFresh
<1> QED BY <1>1, <1>4, <1>5, <1>6, PagesFrame DEF SettingsInv

LEMMA KeepSettingOK ==
    ASSUME SettingsInv, NEW k \in Keys, keepSetting(k)
    PROVE  SettingsInv'
<1> DEFINE v == gate.read[k].value
<1>1. UNCHANGED <<setting, past, changed, screen, saves, instant>> /\ gate.open /\ gate.read[k].at = "found"
  BY DEF keepSetting
<1>2. /\ gate \in Gates /\ v \in SettingValues /\ gate.host \in Hosts
      /\ v # SwitchedOn /\ setting[k].value = SwitchedOn => gate.since <= changed[k]
  BY <1>1 DEF SettingsInv, SettingsTyped, Gates, GateFresh, IntakeReads
<1>3. CASE validateStoredValue(k, v)
  <2>1. /\ gate' = [gate EXCEPT !.read[k].at = "ended"]
        /\ cached' = [cached EXCEPT ![gate.host][k] = [value |-> v, until |-> gate.since + SettingsTtl]]
    BY <1>3 DEF keepSetting, CacheUntil
  <2>2. /\ gate' \in Gates /\ gate'.open = gate.open /\ gate'.host = gate.host /\ gate'.since = gate.since
        /\ gate'.read[k].value = v /\ \A j \in Keys : j # k => gate'.read[j] = gate.read[j]
        /\ gate'.read[k].at = "ended"
    BY <1>2, <2>1 DEF Gates, IntakeReads
  <2>3. gate.since + SettingsTtl \in Nat
    BY <1>2, SettingsConstants DEF Gates
  <2>4. SettingsTyped'
    BY <1>1, <1>2, <2>1, <2>2, <2>3 DEF SettingsInv, SettingsTyped
  <2>5. CacheFresh'
    <3>1. \A h \in Hosts, j \in Keys : IF h = gate.host /\ j = k THEN cached'[h][j] = [value |-> v, until |-> gate.since + SettingsTtl]
                                       ELSE cached'[h][j] = cached[h][j]
      BY <2>1 DEF SettingsInv, SettingsTyped
    <3>2. gate.since <= instant
      BY <1>1 DEF SettingsInv, GateFresh
    <3>3. [value |-> v, until |-> gate.since + SettingsTtl].until <= instant + SettingsTtl
      BY <1>2, <3>2, SettingsConstants DEF SettingsInv, SettingsTyped, Gates
    <3>4. v # SwitchedOn /\ setting[k].value = SwitchedOn => gate.since + SettingsTtl <= changed[k] + SettingsTtl
      BY <1>2, SettingsConstants DEF SettingsInv, SettingsTyped, Gates
    <3> QED BY <1>1, <3>1, <3>3, <3>4 DEF SettingsInv, CacheFresh
  <2>6. GateFresh'
    <3>1. v # SwitchedOn /\ setting[k].value = SwitchedOn => gate.since < changed[k] + SettingsTtl
      BY <1>2, SettingsConstants DEF SettingsInv, SettingsTyped, Gates
    <3> QED BY <1>1, <2>2, <3>1 DEF SettingsInv, GateFresh
  <2> QED BY <1>1, <2>4, <2>5, <2>6, PagesFrame DEF SettingsInv
<1>4. CASE ~validateStoredValue(k, v)
  <2> DEFINE r == [Ended EXCEPT !.value = SwitchedOff, !.wrong = (v # NoRow.value)]
  <2>1. gate' = [gate EXCEPT !.read[k] = r] /\ cached' = cached
    BY <1>4 DEF keepSetting
  <2>2. r \in IntakeReads /\ r.at = "ended" /\ (~r.wrong => v = "none")
    BY DEF IntakeReads, Ended, SwitchedOff, SettingValues, NoRow
  <2>3. /\ gate' \in Gates /\ gate'.open = gate.open /\ gate'.host = gate.host /\ gate'.since = gate.since
        /\ gate'.read[k] = r /\ \A j \in Keys : j # k => gate'.read[j] = gate.read[j]
    BY <1>2, <2>1, <2>2 DEF Gates
  <2>4. SettingsTyped'
    BY <1>1, <2>1, <2>3 DEF SettingsInv, SettingsTyped
  <2>5. CacheFresh'
    BY <1>1, <2>1 DEF SettingsInv, CacheFresh
  <2>6. GateFresh'
    <3>1. ~r.wrong /\ setting[k].value = SwitchedOn => gate.since < changed[k] + SettingsTtl
      BY <1>2, <2>2, SettingsConstants DEF SettingsInv, SettingsTyped, Gates, SwitchedOn
    <3> HIDE DEF r
    <3> QED BY <1>1, <2>2, <2>3, <3>1 DEF SettingsInv, GateFresh
  <2> QED BY <1>1, <2>4, <2>5, <2>6, PagesFrame DEF SettingsInv
<1> QED BY <1>3, <1>4

LEMMA AnswerIntakeOK ==
    ASSUME SettingsInv, answerIntake
    PROVE  SettingsInv'
<1>1. gate' = NoGate /\ UNCHANGED <<setting, past, changed, cached, screen, saves, instant>>
  BY DEF answerIntake
<1>2. NoGate \in Gates /\ ~NoGate.open
  BY DEF NoGate, Gates, Ended, IntakeReads, SettingValues, NoPick
<1>3. SettingsTyped' /\ CacheFresh' /\ GateFresh'
  BY <1>1, <1>2 DEF SettingsInv, SettingsTyped, CacheFresh, GateFresh
<1> QED BY <1>1, <1>3, PagesFrame DEF SettingsInv

LEMMA PassInstantOK ==
    ASSUME SettingsInv, passInstant
    PROVE  SettingsInv'
<1>1. instant' = instant + 1 /\ UNCHANGED <<setting, past, changed, cached, gate, screen, saves>>
  BY DEF passInstant
<1>2. SettingsTyped'
  BY <1>1 DEF SettingsInv, SettingsTyped
<1>3. CacheFresh'
  <2>1. \A h \in Hosts, k \in Keys : cached[h][k].until \in Nat /\ changed[k] \in Nat
    BY DEF SettingsInv, SettingsTyped
  <2> QED BY <1>1, <2>1, SettingsConstants DEF SettingsInv, SettingsTyped, CacheFresh
<1>4. GateFresh'
  BY <1>1 DEF SettingsInv, SettingsTyped, Gates, GateFresh
<1> QED BY <1>1, <1>2, <1>3, <1>4, PagesFrame DEF SettingsInv

\* A save as it was, or with its form gone.
SameSave(s, t) ==
    /\ s.at = t.at
    /\ s.at # "over" => /\ s.by = t.by /\ s.key = t.key /\ s.value = t.value /\ s.saw = t.saw
                        /\ s.expected = t.expected /\ s.row = t.row

\* What the page does to the saves: it ends one, or takes it from its form, as it
\* must when its editor changes.
Detaches(m, editing) ==
    /\ saves' \in Seq(Puts \cup {Received}) /\ DOMAIN saves' = DOMAIN saves
    /\ \A i \in DOMAIN saves : SameSave(saves[i], saves'[i]) \/ saves'[i] = Received
    /\ \A i \in DOMAIN saves : saves'[i].on = "form" => saves[i].on = "form" /\ (saves[i].by = m => editing)

\* A page that is as sound as the invariant has it: its parts.
ListSound(rows) == \A k \in Keys : Genuine(k, rows[k])
ConflictSound(k, row) == row # NoRow => k \in Keys /\ Genuine(k, row)
SeenSound(k, seen) ==
    /\ \A i \in 1..(Len(seen) - 1) : seen[i].version - seen[i + 1].version <= 1
    /\ seen # <<>> => k \in Keys /\ seen[Len(seen)].version + Len(seen) <= Len(past[k]) + 2

PageSoundly(p) ==
    /\ p \in Pages /\ ListSound(p.rows) /\ ConflictSound(p.edit, p.conflict) /\ SeenSound(p.review, p.seen)

LEMMA PageStep ==
    ASSUME SettingsInv, NEW m \in Managers, NEW p, PageSoundly(p), screen' = [screen EXCEPT ![m] = p],
           UNCHANGED <<setting, past, changed, cached, gate, instant>>, Detaches(m, p.edit = screen[m].edit)
    PROVE  SettingsInv'
<1>1. /\ \A n \in Managers : screen'[n] = IF n = m THEN p ELSE screen[n]
      /\ screen' \in [Managers -> Pages]
  BY DEF SettingsInv, SettingsTyped, PageSoundly
<1>2. SettingsTyped'
  BY <1>1 DEF SettingsInv, SettingsTyped, Detaches
<1>3. HistoryChained' /\ NoBlindOverwrite'
  BY DEF SettingsInv, HistoryChained, Wrote, NoBlindOverwrite
<1>4. HistoryWhole' /\ SeenReaches'
  BY <1>1 DEF SettingsInv, HistoryWhole, SeenReaches, PageSoundly, SeenSound
<1>5. ScreensGenuine'
  <2>1. ASSUME NEW k \in Keys, NEW row, Genuine(k, row) PROVE Genuine(k, row)'
    BY <2>1, GenuineStays
  <2>2. /\ \A k \in Keys : Genuine(k, p.rows[k])
        /\ p.conflict # NoRow => p.edit \in Keys /\ Genuine(p.edit, p.conflict)
    BY DEF PageSoundly, ListSound, ConflictSound
  <2> SUFFICES ASSUME NEW n \in Managers
               PROVE  /\ \A k \in Keys : Genuine(k, screen[n].rows[k])'
                      /\ (screen[n].conflict # NoRow)' => (screen[n].edit \in Keys /\ Genuine(screen[n].edit, screen[n].conflict))'
    BY DEF ScreensGenuine
  <2>3. PICK q : q = screen'[n]
    OBVIOUS
  <2>4. /\ \A k \in Keys : Genuine(k, q.rows[k])
        /\ q.conflict # NoRow => q.edit \in Keys /\ Genuine(q.edit, q.conflict)
    BY <1>1, <2>2, <2>3 DEF SettingsInv, ScreensGenuine
  <2>5. /\ \A k \in Keys : Genuine(k, q.rows[k])'
        /\ q.conflict # NoRow => q.edit \in Keys /\ Genuine(q.edit, q.conflict)'
    BY <2>1, <2>4
  <2> QED BY <2>3, <2>5 DEF Genuine, ValueAt
<1>6. SavesKnow'
  <2> SUFFICES ASSUME NEW i \in DOMAIN saves, saves'[i].at # "over" PROVE SaveKnows(saves[i])'
    BY DEF SavesKnow, SaveKnows, Detaches
  <2> DEFINE s == saves[i]
             t == saves'[i]
  <2>1. SameSave(s, t) /\ s.at # "over" /\ SaveKnows(s)
    BY DEF Received, SameSave, SettingsInv, SavesKnow, Detaches
  <2>2. s \in Puts
    BY <2>1, ElementOfSeq DEF SettingsInv, SettingsTyped, Received
  <2>3. t.on = "form" => screen'[t.by].edit = t.key
    BY <1>1, <2>1, <2>2 DEF SaveKnows, SameSave, Puts, Detaches
  <2> QED BY <2>1, <2>3 DEF SaveKnows, SameSave, Genuine, ValueAt
<1> QED BY <1>2, <1>3, <1>4, <1>5, <1>6, GatesFrame DEF SettingsInv

LEMMA UnmountKeeps ==
    ASSUME SettingsInv, NEW m \in Managers, NEW into \in {"page", "gone"}, Unmount(m, into), NEW editing
    PROVE  Detaches(m, editing)
<1>1. saves \in Seq(Puts \cup {Received})
  BY DEF SettingsInv, SettingsTyped
<1>2. /\ \A i \in DOMAIN saves : saves'[i] = IF saves[i].by = m /\ (Mounted(m, saves[i]) \/ into = "gone")
                                               THEN [saves[i] EXCEPT !.on = into] ELSE saves[i]
      /\ DOMAIN saves' = DOMAIN saves
      /\ saves' = [i \in DOMAIN saves |-> saves'[i]]
  BY DEF Unmount
<1>3. ASSUME NEW i \in DOMAIN saves
      PROVE  /\ saves'[i] \in Puts \cup {Received}
             /\ SameSave(saves[i], saves'[i]) \/ saves'[i] = Received
             /\ saves'[i].on = "form" => saves[i].on = "form" /\ saves[i].by # m
  <2>1. saves[i] \in Puts \cup {Received}
    BY <1>1, ElementOfSeq
  <2>2. CASE saves[i] \in Puts
    BY <1>2, <2>2 DEF Puts, SameSave, Mounted
  <2>3. CASE saves[i] = Received
    <3>1. Received.on = "gone" /\ [Received EXCEPT !.on = "gone"] = Received /\ ~Mounted(m, Received)
      BY DEF Received, Mounted
    <3>2. saves'[i] = Received
      BY <1>2, <2>3, <3>1
    <3> QED BY <2>3, <3>1, <3>2
  <2> QED BY <2>1, <2>2, <2>3
<1>4. saves' \in Seq(Puts \cup {Received})
  <2>1. DOMAIN saves = 1..Len(saves) /\ Len(saves) \in Nat
    BY <1>1, LenProperties
  <2> QED BY <1>2, <1>3, <2>1, IsASeq
<1> QED BY <1>2, <1>3, <1>4 DEF Detaches

LEMMA HistoryPages ==
    ASSUME SettingsInv, NEW k \in Keys, NEW off \in Nat
    PROVE  LET page == settingHistory(k, off)
           IN  /\ page.entries \in Seq(PastEntries) /\ page.more \in BOOLEAN
               /\ \A j \in 1..Len(page.entries) : page.entries[j].version = Len(past[k]) - off - j + 2
<1> DEFINE L == Len(past[k])
           all == Reverse(past[k])
           hi == IF off + HistoryPage < Len(all) THEN off + HistoryPage ELSE Len(all)
           page == SubSeq(all, off + 1, hi)
<1>1. past[k] \in Seq(PastEntries) /\ L \in Nat /\ DOMAIN past[k] = 1..L
  BY LenProperties DEF SettingsInv, SettingsTyped
<1>2. \A n \in 1..L : past[k][n].version = n + 1 /\ past[k][n] \in PastEntries
  <2>1. \A n \in DOMAIN past[k] : past[k][n].version = n + 1
    BY DEF SettingsInv, HistoryChained
  <2>2. \A n \in 1..L : past[k][n] \in PastEntries
    BY <1>1, ElementOfSeq
  <2> QED BY <1>1, <2>1, <2>2
<1>3. /\ all = [i \in 1..L |-> past[k][L - i + 1]]
      /\ settingHistory(k, off).entries = page
  BY DEF Reverse, settingHistory
<1>4. settingHistory(k, off).more \in BOOLEAN
  BY DEF settingHistory
<1> HIDE DEF L
<1>5. \A i \in 1..L : all[i].version = L - i + 2 /\ all[i] \in PastEntries
  <2> SUFFICES ASSUME NEW i \in 1..L PROVE all[i].version = L - i + 2 /\ all[i] \in PastEntries
    OBVIOUS
  <2>1. L - i + 1 \in 1..L /\ (L - i + 1) + 1 = L - i + 2
    BY <1>1
  <2> QED BY <1>2, <1>3, <2>1
<1>6. all \in Seq(PastEntries) /\ Len(all) = L
  <2>1. all \in [1..L -> PastEntries]
    BY <1>3, <1>5
  <2> QED BY <1>1, <2>1
<1> HIDE DEF all
<1>7. HistoryPage \in Nat /\ hi \in Nat /\ hi <= L
  BY <1>1, <1>6, SettingsConstants
<1> HIDE DEF hi
<1>8. page \in Seq(PastEntries) /\ \A j \in 1..Len(page) : off + j \in 1..L /\ page[j] = all[off + j]
  <2>1. CASE off + 1 <= hi
    <3>1. \A i \in (off + 1)..hi : all[i] \in PastEntries
      BY <1>1, <1>5, <1>7
    <3>2. /\ page \in Seq(PastEntries) /\ Len(page) = hi - (off + 1) + 1
          /\ \A i \in 1..(hi - (off + 1) + 1) : page[i] = all[(off + 1) + i - 1]
      BY <1>7, <2>1, <3>1, SubSeqProperties
    <3> HIDE DEF page
    <3> QED BY <1>1, <1>7, <2>1, <3>2
  <2>2. CASE off + 1 > hi
    <3>1. page = <<>>
      BY <1>7, <2>2, SubSeqEmpty
    <3> HIDE DEF page
    <3>2. Len(page) = 0 /\ page \in Seq(PastEntries)
      BY <3>1, EmptySeq
    <3> QED BY <3>2
  <2> QED BY <1>7, <2>1, <2>2
<1> HIDE DEF page
<1>9. \A j \in 1..Len(page) : page[j].version = L - off - j + 2
  <2> SUFFICES ASSUME NEW j \in 1..Len(page) PROVE page[j].version = L - off - j + 2
    OBVIOUS
  <2>1. off + j \in 1..L /\ page[j] = all[off + j] /\ j \in Int
    BY <1>8, LenProperties
  <2>2. all[off + j].version = L - (off + j) + 2
    BY <1>5, <2>1
  <2> QED BY <1>1, <2>1, <2>2
<1> QED BY <1>3, <1>4, <1>8, <1>9 DEF L

\* The pages there are sound, and a step may leave the saves alone.
LEMMA PageSound ==
    ASSUME SettingsInv, NEW m \in Managers
    PROVE  PageSoundly(screen[m])
BY DEF SettingsInv, SettingsTyped, ScreensGenuine, HistoryWhole, SeenReaches,
       PageSoundly, ListSound, ConflictSound, SeenSound

LEMMA SavesStay ==
    ASSUME SettingsInv, NEW m \in Managers, saves' = saves
    PROVE  Detaches(m, TRUE)
BY DEF Detaches, SameSave, SettingsInv, SettingsTyped

LEMMA NothingSound ==
    /\ NoRow \in SettingRows /\ <<>> \in Seq(PastEntries)
    /\ \A k : ConflictSound(k, NoRow) /\ SeenSound(k, <<>>)
<1>1. Len(<<>>) = 0
  OBVIOUS
<1>2. \A i \in 1..(0 - 1) : FALSE
  OBVIOUS
<1>3. \A k : SeenSound(k, <<>>)
  BY <1>1, <1>2 DEF SeenSound
<1> QED BY <1>3 DEF NoRow, SettingRows, SettingValues, ConflictSound

LEMMA RowsAsTheyAre ==
    ASSUME SettingsInv, NEW k \in Keys
    PROVE  /\ Genuine(k, setting[k])
           /\ k \in Catalog => setting[k].version = Len(past[k]) + 1 /\ setting[k] # NoRow /\ Len(past[k]) \in Nat
<1> SUFFICES ASSUME k \in Catalog
             PROVE  /\ Genuine(k, setting[k]) /\ Len(past[k]) \in Nat
                    /\ setting[k].version = Len(past[k]) + 1 /\ setting[k] # NoRow
  BY DEF Genuine
<1>1. Len(past[k]) \in Nat
  BY LenProperties DEF SettingsInv, SettingsTyped
<1>2. setting[k] = [value |-> IF Len(past[k]) = 0 THEN SwitchedOff ELSE past[k][Len(past[k])].new,
                    version |-> Len(past[k]) + 1]
  BY DEF SettingsInv, HistoryChained, Wrote
<1>3. setting[k].version = Len(past[k]) + 1 /\ setting[k].value = ValueAt(k, Len(past[k]) + 1)
  BY <1>1, <1>2 DEF ValueAt
<1> QED BY <1>1, <1>3 DEF Genuine, NoRow

LEMMA SystemSettingsPageOK ==
    ASSUME SettingsInv, NEW m \in Managers, SystemSettingsPage(m)
    PROVE  SettingsInv'
<1>1. screen' = [screen EXCEPT ![m] = BlankPage] /\ UNCHANGED <<setting, past, changed, cached, gate, instant>>
  BY DEF SystemSettingsPage, Show, pageOnly
<1>2. /\ BlankPage \in Pages /\ BlankPage.conflict = NoRow /\ BlankPage.seen = <<>>
      /\ ListSound(BlankPage.rows)
  BY NothingSound DEF BlankPage, Pages, Unread, NoPick, Genuine, ListSound
<1>3. PageSoundly(BlankPage)
  BY <1>2, NothingSound DEF PageSoundly
<1>4. Detaches(m, BlankPage.edit = screen[m].edit)
  BY UnmountKeeps DEF SystemSettingsPage
<1> QED BY <1>1, <1>3, <1>4, PageStep

LEMMA SettingsSectionOK ==
    ASSUME SettingsInv, NEW m \in Managers, SettingsSection(m)
    PROVE  SettingsInv'
<1> DEFINE p == [screen[m] EXCEPT !.rows = setting]
<1>1. /\ screen' = [screen EXCEPT ![m] = p] /\ UNCHANGED <<setting, past, changed, cached, gate, instant>>
      /\ saves' = saves
  BY DEF SettingsSection, Show, listSettings
<1>2. /\ p \in Pages /\ p.rows = setting /\ p.conflict = screen[m].conflict /\ p.edit = screen[m].edit
      /\ p.review = screen[m].review /\ p.seen = screen[m].seen
  BY PageSound DEF PageSoundly, Pages, SettingsInv, SettingsTyped
<1> HIDE DEF p
<1>3. PageSoundly(p)
  BY <1>2, RowsAsTheyAre, PageSound DEF PageSoundly, ListSound
<1>4. Detaches(m, p.edit = screen[m].edit)
  BY <1>1, <1>2, SavesStay
<1> QED BY <1>1, <1>3, <1>4, PageStep

LEMMA OnEditOK ==
    ASSUME SettingsInv, NEW m \in Managers, NEW k \in Keys, onEdit(m, k)
    PROVE  SettingsInv'
<1> DEFINE p == [screen[m] EXCEPT !.edit = k, !.conflict = NoRow, !.review = NoPick, !.seen = <<>>, !.more = FALSE]
<1>1. screen' = [screen EXCEPT ![m] = p] /\ UNCHANGED <<setting, past, changed, cached, gate, instant>>
  BY DEF onEdit, Show, pageOnly
<1>2. p \in Pages /\ p.rows = screen[m].rows /\ p.conflict = NoRow /\ p.seen = <<>>
  BY NothingSound, PageSound DEF PageSoundly, Pages
<1> HIDE DEF p
<1>3. PageSoundly(p)
  BY <1>2, NothingSound, PageSound DEF PageSoundly
<1>4. Detaches(m, p.edit = screen[m].edit)
  BY UnmountKeeps DEF onEdit
<1> QED BY <1>1, <1>3, <1>4, PageStep

LEMMA OnCloseEditOK ==
    ASSUME SettingsInv, NEW m \in Managers, onCloseEdit(m)
    PROVE  SettingsInv'
<1> DEFINE p == [screen[m] EXCEPT !.edit = NoPick, !.conflict = NoRow]
<1>1. screen' = [screen EXCEPT ![m] = p] /\ UNCHANGED <<setting, past, changed, cached, gate, instant>>
  BY DEF onCloseEdit, Show, pageOnly
<1>2. /\ p \in Pages /\ p.rows = screen[m].rows /\ p.conflict = NoRow
      /\ p.seen = screen[m].seen /\ p.review = screen[m].review
  BY NothingSound, PageSound DEF PageSoundly, Pages
<1> HIDE DEF p
<1>3. PageSoundly(p)
  BY <1>2, NothingSound, PageSound DEF PageSoundly
<1>4. Detaches(m, p.edit = screen[m].edit)
  BY UnmountKeeps DEF onCloseEdit
<1> QED BY <1>1, <1>3, <1>4, PageStep

LEMMA KeepDraftOK ==
    ASSUME SettingsInv, NEW m \in Managers, keepDraft(m)
    PROVE  SettingsInv'
<1> DEFINE p == [screen[m] EXCEPT !.conflict = NoRow]
<1>1. /\ screen' = [screen EXCEPT ![m] = p] /\ UNCHANGED <<setting, past, changed, cached, gate, instant>>
      /\ saves' = saves
  BY DEF keepDraft, Show, pageOnly
<1>2. /\ p \in Pages /\ p.rows = screen[m].rows /\ p.conflict = NoRow /\ p.edit = screen[m].edit
      /\ p.seen = screen[m].seen /\ p.review = screen[m].review
  BY NothingSound, PageSound DEF PageSoundly, Pages
<1> HIDE DEF p
<1>3. PageSoundly(p)
  BY <1>2, NothingSound, PageSound DEF PageSoundly
<1>4. Detaches(m, p.edit = screen[m].edit)
  BY <1>1, <1>2, SavesStay
<1> QED BY <1>1, <1>3, <1>4, PageStep

LEMMA OnToggleHistoryOK ==
    ASSUME SettingsInv, NEW m \in Managers, NEW k \in Keys, onToggleHistory(m, k)
    PROVE  SettingsInv'
<1> DEFINE first == settingHistory(k, 0)
           p == IF screen[m].review = k
                THEN [screen[m] EXCEPT !.edit = NoPick, !.conflict = NoRow, !.review = NoPick, !.seen = <<>>, !.more = FALSE]
                ELSE [screen[m] EXCEPT !.edit = NoPick, !.conflict = NoRow, !.review = k,
                                       !.seen = first.entries, !.more = first.more]
<1>1. screen' = [screen EXCEPT ![m] = p] /\ UNCHANGED <<setting, past, changed, cached, gate, instant>>
  BY DEF onToggleHistory, Show, pageOnly
<1>2. /\ first.entries \in Seq(PastEntries) /\ first.more \in BOOLEAN
      /\ \A j \in 1..Len(first.entries) : first.entries[j].version = Len(past[k]) - 0 - j + 2
  BY HistoryPages
<1>3. Len(past[k]) \in Nat /\ Len(first.entries) \in Nat
  BY <1>2, LenProperties DEF SettingsInv, SettingsTyped
<1> HIDE DEF first
<1>4. /\ p \in Pages /\ p.rows = screen[m].rows /\ p.conflict = NoRow
      /\ p.seen = <<>> \/ (p.seen = first.entries /\ p.review = k)
  BY <1>2, NothingSound, PageSound DEF PageSoundly, Pages
<1> HIDE DEF p
<1>5. SeenSound(k, first.entries)
  <2>1. ASSUME NEW i \in 1..(Len(first.entries) - 1)
        PROVE  first.entries[i].version - first.entries[i + 1].version <= 1
    <3>1. i \in 1..Len(first.entries) /\ i + 1 \in 1..Len(first.entries)
      BY <1>3
    <3>2. /\ first.entries[i].version = Len(past[k]) - 0 - i + 2
          /\ first.entries[i + 1].version = Len(past[k]) - 0 - (i + 1) + 2
      BY <1>2, <3>1
    <3> QED BY <1>3, <3>1, <3>2
  <2>2. ASSUME first.entries # <<>>
        PROVE  first.entries[Len(first.entries)].version + Len(first.entries) <= Len(past[k]) + 2
    <3>1. Len(first.entries) \in 1..Len(first.entries)
      BY <1>2, <1>3, <2>2, EmptySeq
    <3>2. first.entries[Len(first.entries)].version = Len(past[k]) - 0 - Len(first.entries) + 2
      BY <1>2, <3>1
    <3> QED BY <1>3, <3>2
  <2> QED BY <2>1, <2>2 DEF SeenSound
<1>6. PageSoundly(p)
  BY <1>4, <1>5, NothingSound, PageSound DEF PageSoundly
<1>7. Detaches(m, p.edit = screen[m].edit)
  BY UnmountKeeps DEF onToggleHistory
<1> QED BY <1>1, <1>6, <1>7, PageStep

LEMMA HistoryViewOK ==
    ASSUME SettingsInv, NEW m \in Managers, HistoryView(m)
    PROVE  SettingsInv'
<1> DEFINE k == screen[m].review
           seen == screen[m].seen
           next == settingHistory(k, Len(seen))
           p == [screen[m] EXCEPT !.seen = seen \o next.entries, !.more = next.more]
           L == Len(past[k])
           n == Len(seen)
           e == Len(next.entries)
           all == seen \o next.entries
<1>1. /\ screen' = [screen EXCEPT ![m] = p] /\ UNCHANGED <<setting, past, changed, cached, gate, instant>>
      /\ saves' = saves /\ k # NoPick
  BY DEF HistoryView, Show, pageOnly
<1>2. k \in Keys /\ seen \in Seq(PastEntries) /\ SeenSound(k, seen) /\ n \in Nat
  BY <1>1, PageSound, LenProperties DEF PageSoundly, Pages
<1>3. /\ next.entries \in Seq(PastEntries) /\ next.more \in BOOLEAN
      /\ \A j \in 1..e : next.entries[j].version = L - n - j + 2
  BY <1>2, HistoryPages
<1>4. L \in Nat /\ e \in Nat
  BY <1>2, <1>3, LenProperties DEF SettingsInv, SettingsTyped
<1>5. /\ all \in Seq(PastEntries) /\ Len(all) = n + e
      /\ \A i \in 1..n : all[i] = seen[i]
      /\ \A i \in (n + 1)..(n + e) : all[i].version = L - i + 2
  <2> HIDE DEF next, seen, k
  <2>1. /\ all \in Seq(PastEntries) /\ Len(all) = n + e
        /\ \A i \in 1..(n + e) : all[i] = IF i <= n THEN seen[i] ELSE next.entries[i - n]
    BY <1>2, <1>3, ConcatProperties
  <2>2. \A i \in 1..n : all[i] = seen[i]
    BY <1>2, <1>4, <2>1
  <2>3. ASSUME NEW i \in (n + 1)..(n + e) PROVE all[i].version = L - i + 2
    <3>1. i - n \in 1..e /\ all[i] = next.entries[i - n]
      BY <1>2, <1>4, <2>1
    <3>2. next.entries[i - n].version = L - n - (i - n) + 2
      BY <1>3, <3>1
    <3> HIDE DEF L, n, all
    <3> QED BY <1>2, <1>4, <3>1, <3>2
  <2> QED BY <2>1, <2>2, <2>3
<1>6. /\ p \in Pages /\ p.rows = screen[m].rows /\ p.conflict = screen[m].conflict /\ p.edit = screen[m].edit
      /\ p.seen = all /\ p.review = k
  <2> HIDE DEF next
  <2> QED BY <1>3, <1>5, PageSound DEF PageSoundly, Pages
<1>7. /\ \A i \in 1..n : seen[i].version \in Nat
      /\ \A i \in 1..(n - 1) : seen[i].version - seen[i + 1].version <= 1
      /\ n # 0 => seen[n].version + n <= L + 2
  <2>1. \A i \in 1..n : seen[i] \in PastEntries
    BY <1>2, ElementOfSeq
  <2>2. n # 0 => seen # <<>>
    OBVIOUS
  <2> HIDE DEF seen, k
  <2> QED BY <1>2, <2>1, <2>2 DEF SeenSound, PastEntries
<1> HIDE DEF all, n, e, L, p
<1>8. SeenSound(k, all)
  <2>1. ASSUME NEW i \in 1..(n + e - 1) PROVE all[i].version - all[i + 1].version <= 1
    <3>1. CASE i < n
      <4>1. i \in 1..(n - 1) /\ i \in 1..n /\ i + 1 \in 1..n
        BY <1>2, <1>4, <3>1
      <4> QED BY <1>5, <1>7, <4>1
    <3>2. CASE i = n
      <4>1. n \in 1..n /\ n # 0 /\ n + 1 \in (n + 1)..(n + e)
        BY <1>2, <1>4, <3>2
      <4>2. all[n] = seen[n] /\ all[n + 1].version = L - (n + 1) + 2 /\ seen[n].version \in Nat
        BY <1>5, <1>7, <4>1
      <4> QED BY <1>2, <1>4, <1>7, <3>2, <4>1, <4>2
    <3>3. CASE i > n
      <4>1. i \in (n + 1)..(n + e) /\ i + 1 \in (n + 1)..(n + e)
        BY <1>2, <1>4, <3>3
      <4>2. all[i].version = L - i + 2 /\ all[i + 1].version = L - (i + 1) + 2
        BY <1>5, <4>1
      <4> QED BY <1>2, <1>4, <4>2
    <3> QED BY <1>2, <1>4, <3>1, <3>2, <3>3
  <2>2. ASSUME all # <<>> PROVE all[n + e].version + (n + e) <= L + 2
    <3>1. CASE e # 0
      <4>1. n + e \in (n + 1)..(n + e)
        BY <1>2, <1>4, <3>1
      <4>2. all[n + e].version = L - (n + e) + 2
        BY <1>5, <4>1
      <4> QED BY <1>2, <1>4, <4>2
    <3>2. CASE e = 0
      <4>1. n # 0
        BY <1>2, <1>5, <2>2, <3>2, EmptySeq
      <4>2. n \in 1..n
        BY <1>2, <4>1
      <4> QED BY <1>2, <1>5, <1>7, <3>2, <4>1, <4>2
    <3> QED BY <3>1, <3>2
  <2>3. Len(all) = n + e
    BY <1>5
  <2>4. \A i \in 1..(Len(all) - 1) : all[i].version - all[i + 1].version <= 1
    <3> SUFFICES ASSUME NEW i \in 1..(Len(all) - 1) PROVE all[i].version - all[i + 1].version <= 1
      OBVIOUS
    <3>1. i \in 1..(n + e - 1)
      BY <1>2, <1>4, <2>3
    <3> QED BY <2>1, <3>1
  <2>5. all # <<>> => k \in Keys /\ all[Len(all)].version + Len(all) <= Len(past[k]) + 2
    BY <1>2, <2>2, <2>3 DEF L
  <2> QED BY <2>4, <2>5 DEF SeenSound
<1>9. PageSoundly(p)
  BY <1>6, <1>8, PageSound DEF PageSoundly
<1>10. Detaches(m, p.edit = screen[m].edit)
  BY <1>1, <1>6, SavesStay
<1> QED BY <1>1, <1>9, <1>10, PageStep

\* The editor closes: the saves of its form are on their own.
LEMMA OnSavedDetaches ==
    ASSUME SettingsInv, NEW m \in Managers, NEW rest,
           \A i \in DOMAIN saves : rest[i] \in {saves[i], Received},
           saves' = [i \in DOMAIN saves |-> IF Mounted(m, rest[i]) THEN [rest[i] EXCEPT !.on = "page"] ELSE rest[i]],
           NEW editing
    PROVE  Detaches(m, editing)
<1>1. saves \in Seq(Puts \cup {Received})
  BY DEF SettingsInv, SettingsTyped
<1>2. ASSUME NEW i \in DOMAIN saves
      PROVE  /\ saves'[i] \in Puts \cup {Received}
             /\ SameSave(saves[i], saves'[i]) \/ saves'[i] = Received
             /\ saves'[i].on = "form" => saves[i].on = "form" /\ saves[i].by # m
  <2>1. saves[i] \in Puts \cup {Received}
    BY <1>1, ElementOfSeq
  <2>2. Received.on = "gone" /\ ~Mounted(m, Received)
    BY DEF Received, Mounted
  <2>3. CASE rest[i] = Received
    BY <2>2, <2>3
  <2>4. CASE rest[i] = saves[i] /\ saves[i] \in Puts
    BY <2>4 DEF Puts, SameSave, Mounted
  <2> QED BY <2>1, <2>3, <2>4
<1>3. saves' \in Seq(Puts \cup {Received}) /\ DOMAIN saves' = DOMAIN saves
  <2>1. DOMAIN saves = 1..Len(saves) /\ Len(saves) \in Nat
    BY <1>1, LenProperties
  <2>2. saves' \in [1..Len(saves) -> Puts \cup {Received}]
    BY <1>2, <2>1
  <2> QED BY <2>1, <2>2
<1> QED BY <1>2, <1>3 DEF Detaches

LEMMA ReloadCurrentOK ==
    ASSUME SettingsInv, NEW m \in Managers, reloadCurrent(m)
    PROVE  SettingsInv'
<1> DEFINE row == screen[m].conflict
           p == [screen[m] EXCEPT !.rows[screen[m].edit] = row, !.edit = NoPick, !.conflict = NoRow]
<1>1. /\ screen' = [screen EXCEPT ![m] = p] /\ UNCHANGED <<setting, past, changed, cached, gate, instant>>
      /\ row # NoRow
      /\ saves' = [i \in DOMAIN saves |-> IF Mounted(m, saves[i]) THEN [saves[i] EXCEPT !.on = "page"] ELSE saves[i]]
  BY DEF reloadCurrent, onSaved, Show, pageOnly
<1>2. row \in SettingRows /\ Genuine(screen[m].edit, row)
  BY <1>1, PageSound DEF PageSoundly, ConflictSound, Pages
<1>3. /\ p \in Pages /\ p.conflict = NoRow /\ p.seen = screen[m].seen /\ p.review = screen[m].review
      /\ \A k \in Keys : p.rows[k] = IF k = screen[m].edit THEN row ELSE screen[m].rows[k]
  BY <1>2, NothingSound, PageSound DEF PageSoundly, Pages
<1> HIDE DEF p
<1>4. PageSoundly(p)
  BY <1>2, <1>3, NothingSound, PageSound DEF PageSoundly, ListSound
<1>5. Detaches(m, p.edit = screen[m].edit)
  BY <1>1, OnSavedDetaches
<1> QED BY <1>1, <1>4, <1>5, PageStep

LEMMA PutSettingOK ==
    ASSUME SettingsInv, NEW i \in DOMAIN saves, putSetting(i)
    PROVE  SettingsInv'
<1> DEFINE s == saves[i]
           m == s.by
<1>1. s.at \in {"saved", "failed", "changed"} /\ UNCHANGED <<setting, past, changed, cached, gate, instant>>
  BY DEF putSetting, pageOnly
<1>2. saves \in Seq(Puts \cup {Received})
  BY DEF SettingsInv, SettingsTyped
<1>3. s \in Puts /\ m \in Managers /\ SaveKnows(s)
  <2>1. s \in Puts \cup {Received}
    BY <1>2, ElementOfSeq
  <2> QED BY <1>1, <2>1 DEF Received, Puts, SettingsInv, SavesKnow
<1>4. \A j \in DOMAIN saves : Over(i)[j] \in {saves[j], Received}
  BY <1>2 DEF Over
<1>5. ASSUME saves' = Over(i) PROVE Detaches(m, TRUE)
  <2>1. DOMAIN saves = 1..Len(saves) /\ Len(saves) \in Nat
    BY <1>2, LenProperties
  <2>2. saves' \in Seq(Puts \cup {Received}) /\ DOMAIN saves' = DOMAIN saves
    BY <1>2, <1>5, <2>1, ExceptSeq DEF Over
  <2>3. Received.on # "form"
    BY DEF Received
  <2>4. \A j \in DOMAIN saves : SameSave(saves[j], saves[j])
    BY DEF SameSave
  <2> QED BY <1>4, <1>5, <2>2, <2>3, <2>4 DEF Detaches
<1>6. CASE s.at = "saved" /\ s.on # "gone"
  <2> DEFINE p == [screen[m] EXCEPT !.rows[s.key] = s.row, !.edit = NoPick, !.conflict = NoRow]
  <2>1. /\ screen' = [screen EXCEPT ![m] = p]
        /\ saves' = [j \in DOMAIN saves |->
                       IF Mounted(m, Over(i)[j]) THEN [Over(i)[j] EXCEPT !.on = "page"] ELSE Over(i)[j]]
    BY <1>6 DEF putSetting, onSaved, Show
  <2>2. s.row \in SettingRows /\ s.key \in Keys /\ Genuine(s.key, s.row)
    BY <1>3, <1>6 DEF Puts, SaveKnows
  <2>3. /\ p \in Pages /\ p.conflict = NoRow /\ p.seen = screen[m].seen /\ p.review = screen[m].review
        /\ \A k \in Keys : p.rows[k] = IF k = s.key THEN s.row ELSE screen[m].rows[k]
    BY <1>3, <2>2, NothingSound, PageSound DEF PageSoundly, Pages
  <2> HIDE DEF p
  <2>4. PageSoundly(p)
    BY <1>3, <2>2, <2>3, NothingSound, PageSound DEF PageSoundly, ListSound
  <2>5. Detaches(m, p.edit = screen[m].edit)
    BY <1>3, <1>4, <2>1, OnSavedDetaches
  <2> QED BY <1>1, <1>3, <2>1, <2>4, <2>5, PageStep
<1>7. CASE s.at = "changed" /\ s.on = "form"
  <2> DEFINE p == [screen[m] EXCEPT !.conflict = s.row]
  <2>1. screen' = [screen EXCEPT ![m] = p] /\ saves' = Over(i)
    BY <1>7 DEF putSetting, Show
  <2>2. s.row \in SettingRows /\ s.key \in Keys /\ Genuine(s.key, s.row) /\ screen[m].edit = s.key
    BY <1>3, <1>7 DEF Puts, SaveKnows
  <2>3. /\ p \in Pages /\ p.rows = screen[m].rows /\ p.conflict = s.row /\ p.edit = screen[m].edit
        /\ p.seen = screen[m].seen /\ p.review = screen[m].review
    BY <1>3, <2>2, PageSound DEF PageSoundly, Pages
  <2> HIDE DEF p
  <2>4. PageSoundly(p)
    BY <1>3, <2>2, <2>3, PageSound DEF PageSoundly, ConflictSound
  <2>5. Detaches(m, p.edit = screen[m].edit)
    BY <1>5, <1>7, <2>1, <2>3
  <2> QED BY <1>1, <1>3, <2>1, <2>4, <2>5, PageStep
<1>8. CASE ~(s.at = "saved" /\ s.on # "gone") /\ ~(s.at = "changed" /\ s.on = "form")
  <2>1. saves' = Over(i) /\ screen' = screen
    BY <1>8 DEF putSetting
  <2>2. screen' = [screen EXCEPT ![m] = screen[m]]
    BY <2>1 DEF SettingsInv, SettingsTyped
  <2>3. Detaches(m, screen[m].edit = screen[m].edit)
    BY <1>5, <2>1
  <2> QED BY <1>1, <1>3, <2>2, <2>3, PageSound, PageStep
<1> QED BY <1>6, <1>7, <1>8

\* A save at its next step, the rest as it was.
LEMMA PutStep ==
    ASSUME SettingsInv, NEW i \in DOMAIN saves, NEW s \in Puts, saves' = [saves EXCEPT ![i] = s],
           SaveKnows(s), UNCHANGED <<setting, past, changed, gate, screen, instant>>, SettingsTyped', CacheFresh'
    PROVE  SettingsInv'
<1>1. HistoryChained' /\ NoBlindOverwrite'
  BY DEF SettingsInv, HistoryChained, Wrote, NoBlindOverwrite
<1>2. HistoryWhole' /\ SeenReaches'
  BY DEF SettingsInv, HistoryWhole, SeenReaches
<1>3. ScreensGenuine'
  BY DEF SettingsInv, ScreensGenuine, Genuine, ValueAt
<1>4. SavesKnow'
  <2>1. DOMAIN saves' = DOMAIN saves /\ \A j \in DOMAIN saves : saves'[j] = IF j = i THEN s ELSE saves[j]
    BY DEF SettingsInv, SettingsTyped
  <2> SUFFICES ASSUME NEW j \in DOMAIN saves PROVE SaveKnows(saves[j])'
    BY <2>1 DEF SavesKnow
  <2>2. SaveKnows(saves'[j])
    BY <2>1 DEF SettingsInv, SavesKnow
  <2> QED BY <2>2 DEF SaveKnows, Genuine, ValueAt
<1>5. GateFresh'
  BY DEF SettingsInv, GateFresh
<1> QED BY <1>1, <1>2, <1>3, <1>4, <1>5 DEF SettingsInv

\* A save at an index is a submitted one, unless it is over.
LEMMA SaveTyped ==
    ASSUME SettingsInv, NEW i \in DOMAIN saves, saves[i].at # "over"
    PROVE  saves[i] \in Puts /\ SaveKnows(saves[i])
<1>1. saves[i] \in Puts \cup {Received}
  BY ElementOfSeq, LenProperties DEF SettingsInv, SettingsTyped
<1> QED BY <1>1 DEF Received, SettingsInv, SavesKnow

LEMMA PutTyped ==
    ASSUME SettingsInv, NEW i \in DOMAIN saves, NEW s \in Puts, saves' = [saves EXCEPT ![i] = s]
    PROVE  saves' \in Seq(Puts \cup {Received})
BY DEF SettingsInv, SettingsTyped

LEMMA SubmitSettingOK ==
    ASSUME SettingsInv, NEW m \in Managers, NEW v \in Drafts, submit(m, v)
    PROVE  SettingsInv'
<1> DEFINE k == screen[m].edit
           row == screen[m].rows[k]
           s == [at |-> "sent", by |-> m, key |-> k, value |-> v, saw |-> row.value,
                 expected |-> row.version, host |-> NoPick, row |-> NoRow, on |-> "form"]
<1>1. saves' = Append(saves, s) /\ UNCHANGED <<setting, past, changed, cached, gate, screen, instant>>
  BY DEF submit
<1>2. k \in Keys
  BY DEF submit, canSave, validateSettingValue, lookupKey
<1>3. row \in SettingRows /\ Genuine(k, row)
  BY <1>2, PageSound DEF PageSoundly, Pages, ListSound
<1>4. s \in Puts
  BY <1>2, <1>3, NothingSound DEF Puts, Drafts, SwitchedOn, SwitchedOff, Junk, SettingValues, SettingRows
<1>5. SaveKnows(s)
  <2>1. row = [value |-> row.value, version |-> row.version]
    BY <1>3 DEF SettingRows
  <2> QED BY <1>3, <2>1 DEF SaveKnows
<1> HIDE DEF s
<1>6. saves \in Seq(Puts \cup {Received}) /\ Len(saves) \in Nat /\ DOMAIN saves = 1..Len(saves)
  BY LenProperties DEF SettingsInv, SettingsTyped
<1>7. /\ saves' \in Seq(Puts \cup {Received}) /\ DOMAIN saves' = 1..(Len(saves) + 1)
      /\ \A j \in DOMAIN saves' : saves'[j] = IF j = Len(saves) + 1 THEN s ELSE saves[j]
      /\ \A j \in DOMAIN saves' : j = Len(saves) + 1 \/ j \in DOMAIN saves
  BY <1>1, <1>4, <1>6
<1>8. SettingsTyped'
  BY <1>1, <1>7 DEF SettingsInv, SettingsTyped
<1>9. HistoryChained' /\ NoBlindOverwrite' /\ HistoryWhole' /\ SeenReaches'
  BY <1>1 DEF SettingsInv, HistoryChained, Wrote, NoBlindOverwrite, HistoryWhole, SeenReaches
<1>10. ScreensGenuine'
  BY <1>1 DEF SettingsInv, ScreensGenuine, Genuine, ValueAt
<1>11. SavesKnow'
  <2> SUFFICES ASSUME NEW j \in DOMAIN saves' PROVE SaveKnows(saves[j])'
    BY DEF SavesKnow
  <2>1. SaveKnows(saves'[j])
    BY <1>5, <1>7 DEF SettingsInv, SavesKnow
  <2> QED BY <1>1, <2>1 DEF SaveKnows, Genuine, ValueAt
<1> QED BY <1>1, <1>8, <1>9, <1>10, <1>11, GatesFrame DEF SettingsInv

LEMMA UpdateSettingOK ==
    ASSUME SettingsInv, NEW i \in DOMAIN saves, NEW h \in Hosts, updateSetting(i, h)
    PROVE  SettingsInv'
<1> DEFINE s == saves[i]
<1>1. s.at = "sent" /\ UNCHANGED <<setting, past, changed, cached, gate, screen, instant>>
  BY DEF updateSetting, putOnly
<1>2. s \in Puts /\ SaveKnows(s)
  BY <1>1, SaveTyped
<1>3. CacheFresh'
  BY <1>1 DEF SettingsInv, CacheFresh
<1>4. PICK t \in Puts : saves' = [saves EXCEPT ![i] = t] /\ SaveKnows(t)
  <2>1. CASE Failed(i)
    <3> DEFINE t == [s EXCEPT !.at = "failed"]
    <3>1. saves' = [saves EXCEPT ![i] = t]
      BY <2>1 DEF Failed, Put
    <3>2. t \in Puts /\ SaveKnows(t)
      BY <1>1, <1>2 DEF Puts, SaveKnows
    <3> QED BY <3>1, <3>2
  <2>2. CASE ~Failed(i)
    <3> DEFINE t == [s EXCEPT !.host = h, !.row = setting[s.key],
                       !.at = IF setting[s.key].version = s.expected THEN "checked" ELSE "conflict"]
    <3>1. saves' = [saves EXCEPT ![i] = t] /\ s.key \in Catalog
      BY <2>2 DEF updateSetting, Put, definitionFor
    <3>2. setting[s.key] \in SettingRows /\ Genuine(s.key, setting[s.key]) /\ setting[s.key] # NoRow
      BY <1>2, <3>1, RowsAsTheyAre DEF SettingsInv, SettingsTyped, Puts
    <3>3. /\ t \in Puts /\ t.key = s.key /\ t.saw = s.saw /\ t.expected = s.expected /\ t.row = setting[s.key]
          /\ t.on = s.on /\ t.by = s.by /\ t.at \in {"checked", "conflict"}
          /\ t.at = "checked" => setting[s.key].version = s.expected
      BY <1>2, <3>2 DEF Puts
    <3> HIDE DEF t
    <3>4. SaveKnows(t)
      BY <1>1, <1>2, <3>1, <3>2, <3>3 DEF SaveKnows
    <3> QED BY <3>1, <3>3, <3>4
  <2> QED BY <2>1, <2>2
<1>5. SettingsTyped'
  BY <1>1, <1>4, PutTyped DEF SettingsInv, SettingsTyped
<1> QED BY <1>1, <1>3, <1>4, <1>5, PutStep

LEMMA RefetchSettingOK ==
    ASSUME SettingsInv, NEW i \in DOMAIN saves, refetchSetting(i)
    PROVE  SettingsInv'
<1> DEFINE s == saves[i]
<1>1. s.at = "conflict" /\ UNCHANGED <<setting, past, changed, cached, gate, screen, instant>>
  BY DEF refetchSetting, putOnly
<1>2. s \in Puts /\ SaveKnows(s)
  BY <1>1, SaveTyped
<1>3. CacheFresh'
  BY <1>1 DEF SettingsInv, CacheFresh
<1>4. PICK t \in Puts : saves' = [saves EXCEPT ![i] = t] /\ SaveKnows(t)
  <2>1. CASE Failed(i)
    <3> DEFINE t == [s EXCEPT !.at = "failed"]
    <3>1. saves' = [saves EXCEPT ![i] = t]
      BY <2>1 DEF Failed, Put
    <3>2. t \in Puts /\ SaveKnows(t)
      BY <1>1, <1>2 DEF Puts, SaveKnows
    <3> QED BY <3>1, <3>2
  <2>2. CASE ~Failed(i)
    <3> DEFINE t == [s EXCEPT !.at = "changed", !.row = setting[s.key]]
    <3>1. saves' = [saves EXCEPT ![i] = t]
      BY <2>2 DEF refetchSetting, Put, listSettings
    <3>2. setting[s.key] \in SettingRows /\ Genuine(s.key, setting[s.key])
      BY <1>2, RowsAsTheyAre DEF SettingsInv, SettingsTyped, Puts
    <3>3. /\ t \in Puts /\ t.key = s.key /\ t.saw = s.saw /\ t.expected = s.expected /\ t.row = setting[s.key]
          /\ t.on = s.on /\ t.by = s.by /\ t.at = "changed"
      BY <1>2, <3>2 DEF Puts
    <3> HIDE DEF t
    <3>4. SaveKnows(t)
      BY <1>1, <1>2, <3>2, <3>3 DEF SaveKnows
    <3> QED BY <3>1, <3>3, <3>4
  <2> QED BY <2>1, <2>2
<1>5. SettingsTyped'
  BY <1>1, <1>4, PutTyped DEF SettingsInv, SettingsTyped
<1> QED BY <1>1, <1>3, <1>4, <1>5, PutStep

LEMMA AnswerSavedOK ==
    ASSUME SettingsInv, NEW i \in DOMAIN saves, answerSaved(i)
    PROVE  SettingsInv'
<1> DEFINE s == saves[i]
<1>1. s.at = "committed" /\ UNCHANGED <<setting, past, changed, gate, screen, instant>>
  BY DEF answerSaved, putOnly
<1>2. s \in Puts /\ SaveKnows(s)
  BY <1>1, SaveTyped
<1>3. CacheFresh' /\ cached' \in [Hosts -> [Keys -> [value: SettingValues, until: Nat]]]
  <2>1. CASE invalidate(s)
    <3>1. Uncached \in [value: SettingValues, until: Nat] /\ Uncached.until = 0
      BY DEF Uncached, SettingValues
    <3>2. cached' = [cached EXCEPT ![s.host][s.key] = Uncached]
      BY <2>1 DEF invalidate
    <3>3. \A h \in Hosts, k \in Keys : cached'[h][k] = cached[h][k] \/ cached'[h][k] = Uncached
      BY <3>2 DEF SettingsInv, SettingsTyped
    <3>4. \A k \in Keys : 0 <= changed[k] + SettingsTtl /\ 0 <= instant + SettingsTtl
      BY SettingsConstants DEF SettingsInv, SettingsTyped
    <3>5. cached' \in [Hosts -> [Keys -> [value: SettingValues, until: Nat]]]
      BY <3>1, <3>2 DEF SettingsInv, SettingsTyped
    <3> QED BY <1>1, <3>1, <3>3, <3>4, <3>5 DEF SettingsInv, CacheFresh
  <2>2. CASE cached' = cached
    BY <1>1, <2>2 DEF SettingsInv, SettingsTyped, CacheFresh
  <2> QED BY <2>1, <2>2 DEF answerSaved
<1>4. PICK t \in Puts : saves' = [saves EXCEPT ![i] = t] /\ SaveKnows(t)
  <2>1. CASE Failed(i)
    <3> DEFINE t == [s EXCEPT !.at = "failed"]
    <3>1. saves' = [saves EXCEPT ![i] = t]
      BY <2>1 DEF Failed, Put
    <3>2. t \in Puts /\ SaveKnows(t)
      BY <1>1, <1>2 DEF Puts, SaveKnows
    <3> QED BY <3>1, <3>2
  <2>2. CASE ~Failed(i)
    <3> DEFINE row == [value |-> s.value, version |-> s.expected + 1]
               t == [s EXCEPT !.at = "saved", !.row = row]
    <3>1. saves' = [saves EXCEPT ![i] = t]
      BY <2>2 DEF answerSaved, Put
    <3>2. row \in SettingRows /\ Genuine(s.key, row)
      BY <1>1, <1>2 DEF SaveKnows, SettingRows, Puts
    <3>3. /\ t \in Puts /\ t.key = s.key /\ t.saw = s.saw /\ t.expected = s.expected /\ t.row = row
          /\ t.on = s.on /\ t.by = s.by /\ t.at = "saved"
      BY <1>2, <3>2 DEF Puts
    <3> HIDE DEF t
    <3>4. SaveKnows(t)
      BY <1>1, <1>2, <3>2, <3>3 DEF SaveKnows
    <3> QED BY <3>1, <3>3, <3>4
  <2> QED BY <2>1, <2>2
<1>5. SettingsTyped'
  BY <1>1, <1>3, <1>4, PutTyped DEF SettingsInv, SettingsTyped
<1> QED BY <1>1, <1>3, <1>4, <1>5, PutStep

\* The commit itself: the guard makes the value the row has the one the form
\* showed, whatever was committed since.
LEMMA GuardedCommitOK ==
    ASSUME SettingsInv, NEW i \in DOMAIN saves, commitSetting(i), Guarded(saves[i]), ~Failed(i)
    PROVE  SettingsInv'
<1>1. PICK s \in Puts : s = saves[i] /\ s.at = "checked" /\ SaveKnows(s)
  BY SaveTyped DEF commitSetting
<1> DEFINE k == s.key
           entry == [old |-> s.row.value, new |-> s.value, version |-> s.expected + 1, saw |-> s.saw]
           row == [value |-> s.value, version |-> s.expected + 1]
           t == [s EXCEPT !.at = "committed"]
<1>2. /\ UNCHANGED <<cached, gate, screen, instant>>
      /\ setting' = [setting EXCEPT ![k] = row]
      /\ past' = [past EXCEPT ![k] = Append(past[k], entry)]
      /\ changed' = [changed EXCEPT ![k] = instant]
      /\ saves' = [saves EXCEPT ![i] = t]
  BY <1>1 DEF commitSetting, putOnly, Put
<1>3. /\ k \in Keys /\ k \in Catalog /\ s.value \in SettingValues /\ s.saw \in SettingValues /\ s.expected \in Nat
      /\ s.row \in SettingRows /\ s.row # NoRow /\ s.row.version = s.expected /\ Genuine(k, s.row)
      /\ Genuine(k, [value |-> s.saw, version |-> s.expected])
  BY <1>1 DEF Puts, SaveKnows
<1>4. PICK L \in Nat : /\ L = Len(past[k]) /\ past[k] \in Seq(PastEntries) /\ DOMAIN past[k] = 1..L
                       /\ setting[k].version = L + 1 /\ s.expected = L + 1
  <2>1. past[k] \in Seq(PastEntries)
    BY <1>3 DEF SettingsInv, SettingsTyped
  <2>2. Len(past[k]) \in Nat /\ DOMAIN past[k] = 1..Len(past[k])
    BY <2>1, LenProperties
  <2>3. setting[k].version = Len(past[k]) + 1 /\ s.expected = Len(past[k]) + 1
    BY <1>1, <1>3, RowsAsTheyAre DEF Guarded
  <2> QED BY <2>1, <2>2, <2>3
<1>5. s.row.value = ValueAt(k, L + 1) /\ s.saw = ValueAt(k, L + 1)
  <2>1. [value |-> s.saw, version |-> s.expected] # NoRow
    BY <1>3, <1>4 DEF NoRow
  <2> QED BY <1>3, <1>4, <2>1 DEF Genuine
<1>6. entry \in PastEntries /\ row \in SettingRows
  BY <1>3 DEF PastEntries, SettingRows
<1>7. /\ setting' \in [Keys -> SettingRows] /\ setting'[k] = row
      /\ \A j \in Keys : j # k => setting'[j] = setting[j]
  BY <1>2, <1>3, <1>6 DEF SettingsInv, SettingsTyped
<1>8. /\ past' \in [Keys -> Seq(PastEntries)] /\ \A j \in Keys : j # k => past'[j] = past[j]
      /\ Len(past'[k]) = L + 1 /\ DOMAIN past'[k] = 1..(L + 1) /\ past'[k][L + 1] = entry
      /\ \A n \in 1..L : past'[k][n] = past[k][n]
  <2>1. Append(past[k], entry) \in Seq(PastEntries)
    BY <1>4, <1>6
  <2>2. past' \in [Keys -> Seq(PastEntries)] /\ past'[k] = Append(past[k], entry)
    BY <1>2, <1>3, <2>1 DEF SettingsInv, SettingsTyped
  <2>3. \A j \in Keys : j # k => past'[j] = past[j]
    BY <1>2 DEF SettingsInv, SettingsTyped
  <2> HIDE DEF entry
  <2>4. /\ Len(past'[k]) = L + 1 /\ past'[k][L + 1] = entry
        /\ \A n \in 1..L : past'[k][n] = past[k][n]
    BY <1>4, <1>6, <2>2, AppendProperties
  <2> QED BY <1>4, <2>2, <2>3, <2>4, LenProperties
<1>9. changed' \in [Keys -> Nat] /\ changed'[k] = instant /\ \A j \in Keys : j # k => changed'[j] = changed[j]
  BY <1>2, <1>3 DEF SettingsInv, SettingsTyped
<1>10. /\ t \in Puts /\ t.at = "committed" /\ t.key = k /\ t.saw = s.saw /\ t.expected = s.expected
       /\ t.value = s.value /\ t.on = s.on /\ t.by = s.by
  BY <1>1 DEF Puts
<1> HIDE DEF t
<1>11. SettingsTyped'
  <2>1. saves' \in Seq(Puts \cup {Received})
    BY <1>2, <1>10, PutTyped
  <2> QED BY <1>2, <1>7, <1>8, <1>9, <2>1 DEF SettingsInv, SettingsTyped
<1> HIDE DEF entry, row
<1>12. \A v \in 1..(L + 1) : ValueAt(k, v)' = ValueAt(k, v)
  <2> SUFFICES ASSUME NEW v \in 1..(L + 1), v # 1 PROVE past'[k][v - 1] = past[k][v - 1]
    BY DEF ValueAt
  <2>1. v - 1 \in 1..L
    BY <1>4
  <2> QED BY <1>8, <2>1
<1>13. ASSUME NEW j \in Keys, NEW r, Genuine(j, r) PROVE Genuine(j, r)'
  <2>1. CASE j # k
    BY <1>7, <1>8, <1>13, <2>1 DEF Genuine, ValueAt
  <2>2. CASE j = k /\ r # NoRow
    <3>1. r.version \in 1..(L + 1) /\ r.value = ValueAt(k, r.version)
      BY <1>3, <1>13, <2>2, <1>4 DEF Genuine
    <3>2. r.version \in 1..((L + 1) + 1) /\ r.value = ValueAt(k, r.version)'
      BY <1>4, <1>12, <3>1
    <3> QED BY <1>3, <1>8, <2>2, <3>2 DEF Genuine
  <2>3. CASE r = NoRow
    BY <2>3 DEF Genuine
  <2> QED BY <2>1, <2>2, <2>3
<1>14. Genuine(k, [value |-> s.value, version |-> s.expected + 1])'
  <2>1. (L + 1) + 1 \in 1..((L + 1) + 1) /\ (L + 1) + 1 # 1 /\ ((L + 1) + 1) - 1 = L + 1
    BY <1>4
  <2>2. ValueAt(k, (L + 1) + 1)' = s.value
    BY <1>8, <2>1 DEF ValueAt, entry
  <2>3. s.expected + 1 = (L + 1) + 1
    BY <1>4
  <2> QED BY <1>3, <1>8, <2>1, <2>2, <2>3 DEF Genuine
<1>15. HistoryChained'
  <2>1. ASSUME NEW j \in Keys, j # k
        PROVE  setting'[j] = setting[j] /\ past'[j] = past[j]
    BY <1>7, <1>8, <2>1
  <2>2. /\ \A n \in 1..L : past[k][n].version = n + 1
        /\ \A n \in 1..L : past[k][n].old = IF n - 1 = 0 THEN SwitchedOff ELSE past[k][n - 1].new
    BY <1>3, <1>4 DEF SettingsInv, HistoryChained, Wrote
  <2>3. ASSUME NEW n \in 1..(L + 1)
        PROVE  /\ past'[k][n].version = n + 1
               /\ past'[k][n].old = IF n - 1 = 0 THEN SwitchedOff ELSE past'[k][n - 1].new
    <3>1. CASE n = L + 1
      <4>1. past'[k][n].version = n + 1 /\ past'[k][n].old = ValueAt(k, n)
        BY <1>4, <1>5, <1>8, <3>1 DEF entry
      <4>2. n # 1 => n - 1 \in 1..L /\ n - 1 # 0
        BY <1>4
      <4> QED BY <1>8, <4>1, <4>2 DEF ValueAt
    <3>2. CASE n # L + 1
      <4>1. n \in 1..L /\ (n - 1 # 0 => n - 1 \in 1..L)
        BY <1>4, <3>2
      <4> QED BY <1>8, <2>2, <4>1
    <3> QED BY <3>1, <3>2
  <2>4. setting'[k] = [value |-> past'[k][L + 1].new, version |-> (L + 1) + 1]
    BY <1>4, <1>7, <1>8 DEF row, entry
  <2>5. L + 1 # 0 /\ Len(past'[k]) = L + 1 /\ DOMAIN past'[k] = 1..(L + 1)
    BY <1>4, <1>8
  <2> SUFFICES ASSUME NEW j \in Keys
               PROVE  /\ past'[j] # <<>> => j \in Catalog
                      /\ \A n \in DOMAIN past'[j] : past'[j][n].old = Wrote(j, n - 1)' /\ past'[j][n].version = n + 1
                      /\ j \in Catalog => setting'[j] = [value |-> Wrote(j, Len(past[j]))', version |-> Len(past'[j]) + 1]
    BY DEF HistoryChained
  <2>6. CASE j = k
    BY <1>3, <2>3, <2>4, <2>5, <2>6 DEF Wrote
  <2>7. CASE j # k
    BY <2>1, <2>7 DEF SettingsInv, HistoryChained, Wrote
  <2> QED BY <2>6, <2>7
<1>16. NoBlindOverwrite'
  <2>1. entry.saw = entry.old
    BY <1>5 DEF entry
  <2>2. ASSUME NEW n \in 1..(L + 1) PROVE past'[k][n].saw = past'[k][n].old
    <3>1. n \in 1..L \/ n = L + 1
      BY <1>4
    <3> QED BY <1>3, <1>4, <1>8, <2>1, <3>1 DEF SettingsInv, NoBlindOverwrite
  <2>3. DOMAIN past'[k] = 1..(L + 1)
    BY <1>4, <1>8
  <2>4. ASSUME NEW j \in Keys, j # k, NEW n \in DOMAIN past'[j] PROVE past'[j][n].saw = past'[j][n].old
    <3>1. past'[j] = past[j]
      BY <1>8, <2>4
    <3> QED BY <2>4, <3>1 DEF SettingsInv, NoBlindOverwrite
  <2> QED BY <2>2, <2>3, <2>4 DEF NoBlindOverwrite
<1>17. HistoryWhole'
  BY <1>2 DEF SettingsInv, HistoryWhole
<1>18. SeenReaches'
  <2> SUFFICES ASSUME NEW m \in Managers, screen[m].seen # <<>>
               PROVE  /\ screen[m].review \in Keys
                      /\ screen[m].seen[Len(screen[m].seen)].version + Len(screen[m].seen) <= Len(past'[screen[m].review]) + 2
    BY <1>2 DEF SeenReaches
  <2> DEFINE p == screen[m]
  <2>1. p.review \in Keys /\ p.seen[Len(p.seen)].version + Len(p.seen) <= Len(past[p.review]) + 2
    BY DEF SettingsInv, SeenReaches
  <2>2. p.seen \in Seq(PastEntries)
    BY DEF SettingsInv, SettingsTyped, Pages
  <2>3. Len(p.seen) \in 1..Len(p.seen)
    BY <2>2, EmptySeq
  <2>4. p.seen[Len(p.seen)].version \in Nat /\ Len(p.seen) \in Nat
    <3>1. p.seen[Len(p.seen)] \in PastEntries
      BY <2>2, <2>3, ElementOfSeq
    <3> QED BY <2>2, <3>1, LenProperties DEF PastEntries
  <2>5. Len(past[p.review]) \in Nat
    BY <2>1, LenProperties DEF SettingsInv, SettingsTyped
  <2>6. Len(past'[p.review]) = Len(past[p.review]) \/ Len(past'[p.review]) = Len(past[p.review]) + 1
    BY <1>4, <1>8, <2>1
  <2> HIDE DEF p
  <2>7. p.seen[Len(p.seen)].version + Len(p.seen) <= Len(past'[p.review]) + 2
    <3> DEFINE last == p.seen[Len(p.seen)].version
               shown == Len(p.seen)
               before == Len(past[p.review])
               after == Len(past'[p.review])
    <3>1. last \in Nat /\ shown \in Nat /\ before \in Nat /\ last + shown <= before + 2
      BY <2>1, <2>4, <2>5
    <3>2. after = before \/ after = before + 1
      BY <2>6
    <3> HIDE DEF last, shown, before, after
    <3>3. last + shown <= after + 2
      BY <3>1, <3>2
    <3> QED BY <3>3 DEF last, shown, after
  <2> QED BY <2>1, <2>7 DEF p
<1>19. ScreensGenuine'
  <2>1. \A m \in Managers : /\ \A j \in Keys : Genuine(j, screen[m].rows[j])'
                            /\ screen[m].conflict # NoRow => /\ screen[m].edit \in Keys
                                                             /\ Genuine(screen[m].edit, screen[m].conflict)'
    <3>1. \A r : \A j \in Keys : Genuine(j, r) /\ UNCHANGED screen => Genuine(j, r)'
      BY <1>13
    <3> QED BY <1>2, <3>1 DEF SettingsInv, ScreensGenuine
  <2> QED BY <1>2, <2>1 DEF ScreensGenuine
<1>20. SavesKnow'
  <2>1. DOMAIN saves' = DOMAIN saves /\ \A j \in DOMAIN saves : saves'[j] = IF j = i THEN t ELSE saves[j]
    BY <1>2 DEF SettingsInv, SettingsTyped
  <2> SUFFICES ASSUME NEW j \in DOMAIN saves, saves'[j].at # "over" PROVE SaveKnows(saves[j])'
    BY <2>1 DEF SavesKnow, SaveKnows
  <2>2. CASE j = i
    <3>1. Genuine(k, [value |-> s.saw, version |-> s.expected])'
      BY <1>3, <1>13
    <3>2. saves'[j] = t
      BY <2>1, <2>2
    <3>3. s.on = "form" => screen[s.by].edit = k
      BY <1>2, <1>1 DEF SaveKnows
    <3> QED BY <1>2, <1>3, <1>10, <1>14, <3>1, <3>2, <3>3 DEF SaveKnows, Genuine
  <2>3. CASE j # i
    <3> DEFINE u == saves[j]
    <3>1. saves'[j] = u /\ u.at # "over"
      BY <2>1, <2>3
    <3>2. u \in Puts /\ SaveKnows(u) /\ u.key \in Keys
      BY <3>1, SaveTyped DEF Puts
    <3>3. Genuine(u.key, [value |-> u.saw, version |-> u.expected])'
      BY <1>13, <3>1, <3>2 DEF SaveKnows
    <3>4. u.at \in {"checked", "saved", "changed"} => Genuine(u.key, u.row)'
      BY <1>13, <3>1, <3>2 DEF SaveKnows
    <3>5. u.at = "committed" => Genuine(u.key, [value |-> u.value, version |-> u.expected + 1])'
      BY <1>13, <3>1, <3>2 DEF SaveKnows
    <3> QED BY <1>2, <3>1, <3>2, <3>3, <3>4, <3>5 DEF SaveKnows
  <2> QED BY <2>2, <2>3
<1>21. CacheFresh'
  <2>1. \A h \in Hosts, j \in Keys : cached[h][j].until <= instant + SettingsTtl
    BY DEF SettingsInv, CacheFresh
  <2>2. instant <= instant
    BY DEF SettingsInv, SettingsTyped
  <2>3. \A j \in Keys : IF j = k THEN changed'[j] = instant
                        ELSE changed'[j] = changed[j] /\ setting'[j] = setting[j]
    BY <1>7, <1>9
  <2> QED BY <1>2, <2>1, <2>2, <2>3 DEF SettingsInv, CacheFresh
<1>22. GateFresh'
  <2>1. gate.open => gate.since <= instant /\ gate.since < instant + SettingsTtl
    <3>1. gate.open => gate.since <= instant
      BY DEF SettingsInv, GateFresh
    <3> QED BY <3>1, SettingsConstants DEF SettingsInv, SettingsTyped, Gates
  <2>2. \A j \in Keys : IF j = k THEN changed'[j] = instant
                        ELSE changed'[j] = changed[j] /\ setting'[j] = setting[j]
    BY <1>7, <1>9
  <2> QED BY <1>2, <2>1, <2>2 DEF SettingsInv, GateFresh
<1> QED BY <1>11, <1>15, <1>16, <1>17, <1>18, <1>19, <1>20, <1>21, <1>22 DEF SettingsInv

LEMMA CommitSettingOK ==
    ASSUME SettingsInv, NEW i \in DOMAIN saves, commitSetting(i)
    PROVE  SettingsInv'
<1> DEFINE s == saves[i]
<1>1. CASE Guarded(s) /\ ~Failed(i)
  BY <1>1, GuardedCommitOK
<1>2. CASE ~Guarded(s) \/ Failed(i)
  <2>1. s.at = "checked"
    BY DEF commitSetting
  <2>2. s \in Puts /\ SaveKnows(s)
    BY <2>1, SaveTyped
  <2>3. PICK t \in Puts : saves' = [saves EXCEPT ![i] = t] /\ SaveKnows(t) /\ t.at # "committed"
    <3> DEFINE failed == [s EXCEPT !.at = "failed"]
               lost == [s EXCEPT !.at = "conflict"]
    <3>1. saves' = [saves EXCEPT ![i] = failed] \/ saves' = [saves EXCEPT ![i] = lost]
      BY <1>2 DEF commitSetting, Failed, Put
    <3>2. failed \in Puts /\ SaveKnows(failed) /\ lost \in Puts /\ SaveKnows(lost)
      BY <2>1, <2>2 DEF Puts, SaveKnows
    <3>3. failed.at # "committed" /\ lost.at # "committed"
      BY <2>2 DEF Puts
    <3> QED BY <3>1, <3>2, <3>3
  <2>4. UNCHANGED <<setting, past, changed, cached, gate, screen, instant>>
    <3>1. saves'[i] = t
      BY <2>3 DEF SettingsInv, SettingsTyped
    <3>2. ~Put(i, [s EXCEPT !.at = "committed"])
      BY <2>2, <2>3, <3>1 DEF Put, Puts, SettingsInv, SettingsTyped
    <3> QED BY <3>2 DEF commitSetting, putOnly
  <2>5. SettingsTyped' /\ CacheFresh'
    BY <2>3, <2>4, PutTyped DEF SettingsInv, SettingsTyped, CacheFresh
  <2> QED BY <2>3, <2>4, <2>5, PutStep
<1> QED BY <1>1, <1>2

LEMMA SettingsStartOK == SettingsInit => SettingsInv
<1> SUFFICES ASSUME SettingsInit PROVE SettingsInv
  OBVIOUS
<1>1. /\ past = [k \in Keys |-> <<>>] /\ changed = [k \in Keys |-> 0] /\ instant = 0 /\ saves = <<>>
      /\ cached = [h \in Hosts |-> [k \in Keys |-> Uncached]] /\ gate = NoGate
      /\ screen = [m \in Managers |-> BlankPage]
      /\ \A k \in Keys : setting[k] \in Seeds(k) /\ setting \in [Keys -> UNION {Seeds(j) : j \in Keys}]
  BY DEF SettingsInit
<1>2. \A k \in Keys : Seeds(k) \subseteq SettingRows /\ (k \in Catalog => Seeds(k) = {[value |-> SwitchedOff, version |-> 1]})
  BY DEF Seeds, FirstRow, NoRow, SettingRows, SettingValues, SwitchedOff, NoPick
<1>3. setting \in [Keys -> SettingRows]
  BY <1>2 DEF SettingsInit
<1>4. /\ BlankPage \in Pages /\ BlankPage.conflict = NoRow /\ BlankPage.seen = <<>>
      /\ \A k \in Keys : BlankPage.rows[k] = NoRow
  BY NothingSound DEF BlankPage, Pages, Unread, NoPick
<1>5. NoGate \in Gates /\ ~NoGate.open
  BY DEF NoGate, Gates, Ended, IntakeReads, SettingValues, NoPick
<1>6. Uncached \in [value: SettingValues, until: Nat] /\ Uncached.until = 0
  BY DEF Uncached, SettingValues
<1>7. <<>> \in Seq(PastEntries) /\ <<>> \in Seq(Puts \cup {Received}) /\ Len(<<>>) = 0
  OBVIOUS
<1>8. past \in [Keys -> Seq(PastEntries)] /\ \A k \in Keys : past[k] = <<>>
  BY <1>1, <1>7
<1>9. SettingsTyped
  <2>1. cached \in [Hosts -> [Keys -> [value: SettingValues, until: Nat]]]
    BY <1>1, <1>6
  <2>2. screen \in [Managers -> Pages] /\ changed \in [Keys -> Nat]
    BY <1>1, <1>4
  <2> QED BY <1>1, <1>3, <1>5, <1>7, <1>8, <2>1, <2>2 DEF SettingsTyped
<1>10. HistoryChained /\ NoBlindOverwrite
  <2>1. DOMAIN <<>> = {}
    OBVIOUS
  <2> QED BY <1>1, <1>2, <1>7, <1>8, <2>1 DEF HistoryChained, Wrote, NoBlindOverwrite
<1> HIDE DEF BlankPage
<1>11. HistoryWhole /\ SeenReaches /\ ScreensGenuine
  <2>1. \A i \in 1..(0 - 1) : FALSE
    OBVIOUS
  <2> QED BY <1>1, <1>4, <1>7, <2>1 DEF HistoryWhole, SeenReaches, ScreensGenuine, Genuine
<1>12. SavesKnow
  BY <1>1 DEF SavesKnow
<1>13. CacheFresh
  <2>1. SettingsTtl \in Nat
    BY SettingsConstants
  <2> QED BY <1>1, <1>6, <2>1 DEF CacheFresh
<1>14. GateFresh
  BY <1>1, <1>5 DEF GateFresh
<1> QED BY <1>9, <1>10, <1>11, <1>12, <1>13, <1>14 DEF SettingsInv

LEMMA SettingsStepOK == SettingsInv /\ [SettingsNext]_settingsVars => SettingsInv'
<1> SUFFICES ASSUME SettingsInv, [SettingsNext]_settingsVars PROVE SettingsInv'
  OBVIOUS
<1>1. CASE UNCHANGED settingsVars
  <2>1. UNCHANGED <<setting, past, changed, cached, gate, screen, saves, instant>>
    BY <1>1 DEF settingsVars
  <2>2. SettingsTyped'
    BY <2>1 DEF SettingsInv, SettingsTyped
  <2> QED BY <2>1, <2>2, PagesFrame, GatesFrame DEF SettingsInv
<1>2. CASE \E h \in Hosts : beginIntake(h)
  BY <1>2, BeginIntakeOK
<1>3. CASE \E k \in Keys : findSetting(k) \/ keepSetting(k)
  BY <1>3, FindSettingOK, KeepSettingOK
<1>4. CASE answerIntake
  BY <1>4, AnswerIntakeOK
<1>5. CASE \E m \in Managers : SystemSettingsPage(m) \/ SettingsSection(m)
  BY <1>5, SystemSettingsPageOK, SettingsSectionOK
<1>6. CASE \E m \in Managers : \E k \in Keys : onEdit(m, k) \/ onToggleHistory(m, k)
  BY <1>6, OnEditOK, OnToggleHistoryOK
<1>7. CASE \E m \in Managers : onCloseEdit(m) \/ reloadCurrent(m) \/ keepDraft(m) \/ HistoryView(m)
  BY <1>7, OnCloseEditOK, ReloadCurrentOK, KeepDraftOK, HistoryViewOK
<1>8. CASE \E m \in Managers : \E v \in Drafts : submit(m, v)
  BY <1>8, SubmitSettingOK
<1>9. CASE \E i \in DOMAIN saves : \E h \in Hosts : updateSetting(i, h)
  BY <1>9, UpdateSettingOK
<1>10. CASE \E i \in DOMAIN saves : commitSetting(i) \/ answerSaved(i) \/ refetchSetting(i) \/ putSetting(i)
  BY <1>10, CommitSettingOK, AnswerSavedOK, RefetchSettingOK, PutSettingOK
<1>11. CASE passInstant
  BY <1>11, PassInstantOK
<1> QED BY <1>1, <1>2, <1>3, <1>4, <1>5, <1>6, <1>7, <1>8, <1>9, <1>10, <1>11 DEF SettingsNext

LEMMA SwitchesLand == SettingsInv => SwitchLands
<1> SUFFICES ASSUME SettingsInv, Answerable, IntakeBanner(effectiveIntake(gate.read)) = "open",
                    NEW k \in Keys, setting[k].value = SwitchedOn
             PROVE  gate.since < changed[k] + SettingsTtl
  BY DEF SwitchLands
<1>1. gate.open /\ gate.read[k].at = "ended"
  BY DEF Answerable
<1>2. ~effectiveIntake(gate.read).degraded /\ effectiveIntake(gate.read).allowed
  BY DEF IntakeBanner
<1>3. ~gate.read[k].wrong /\ gate.read[k].value # SwitchedOn
  BY <1>2 DEF effectiveIntake
<1> QED BY <1>1, <1>3 DEF SettingsInv, GateFresh

\* Settings: whatever the processes' caches, the forms, their conflicts and the
\* lost answers do, for any keys, processes, admins and page sizes.
THEOREM SettingsInvariance == SettingsSpec => []SettingsInv
BY SettingsStartOK, SettingsStepOK, PTL DEF SettingsSpec

\* The history is a chain, no save overwrites what its form did not show, a
\* switch lands within a cache's lifetime, and no page of a history skips one.
THEOREM SettingsAlwaysKept == SettingsSpec => []SettingsKept
<1>1. SettingsInv => SettingsKept
  BY SwitchesLand DEF SettingsInv, SettingsKept
<1> QED BY <1>1, SettingsInvariance, PTL

---------------------------------------------------------------------------
\* Handles: the inductive invariant

ClaimStates ==
    [at: {"frozen", "receipt", "take", "write", "answered"}, who: Squatters, handle: Handles,
     key: ClaimKeys \cup {NoKey}, since: SUBSET Nat, blind: BOOLEAN,
     answer: {"none", "under review", "created", "claimed", "key reused", "taken", "failed"}]
TakedownReports ==
    [handle: Handles, state: {"received", "appealable", "triaging", "closed"},
     decision: {"none", "keep", "release", "transfer"}, appeals: Nat, late: BOOLEAN]

HandlesTyped ==
    /\ asking \in [ClaimCalls -> ClaimStates \cup {NoCall}]
    /\ reports \in Seq(TakedownReports)
    /\ \A o \in Rulings : ruling[o] # NoRuling =>
          ruling[o].report \in DOMAIN reports /\ ruling[o].decision \in {"none", "keep", "release", "transfer"}

\* A receipt is for a claim that took its handle, and so is a claim that is to
\* have one.
ReceiptsWon ==
    /\ \A k \in DOMAIN receipts : [key |-> k, handle |-> receipts[k].handle] \in won
    /\ \A c \in ClaimCalls : asking[c].at = "write" => [key |-> asking[c].key, handle |-> asking[c].handle] \in won

\* What has been open ever since a call began is open; past the freeze a
\* contract claim that saw the reports has none of those left.
StillOpen(a) ==
    \A i \in a.since : i \in DOMAIN reports /\ reports[i].handle = a.handle /\ reports[i].state # "closed"
PastFreeze(a) ==
    /\ a.at \in {"receipt", "take", "write"} /\ a.key # NoKey /\ ~a.blind => a.since = {}
    /\ a.at = "write" => a.key # NoKey
FreezesHold == \A c \in ClaimCalls : StillOpen(asking[c]) /\ PastFreeze(asking[c])

HandlesInv == HandlesTyped /\ ReceiptsWon /\ ClaimsTruthful /\ FreezesHold

\* What a call may become: the claims of the others, the reports and the rulings stay.
LEMMA AskStep ==
    ASSUME HandlesInv, NEW c \in ClaimCalls, NEW a \in ClaimStates, asking' = [asking EXCEPT ![c] = a],
           UNCHANGED <<reports, ruling>>, won \subseteq won',
           \A k \in DOMAIN receipts' : [key |-> k, handle |-> receipts'[k].handle] \in won',
           a.at = "write" => [key |-> a.key, handle |-> a.handle] \in won',
           a.at = "answered" /\ a.answer = "created" => [key |-> a.key, handle |-> a.handle] \in won',
           StillOpen(a), PastFreeze(a)
    PROVE  HandlesInv'
<1>1. /\ \A d \in ClaimCalls : asking'[d] = IF d = c THEN a ELSE asking[d]
      /\ asking' \in [ClaimCalls -> ClaimStates \cup {NoCall}]
  BY DEF HandlesInv, HandlesTyped
<1>2. HandlesTyped'
  BY <1>1 DEF HandlesInv, HandlesTyped
<1>3. ReceiptsWon'
  BY <1>1 DEF HandlesInv, ReceiptsWon
<1>4. ClaimsTruthful'
  BY <1>1 DEF HandlesInv, ClaimsTruthful
<1>5. FreezesHold'
  <2> SUFFICES ASSUME NEW d \in ClaimCalls
               PROVE  /\ \A i \in asking'[d].since :
                            i \in DOMAIN reports' /\ reports'[i].handle = asking'[d].handle /\ reports'[i].state # "closed"
                      /\ PastFreeze(asking'[d])
    BY DEF FreezesHold, PastFreeze, StillOpen
  <2>1. CASE d = c
    BY <1>1, <2>1 DEF StillOpen, PastFreeze
  <2>2. CASE d # c
    BY <1>1, <2>2 DEF HandlesInv, FreezesHold, StillOpen, PastFreeze
  <2> QED BY <2>1, <2>2
<1> QED BY <1>2, <1>3, <1>4, <1>5 DEF HandlesInv

\* A report may be filed or rewritten; one that is open stays open.
LEMMA ReportStep ==
    ASSUME HandlesInv, UNCHANGED <<won, asking>>, HandlesTyped',
           \A k \in DOMAIN receipts' : k \in DOMAIN receipts /\ receipts'[k] = receipts[k],
           \A i \in DOMAIN reports : /\ i \in DOMAIN reports' /\ reports'[i].handle = reports[i].handle
                                     /\ reports[i].state # "closed" => reports'[i].state # "closed"
    PROVE  HandlesInv'
<1>1. ReceiptsWon' /\ ClaimsTruthful'
  BY DEF HandlesInv, ReceiptsWon, ClaimsTruthful
<1>2. FreezesHold'
  BY DEF HandlesInv, FreezesHold, StillOpen, PastFreeze
<1> QED BY <1>1, <1>2 DEF HandlesInv

\* A call that is under way.
LEMMA CallTyped ==
    ASSUME HandlesInv, NEW c \in ClaimCalls, asking[c].at # "idle"
    PROVE  asking[c] \in ClaimStates /\ StillOpen(asking[c]) /\ PastFreeze(asking[c])
<1>1. asking[c] # NoCall
  BY DEF NoCall
<1> QED BY <1>1 DEF HandlesInv, HandlesTyped, FreezesHold

\* The reports that are open now.
LEMMA NowOpen ==
    ASSUME HandlesInv, NEW h \in Handles
    PROVE  /\ UnderReview(h) \in SUBSET Nat
           /\ \A i \in UnderReview(h) : i \in DOMAIN reports /\ reports[i].handle = h /\ reports[i].state # "closed"
<1>1. DOMAIN reports = 1..Len(reports) /\ Len(reports) \in Nat
  BY LenProperties DEF HandlesInv, HandlesTyped
<1> QED BY <1>1 DEF UnderReview

LEMMA CallBegins ==
    ASSUME HandlesInv, NEW p \in Squatters, NEW h \in Handles, NEW k \in ClaimKeys \cup {NoKey},
           NEW at \in {"frozen", "take"}, at = "frozen" \/ k = NoKey
    PROVE  LET a == ClaimCall(at, p, h, k)
           IN  a \in ClaimStates /\ a.at = at /\ StillOpen(a) /\ PastFreeze(a)
<1>1. PICK u : u = UnderReview(h)
  OBVIOUS
<1> DEFINE a == [at |-> at, who |-> p, handle |-> h, key |-> k, answer |-> "none", since |-> u, blind |-> FALSE]
<1>2. ClaimCall(at, p, h, k) = a
  BY <1>1 DEF ClaimCall
<1>3. u \in SUBSET Nat
  BY <1>1, NowOpen
<1>4. a \in ClaimStates /\ a.at = at /\ a.since = u /\ a.handle = h /\ a.key = k
  BY <1>3 DEF ClaimStates
<1> HIDE DEF a
<1>5. StillOpen(a)
  BY <1>1, <1>4, NowOpen DEF StillOpen
<1>6. PastFreeze(a)
  BY <1>4 DEF PastFreeze
<1> QED BY <1>2, <1>4, <1>5, <1>6

LEMMA CallBeginsOK ==
    ASSUME HandlesInv, NEW c \in ClaimCalls, NEW p \in Squatters, NEW h \in Handles, NEW k \in ClaimKeys \cup {NoKey},
           NEW at \in {"frozen", "take"}, at = "frozen" \/ k = NoKey,
           asking' = [asking EXCEPT ![c] = ClaimCall(at, p, h, k)], UNCHANGED <<reports, ruling, receipts, won>>
    PROVE  HandlesInv'
<1>1. PICK a : a = ClaimCall(at, p, h, k)
  OBVIOUS
<1>2. a \in ClaimStates /\ a.at = at /\ StillOpen(a) /\ PastFreeze(a)
  BY <1>1, CallBegins
<1>3. \A j \in DOMAIN receipts' : [key |-> j, handle |-> receipts'[j].handle] \in won'
  BY DEF HandlesInv, ReceiptsWon
<1>4. asking' = [asking EXCEPT ![c] = a]
  BY <1>1
<1> QED BY <1>2, <1>3, <1>4, AskStep

LEMMA ClaimContractOK ==
    ASSUME HandlesInv, NEW c \in ClaimCalls, NEW p \in Squatters, NEW h \in Handles, NEW k \in ClaimKeys,
           claimContract(c, p, h, k)
    PROVE  HandlesInv'
BY CallBeginsOK DEF claimContract, Ask, claimOnly

LEMMA AuthClaimOK ==
    ASSUME HandlesInv, NEW c \in ClaimCalls, NEW p \in Squatters, NEW h \in Handles, authClaim(c, p, h)
    PROVE  HandlesInv'
BY CallBeginsOK DEF authClaim, Ask, claimOnly

LEMMA IsFrozenOK ==
    ASSUME HandlesInv, NEW c \in ClaimCalls, isFrozen(c)
    PROVE  HandlesInv'
<1>1. asking[c] \in ClaimStates /\ StillOpen(asking[c])
  BY CallTyped DEF isFrozen
<1>2. UNCHANGED <<reports, ruling, receipts, won>>
  BY DEF isFrozen, claimOnly
<1>3. \A j \in DOMAIN receipts' : [key |-> j, handle |-> receipts'[j].handle] \in won'
  BY <1>2 DEF HandlesInv, ReceiptsWon
<1> DEFINE refused == [asking[c] EXCEPT !.at = "answered", !.answer = "under review"]
           clear == [asking[c] EXCEPT !.at = "receipt"]
           blind == [asking[c] EXCEPT !.at = "receipt", !.blind = TRUE]
<1>4. \/ asking' = [asking EXCEPT ![c] = refused]
      \/ UnderReview(asking[c].handle) = {} /\ asking' = [asking EXCEPT ![c] = clear]
      \/ asking' = [asking EXCEPT ![c] = blind]
  BY DEF isFrozen, Reply, Ask
<1>5. /\ refused \in ClaimStates /\ refused.at = "answered" /\ refused.answer = "under review"
      /\ refused.since = asking[c].since /\ refused.handle = asking[c].handle
      /\ clear \in ClaimStates /\ clear.at = "receipt" /\ clear.since = asking[c].since
      /\ clear.handle = asking[c].handle
      /\ blind \in ClaimStates /\ blind.at = "receipt" /\ blind.since = asking[c].since
      /\ blind.handle = asking[c].handle /\ blind.blind
  BY <1>1 DEF ClaimStates
<1> HIDE DEF refused, clear, blind
<1>6. StillOpen(refused) /\ StillOpen(clear) /\ StillOpen(blind)
  BY <1>1, <1>5 DEF StillOpen
<1>7. PastFreeze(refused) /\ PastFreeze(blind)
  BY <1>5 DEF PastFreeze
<1>8. UnderReview(asking[c].handle) = {} => PastFreeze(clear)
  <2>1. asking[c].since \subseteq UnderReview(asking[c].handle)
    BY <1>1 DEF StillOpen, UnderReview
  <2> QED BY <1>5, <2>1 DEF PastFreeze
<1>9. CASE asking' = [asking EXCEPT ![c] = refused]
  BY <1>2, <1>3, <1>5, <1>6, <1>7, <1>9, AskStep
<1>10. CASE UnderReview(asking[c].handle) = {} /\ asking' = [asking EXCEPT ![c] = clear]
  BY <1>2, <1>3, <1>5, <1>6, <1>8, <1>10, AskStep
<1>11. CASE asking' = [asking EXCEPT ![c] = blind]
  BY <1>2, <1>3, <1>5, <1>6, <1>7, <1>11, AskStep
<1> QED BY <1>4, <1>9, <1>10, <1>11

LEMMA PriorReceiptOK ==
    ASSUME HandlesInv, NEW c \in ClaimCalls, priorReceipt(c)
    PROVE  HandlesInv'
<1>1. asking[c] \in ClaimStates /\ StillOpen(asking[c]) /\ PastFreeze(asking[c]) /\ asking[c].at = "receipt"
  BY CallTyped DEF priorReceipt
<1>2. UNCHANGED <<reports, ruling, receipts, won>>
  BY DEF priorReceipt, claimOnly
<1>3. \A j \in DOMAIN receipts' : [key |-> j, handle |-> receipts'[j].handle] \in won'
  BY <1>2 DEF HandlesInv, ReceiptsWon
<1> DEFINE told == [asking[c] EXCEPT !.at = "answered", !.answer = Replayed(c)]
           go == [asking[c] EXCEPT !.at = "take"]
<1>4. \/ asking[c].key \in DOMAIN receipts /\ asking' = [asking EXCEPT ![c] = told]
      \/ asking' = [asking EXCEPT ![c] = go]
  BY DEF priorReceipt, Reply, Ask
<1>5. Replayed(c) \in {"created", "key reused"}
  BY DEF Replayed
<1>6. /\ told \in ClaimStates /\ told.at = "answered" /\ told.since = asking[c].since
      /\ told.key = asking[c].key /\ told.handle = asking[c].handle /\ told.answer = Replayed(c)
      /\ go \in ClaimStates /\ go.at = "take" /\ go.since = asking[c].since /\ go.handle = asking[c].handle
      /\ go.blind = asking[c].blind /\ go.key = asking[c].key
  BY <1>1, <1>5 DEF ClaimStates
<1>7. asking[c].key \in DOMAIN receipts /\ Replayed(c) = "created" =>
          [key |-> asking[c].key, handle |-> asking[c].handle] \in won
  BY DEF Replayed, HandlesInv, ReceiptsWon
<1> HIDE DEF told, go
<1>8. StillOpen(told) /\ PastFreeze(told) /\ StillOpen(go) /\ PastFreeze(go)
  BY <1>1, <1>6 DEF StillOpen, PastFreeze
<1>9. CASE asking[c].key \in DOMAIN receipts /\ asking' = [asking EXCEPT ![c] = told]
  BY <1>1, <1>2, <1>3, <1>6, <1>7, <1>8, <1>9, AskStep
<1>10. CASE asking' = [asking EXCEPT ![c] = go]
  BY <1>1, <1>2, <1>3, <1>6, <1>8, <1>10, AskStep
<1> QED BY <1>4, <1>9, <1>10

LEMMA TakeHandleOK ==
    ASSUME HandlesInv, NEW c \in ClaimCalls, takeHandle(c)
    PROVE  HandlesInv'
<1>1. asking[c] \in ClaimStates /\ StillOpen(asking[c]) /\ PastFreeze(asking[c]) /\ asking[c].at = "take"
  BY CallTyped DEF takeHandle
<1>2. UNCHANGED <<reports, ruling, receipts>>
  BY DEF takeHandle, claimOnly
<1> DEFINE told(word) == [asking[c] EXCEPT !.at = "answered", !.answer = word]
           mine == [asking[c] EXCEPT !.at = "write"]
<1>3. /\ \/ \E word \in {"taken", "claimed"} : asking' = [asking EXCEPT ![c] = told(word)]
         \/ /\ asking[c].key # NoKey /\ asking' = [asking EXCEPT ![c] = mine]
            /\ won' = won \cup {[key |-> asking[c].key, handle |-> asking[c].handle]}
      /\ won \subseteq won'
  BY DEF takeHandle, Reply, Ask
<1>4. \A j \in DOMAIN receipts' : [key |-> j, handle |-> receipts'[j].handle] \in won'
  BY <1>2, <1>3 DEF HandlesInv, ReceiptsWon
<1>5. ASSUME NEW word \in {"taken", "claimed"}, asking' = [asking EXCEPT ![c] = told(word)]
      PROVE  HandlesInv'
  <2> DEFINE a == told(word)
  <2>1. /\ a \in ClaimStates /\ a.at = "answered" /\ a.answer = word
        /\ a.since = asking[c].since /\ a.handle = asking[c].handle
    BY <1>1 DEF ClaimStates
  <2>2. asking' = [asking EXCEPT ![c] = a]
    BY <1>5
  <2> HIDE DEF a
  <2>3. StillOpen(a) /\ PastFreeze(a)
    BY <1>1, <2>1 DEF StillOpen, PastFreeze
  <2> QED BY <1>2, <1>3, <1>4, <2>1, <2>2, <2>3, AskStep
<1>6. CASE /\ asking[c].key # NoKey /\ asking' = [asking EXCEPT ![c] = mine]
           /\ won' = won \cup {[key |-> asking[c].key, handle |-> asking[c].handle]}
  <2>1. /\ mine \in ClaimStates /\ mine.at = "write" /\ mine.since = asking[c].since
        /\ mine.handle = asking[c].handle /\ mine.blind = asking[c].blind /\ mine.key = asking[c].key
    BY <1>1 DEF ClaimStates
  <2> HIDE DEF mine
  <2>2. StillOpen(mine) /\ PastFreeze(mine)
    BY <1>1, <1>6, <2>1 DEF StillOpen, PastFreeze
  <2> QED BY <1>2, <1>3, <1>4, <1>6, <2>1, <2>2, AskStep
<1> QED BY <1>3, <1>5, <1>6

LEMMA WriteReceiptOK ==
    ASSUME HandlesInv, NEW c \in ClaimCalls, writeReceipt(c)
    PROVE  HandlesInv'
<1>1. asking[c] \in ClaimStates /\ StillOpen(asking[c]) /\ PastFreeze(asking[c]) /\ asking[c].at = "write"
  BY CallTyped DEF writeReceipt
<1>2. UNCHANGED <<reports, ruling, won>>
  BY DEF writeReceipt, claimOnly
<1>3. [key |-> asking[c].key, handle |-> asking[c].handle] \in won
  BY <1>1 DEF HandlesInv, ReceiptsWon
<1> DEFINE reply(word) == [asking[c] EXCEPT !.at = "answered", !.answer = word]
<1>4. PICK word \in {"created", "key reused", "failed"} : asking' = [asking EXCEPT ![c] = reply(word)]
  <2>1. Replayed(c) \in {"created", "key reused"}
    BY DEF Replayed
  <2> QED BY <2>1 DEF writeReceipt, Reply, Ask
<1> DEFINE a == reply(word)
<1>5. /\ a \in ClaimStates /\ a.at = "answered" /\ a.since = asking[c].since
      /\ a.key = asking[c].key /\ a.handle = asking[c].handle
  BY <1>1 DEF ClaimStates
<1> HIDE DEF a
<1>6. StillOpen(a) /\ PastFreeze(a)
  BY <1>1, <1>5 DEF StillOpen, PastFreeze
<1>7. \A j \in DOMAIN receipts' : [key |-> j, handle |-> receipts'[j].handle] \in won'
  <2>1. CASE receipts' = receipts
    BY <1>2, <2>1 DEF HandlesInv, ReceiptsWon
  <2>2. CASE receipts' = [k \in DOMAIN receipts \cup {asking[c].key} |->
                            IF k = asking[c].key THEN [handle |-> asking[c].handle, of |-> asking[c].who] ELSE receipts[k]]
    BY <1>2, <1>3, <2>2 DEF HandlesInv, ReceiptsWon
  <2> QED BY <2>1, <2>2 DEF writeReceipt
<1>8. asking' = [asking EXCEPT ![c] = a]
  BY <1>4 DEF a
<1>9. [key |-> a.key, handle |-> a.handle] \in won'
  BY <1>2, <1>3, <1>5
<1> QED BY <1>1, <1>2, <1>5, <1>6, <1>7, <1>8, <1>9, AskStep

LEMMA CreateReportOK ==
    ASSUME HandlesInv, NEW h \in Handles, createReport(h)
    PROVE  HandlesInv'
<1> DEFINE r == [handle |-> h, state |-> "received", decision |-> "none",
                 appeals |-> 0, late |-> FALSE]
<1>1. reports' = Append(reports, r) /\ UNCHANGED <<won, asking, receipts, ruling>>
  BY DEF createReport, reportOnly
<1>2. r \in TakedownReports
  BY DEF TakedownReports
<1>3. reports \in Seq(TakedownReports) /\ Len(reports) \in Nat /\ DOMAIN reports = 1..Len(reports)
  BY LenProperties DEF HandlesInv, HandlesTyped
<1> HIDE DEF r
<1>4. /\ reports' \in Seq(TakedownReports) /\ Len(reports') = Len(reports) + 1
      /\ \A i \in DOMAIN reports : i \in DOMAIN reports' /\ reports'[i] = reports[i]
  BY <1>1, <1>2, <1>3
<1>5. HandlesTyped'
  BY <1>1, <1>4 DEF HandlesInv, HandlesTyped
<1> QED BY <1>1, <1>4, <1>5, ReportStep

\* A report is rewritten, and it may be that receipts go.
LEMMA RewriteStep ==
    ASSUME HandlesInv, NEW i \in DOMAIN reports, NEW r \in TakedownReports, reports' = [reports EXCEPT ![i] = r],
           r.handle = reports[i].handle, reports[i].state # "closed" => r.state # "closed",
           UNCHANGED <<won, asking, receipts>>,
           \A o \in Rulings : ruling'[o] # NoRuling => ruling'[o] = ruling[o]
    PROVE  HandlesInv'
<1>1. reports \in Seq(TakedownReports) /\ DOMAIN reports = 1..Len(reports) /\ Len(reports) \in Nat
  BY LenProperties DEF HandlesInv, HandlesTyped
<1>2. /\ reports' \in Seq(TakedownReports) /\ Len(reports') = Len(reports) /\ DOMAIN reports' = DOMAIN reports
      /\ \A j \in DOMAIN reports : reports'[j] = IF j = i THEN r ELSE reports[j]
  BY <1>1
<1>3. HandlesTyped'
  BY <1>2 DEF HandlesInv, HandlesTyped
<1> QED BY <1>2, <1>3, ReportStep

LEMMA ReportTyped ==
    ASSUME HandlesInv, NEW i \in DOMAIN reports
    PROVE  reports[i] \in TakedownReports
BY ElementOfSeq, LenProperties DEF HandlesInv, HandlesTyped

LEMMA WindowClosesOK ==
    ASSUME HandlesInv, NEW i \in DOMAIN reports, windowCloses(i)
    PROVE  HandlesInv'
<1> DEFINE r == [reports[i] EXCEPT !.late = TRUE]
<1>1. reports' = [reports EXCEPT ![i] = r] /\ UNCHANGED <<won, asking, receipts, ruling>>
  BY DEF windowCloses, Report, reportOnly
<1>2. r \in TakedownReports /\ r.handle = reports[i].handle /\ r.state = reports[i].state
  BY ReportTyped DEF TakedownReports
<1> HIDE DEF r
<1> QED BY <1>1, <1>2, RewriteStep

LEMMA WriteAppealOK ==
    ASSUME HandlesInv, NEW o \in Rulings, writeAppeal(o)
    PROVE  HandlesInv'
<1>1. /\ reports' = [reports EXCEPT ![ruling[o].report] = [reports[ruling[o].report] EXCEPT
                          !.appeals = @ + 1, !.state = "triaging"]]
      /\ UNCHANGED <<won, asking, receipts>>
      /\ ruling' = [ruling EXCEPT ![o] = NoRuling] /\ ruling[o].at = "appeal"
  BY DEF writeAppeal, Report, Ruled, reportOnly
<1>2. ruling[o].report \in DOMAIN reports
  BY <1>1 DEF HandlesInv, HandlesTyped, NoRuling
<1>3. PICK i, rep : i = ruling[o].report /\ rep = reports[i]
  OBVIOUS
<1>4. rep \in TakedownReports
  BY <1>2, <1>3, ReportTyped
<1> DEFINE r == [rep EXCEPT !.appeals = @ + 1, !.state = "triaging"]
<1>5. r \in TakedownReports /\ r.handle = rep.handle /\ r.state = "triaging"
  <2>1. PICK n \in Nat : n = rep.appeals + 1
    BY <1>4 DEF TakedownReports
  <2>2. r = [rep EXCEPT !.appeals = n, !.state = "triaging"]
    BY <2>1
  <2> QED BY <1>4, <2>2 DEF TakedownReports
<1>6. \A p \in Rulings : ruling'[p] # NoRuling => ruling'[p] = ruling[p]
  BY <1>1
<1>7. reports' = [reports EXCEPT ![i] = r]
  BY <1>1, <1>3
<1> HIDE DEF r
<1> QED BY <1>1, <1>2, <1>3, <1>5, <1>6, <1>7, RewriteStep

\* A report that a release or a transfer closes has not been open since any
\* call began.
LEMMA CloseReportOK ==
    ASSUME HandlesInv, NEW o \in Rulings, closeReport(o)
    PROVE  HandlesInv'
<1>1. PICK i, rep, d : i = ruling[o].report /\ rep = reports[i] /\ d = ruling[o].decision
  OBVIOUS
<1> DEFINE s == IF d = "keep" THEN "appealable" ELSE "closed"
           r == [rep EXCEPT !.state = s, !.decision = d, !.late = FALSE]
<1>2. /\ reports' = [reports EXCEPT ![i] = r] /\ UNCHANGED <<won, receipts>>
      /\ asking' = IF d = "keep" THEN asking ELSE [c \in ClaimCalls |-> [asking[c] EXCEPT !.since = @ \ {i}]]
      /\ ruling' = [ruling EXCEPT ![o] = NoRuling] /\ ruling[o].at = "close"
  BY <1>1 DEF closeReport, Report, Ruled, reportOnly
<1>3. i \in DOMAIN reports /\ d \in {"none", "keep", "release", "transfer"}
  BY <1>1, <1>2 DEF HandlesInv, HandlesTyped, NoRuling
<1>4. rep \in TakedownReports
  BY <1>1, <1>3, ReportTyped
<1>5. s \in {"appealable", "closed"} /\ (d = "keep" => s = "appealable")
  OBVIOUS
<1> HIDE DEF s
<1>6. r \in TakedownReports /\ r.handle = rep.handle /\ r.state = s
  BY <1>3, <1>4, <1>5, ZenonT(60) DEF TakedownReports
<1> HIDE DEF r
<1>7. \A p \in Rulings : ruling'[p] # NoRuling => ruling'[p] = ruling[p]
  BY <1>2
<1>8. CASE d = "keep"
  BY <1>1, <1>2, <1>3, <1>5, <1>6, <1>7, <1>8, RewriteStep
<1>9. CASE d # "keep"
  <2>1. reports \in Seq(TakedownReports) /\ DOMAIN reports = 1..Len(reports)
    BY LenProperties DEF HandlesInv, HandlesTyped
  <2>2. /\ reports' \in Seq(TakedownReports) /\ DOMAIN reports' = DOMAIN reports
        /\ \A j \in DOMAIN reports : reports'[j] = IF j = i THEN r ELSE reports[j]
    <3>1. reports' = [reports EXCEPT ![i] = r] /\ r \in TakedownReports
      BY <1>2, <1>6
    <3> QED BY <1>3, <2>1, <3>1
  <2>3. ASSUME NEW c \in ClaimCalls
        PROVE  /\ asking'[c] \in ClaimStates \cup {NoCall} /\ asking'[c].at = asking[c].at
               /\ asking'[c].since = asking[c].since \ {i}
               /\ asking[c] # NoCall => /\ asking'[c].key = asking[c].key /\ asking'[c].handle = asking[c].handle
                                        /\ asking'[c].answer = asking[c].answer /\ asking'[c].blind = asking[c].blind
               /\ asking[c] = NoCall => asking'[c] = NoCall
    <3>1. asking'[c] = [asking[c] EXCEPT !.since = @ \ {i}]
      BY <1>2, <1>9
    <3>2. CASE asking[c] = NoCall
      BY <3>1, <3>2 DEF NoCall
    <3>3. CASE asking[c] \in ClaimStates
      <4>1. PICK n : n = asking[c].since \ {i}
        OBVIOUS
      <4>2. n \in SUBSET Nat
        BY <3>3, <4>1 DEF ClaimStates
      <4>3. asking'[c] = [asking[c] EXCEPT !.since = n]
        BY <3>1, <4>1
      <4>4. asking[c] # NoCall
        <5>1. asking[c].at # "idle"
          BY <3>3 DEF ClaimStates
        <5> QED BY <5>1 DEF NoCall
      <4> QED BY <3>3, <4>1, <4>2, <4>3, <4>4 DEF ClaimStates
    <3> QED BY <3>2, <3>3 DEF HandlesInv, HandlesTyped
  <2>4. HandlesTyped'
    <3>1. asking' \in [ClaimCalls -> ClaimStates \cup {NoCall}]
      BY <1>2, <1>9, <2>3
    <3> QED BY <1>7, <2>2, <3>1 DEF HandlesInv, HandlesTyped
  <2>5. ASSUME NEW c \in ClaimCalls, asking'[c].at # "idle" PROVE asking[c] # NoCall
    BY <2>3, <2>5 DEF NoCall
  <2>6. ReceiptsWon' /\ ClaimsTruthful'
    BY <1>2, <2>3, <2>5 DEF HandlesInv, ReceiptsWon, ClaimsTruthful
  <2>7. FreezesHold'
    <3> SUFFICES ASSUME NEW c \in ClaimCalls
                 PROVE  /\ \A j \in asking'[c].since :
                              j \in DOMAIN reports' /\ reports'[j].handle = asking'[c].handle /\ reports'[j].state # "closed"
                        /\ PastFreeze(asking'[c])
      BY DEF FreezesHold, StillOpen, PastFreeze
    <3>1. StillOpen(asking[c]) /\ PastFreeze(asking[c])
      BY DEF HandlesInv, FreezesHold
    <3>2. CASE asking[c] = NoCall
      BY <2>3, <3>2 DEF NoCall, PastFreeze
    <3>3. CASE asking[c] # NoCall
      BY <2>2, <2>3, <3>1, <3>3 DEF StillOpen, PastFreeze
    <3> QED BY <3>2, <3>3
  <2> QED BY <2>4, <2>6, <2>7 DEF HandlesInv
<1> QED BY <1>8, <1>9

\* A ruling begins or goes on: nothing is written that a claim relies on.
LEMMA RulingStep ==
    ASSUME HandlesInv, UNCHANGED <<won, asking, reports>>, NEW o \in Rulings, NEW q,
           ruling' = [ruling EXCEPT ![o] = q],
           q.report \in DOMAIN reports, q.decision \in {"none", "keep", "release", "transfer"},
           \A k \in DOMAIN receipts' : k \in DOMAIN receipts /\ receipts'[k] = receipts[k]
    PROVE  HandlesInv'
<1>1. \A p \in Rulings : ruling'[p] = q \/ ruling'[p] = ruling[p]
  OBVIOUS
<1>2. HandlesTyped'
  BY <1>1 DEF HandlesInv, HandlesTyped
<1> QED BY <1>2, ReportStep

LEMMA AppealReportOK ==
    ASSUME HandlesInv, NEW o \in Rulings, NEW i \in DOMAIN reports, appealReport(o, i)
    PROVE  HandlesInv'
<1> DEFINE q == [at |-> "appeal", report |-> i, decision |-> "none"]
<1>1. ruling' = [ruling EXCEPT ![o] = q] /\ UNCHANGED <<won, asking, reports, receipts>>
  BY DEF appealReport, Ruled, reportOnly
<1> QED BY <1>1, RulingStep

LEMMA DecideReportOK ==
    ASSUME HandlesInv, NEW o \in Rulings, NEW i \in DOMAIN reports, NEW d \in {"keep", "release", "transfer"},
           decideReport(o, i, d)
    PROVE  HandlesInv'
<1> DEFINE q == [at |-> IF d = "keep" THEN "close" ELSE "free", report |-> i, decision |-> d]
<1>1. ruling' = [ruling EXCEPT ![o] = q] /\ UNCHANGED <<won, asking, reports, receipts>>
  BY DEF decideReport, Ruled, reportOnly
<1>2. q.report = i /\ q.decision = d
  OBVIOUS
<1> HIDE DEF q
<1> QED BY <1>1, <1>2, RulingStep

LEMMA FreeAndForgetOK ==
    ASSUME HandlesInv, NEW o \in Rulings, freeHandle(o) \/ forgetReceipts(o)
    PROVE  HandlesInv'
<1> DEFINE next(pc) == [ruling[o] EXCEPT !.at = pc]
<1>1. /\ UNCHANGED <<won, asking, reports>> /\ ruling[o].at \in {"free", "forget"}
      /\ \E pc \in {"forget", "close"} : ruling' = [ruling EXCEPT ![o] = next(pc)]
      /\ \A k \in DOMAIN receipts' : k \in DOMAIN receipts /\ receipts'[k] = receipts[k]
  BY DEF freeHandle, forgetReceipts, Ruled, reportOnly, Restrict
<1>2. PICK pc \in {"forget", "close"} : ruling' = [ruling EXCEPT ![o] = next(pc)]
  BY <1>1
<1>3. /\ ruling[o].report \in DOMAIN reports /\ ruling[o].decision \in {"none", "keep", "release", "transfer"}
  BY <1>1 DEF HandlesInv, HandlesTyped, NoRuling
<1>4. next(pc).report = ruling[o].report /\ next(pc).decision = ruling[o].decision
  OBVIOUS
<1> HIDE DEF next
<1> QED BY <1>1, <1>2, <1>3, <1>4, RulingStep

LEMMA HandlesStartOK == HandlesInit => HandlesInv
<1> SUFFICES ASSUME HandlesInit PROVE HandlesInv
  OBVIOUS
<1>1. /\ receipts = <<>> /\ reports = <<>> /\ \A o \in Rulings : ruling[o] = NoRuling
      /\ asking = [c \in ClaimCalls |-> NoCall]
  BY DEF HandlesInit
<1>2. NoCall.at = "idle" /\ DOMAIN <<>> = {} /\ <<>> \in Seq(TakedownReports)
  BY DEF NoCall
<1>3. asking \in [ClaimCalls -> ClaimStates \cup {NoCall}] /\ \A c \in ClaimCalls : asking[c] = NoCall
  BY <1>1
<1>4. HandlesTyped
  BY <1>1, <1>2, <1>3 DEF HandlesTyped
<1>5. FreezesHold
  BY <1>3 DEF FreezesHold, StillOpen, PastFreeze, NoCall
<1> QED BY <1>1, <1>2, <1>3, <1>4, <1>5 DEF HandlesInv, ReceiptsWon, ClaimsTruthful

LEMMA HandlesStepOK == HandlesInv /\ [HandlesNext]_handleVars => HandlesInv'
<1> SUFFICES ASSUME HandlesInv, [HandlesNext]_handleVars PROVE HandlesInv'
  OBVIOUS
<1>1. CASE UNCHANGED handleVars
  <2>1. UNCHANGED <<won, asking, reports, receipts, ruling>>
    BY <1>1 DEF handleVars
  <2>2. HandlesTyped'
    BY <2>1 DEF HandlesInv, HandlesTyped
  <2> QED BY <2>1, <2>2, ReportStep
<1>2. CASE \E c \in ClaimCalls, p \in Squatters, h \in Handles, k \in ClaimKeys :
             claimContract(c, p, h, k)
  BY <1>2, ClaimContractOK
<1>8. CASE \E c \in ClaimCalls, p \in Squatters, h \in Handles : authClaim(c, p, h)
  BY <1>8, AuthClaimOK
<1>3. CASE \E c \in ClaimCalls : isFrozen(c) \/ priorReceipt(c) \/ takeHandle(c) \/ writeReceipt(c)
  BY <1>3, IsFrozenOK, PriorReceiptOK, TakeHandleOK, WriteReceiptOK
<1>4. CASE \E h \in Handles : createReport(h)
  BY <1>4, CreateReportOK
<1>5. CASE \E i \in DOMAIN reports : windowCloses(i)
  BY <1>5, WindowClosesOK
<1>6. CASE \E i \in DOMAIN reports : \E o \in Rulings :
             appealReport(o, i) \/ \E d \in {"keep", "release", "transfer"} : decideReport(o, i, d)
  BY <1>6, AppealReportOK, DecideReportOK
<1>7. CASE \E o \in Rulings : writeAppeal(o) \/ freeHandle(o) \/ forgetReceipts(o) \/ closeReport(o)
  BY <1>7, WriteAppealOK, FreeAndForgetOK, CloseReportOK
<1> QED BY <1>1, <1>2, <1>3, <1>4, <1>5, <1>6, <1>7, <1>8 DEF HandlesNext

\* Handles: whatever calls, reports, appeals and decisions run together, and
\* whichever queries fail, for any handles, callers and keys.
THEOREM HandlesInvariance == HandlesSpec => []HandlesInv
BY HandlesStartOK, HandlesStepOK, PTL DEF HandlesSpec

\* 201 is said of a handle that a claim under its key took, and no contract
\* claim takes one that has been under review ever since the claim began.
THEOREM HandlesAlwaysKept == HandlesSpec => []HandlesKept
<1>1. HandlesInv => HandlesKept
  <2> SUFFICES ASSUME HandlesInv, NEW c \in ClaimCalls, asking[c].at = "write", ~asking[c].blind
               PROVE  asking[c].since = {}
    BY DEF HandlesInv, HandlesKept, FrozenStaysPut
  <2> QED BY DEF HandlesInv, FreezesHold, PastFreeze
<1> QED BY <1>1, HandlesInvariance, PTL

---------------------------------------------------------------------------
\* The properties of the runs

\* Points are added only for a paid order, and a deposit is issued only with
\* both legs settled, on any number of instances, whichever of webhook, poll,
\* sweep and reconciler noticed the payment.
THEOREM PointsAlwaysBacked == DepositSpec => []PointsBacked
<1>1. DepositInv => PointsBacked
  BY DEF DepositInv
<1> QED BY <1>1, DepositInvariance, PTL

\* Repeated reversal signals of a deposit lead to one claw-back candidate.
THEOREM ReversalsForkNothing == DepositSpec => []OneCandidate
<1>1. DepositInv => OneCandidate
  BY DEF DepositInv
<1> QED BY <1>1, DepositInvariance, PTL

\* A transfer's row, its mirror in the journal and its fee row say settled
\* only of what DOKU settled.
THEOREM MirrorsAlwaysBacked == TransferSpec => []MirrorsBacked
<1>1. TransferInv => MirrorsBacked
  BY DEF TransferInv
<1> QED BY <1>1, TransferInvariance, PTL

\* No bank transfer leaves the pool for points nobody asked to burn, and a
\* completed redemption has its payout.
THEOREM PayoutsAlwaysBacked == RedemptionSpec => []PayoutsBacked
<1>1. RedemptionInv => PayoutsBacked
  BY DEF RedemptionInv, SagaKnown
<1> QED BY <1>1, RedemptionInvariance, PTL

\* Whatever fee is charged, its user approved it for that call, at that rate,
\* within the maximum and in time, and no call is charged twice.
THEOREM FeesAlwaysApproved == FeeSpec => []FeesAsApproved
BY FeeInvariance, FeesFollow, PTL

\* The same of the services as the run composes them: one is busy, the others
\* stand still.
THEOREM MoneyAlwaysBacked == ServicesSpec => []MoneyBacked
<1>1. ServicesInit => DepositInit /\ TransferInit /\ RedemptionInit /\ FeeInit
  BY DEF ServicesInit
<1>2. [ServicesNext]_serviceVars => [DepositNext]_depositVars
  BY DEF ServicesNext, serviceVars
<1>3. [ServicesNext]_serviceVars => [TransferNext]_transferVars
  BY DEF ServicesNext, serviceVars
<1>4. [ServicesNext]_serviceVars => [RedemptionNext]_redemptionVars
  BY DEF ServicesNext, serviceVars
<1>5. [ServicesNext]_serviceVars => [FeeNext]_feeVars
  BY DEF ServicesNext, serviceVars
<1>6. ServicesSpec => DepositSpec /\ TransferSpec /\ RedemptionSpec /\ FeeSpec
  BY <1>1, <1>2, <1>3, <1>4, <1>5, PTL DEF ServicesSpec, DepositSpec, TransferSpec, RedemptionSpec, FeeSpec
<1>7. PointsBacked /\ MirrorsBacked /\ PayoutsBacked /\ OneCandidate /\ FeesAsApproved => MoneyBacked
  BY DEF MoneyBacked
<1> QED
  BY <1>6, <1>7, PointsAlwaysBacked, MirrorsAlwaysBacked, PayoutsAlwaysBacked, ReversalsForkNothing,
     FeesAlwaysApproved, PTL

\* Every point is accounted for and no app, nor its owner over all apps, awards
\* beyond its cap, however many submissions, corrections, backfills and changes
\* of quotas run together.
THEOREM ExperienceAddsUp == ServicesSpec => []XpAccounted
<1>1. ServicesInit => ExperienceInit
  BY DEF ServicesInit
<1>2. [ServicesNext]_serviceVars => [ExperienceNext]_xpVars
  BY DEF ServicesNext, serviceVars
<1>3. ServicesSpec => ExperienceSpec
  BY <1>1, <1>2, PTL DEF ServicesSpec, ExperienceSpec
<1>4. XpInv => XpAccounted
  BY DEF XpInv
<1> QED BY <1>3, <1>4, ExperienceInvariance, PTL
\* A switch answers every gate in force with what was saved, the history loses
\* no save, and a handle goes to whom it was claimed for, as the run composes them.
THEOREM OfficeAlwaysKept == ServicesSpec => []OfficeKept
<1>1. ServicesInit => SettingsInit /\ HandlesInit
  BY DEF ServicesInit
<1>2. [ServicesNext]_serviceVars => [SettingsNext]_settingsVars
  BY DEF ServicesNext, serviceVars
<1>3. [ServicesNext]_serviceVars => [HandlesNext]_handleVars
  BY DEF ServicesNext, serviceVars
<1>4. ServicesSpec => SettingsSpec /\ HandlesSpec
  BY <1>1, <1>2, <1>3, PTL DEF ServicesSpec, SettingsSpec, HandlesSpec
<1>5. SettingsKept /\ HandlesKept => OfficeKept
  BY DEF OfficeKept
<1> QED BY <1>4, <1>5, SettingsAlwaysKept, HandlesAlwaysKept, PTL
===========================================================================
