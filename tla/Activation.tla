----------------------------- MODULE Activation -----------------------------
(***************************************************************************)
(* Activating an identity's smart account, on Solana or on an EVM chain:   *)
(* the chain_accounts row, the poll that keeps it, activate, and the first *)
(* action that activates and spends at once.                               *)
(*                                                                         *)
(* An account's address is bound to the passkey that claims it, so there   *)
(* is one possible vault per key; the row names the one in use.  A user    *)
(* signs grants and a client may send one any number of times; requests    *)
(* run at once, a step is one of their awaits.  The chains are external.   *)
(***************************************************************************)
EXTENDS Integers, Sequences, FiniteSets

CONSTANTS
    Grants,         \* signed activations and first actions
    Terms,          \* what each one says: first action or not, key, expiry
    Oversized,      \* first actions whose composite exceeds the packet
    Swapped,        \* adapter.activateV4 passes tombstone and program id in
                    \* each other's place: TRUE is the code, FALSE what all
                    \* around it is written for
    Servers,        \* requests being served
    Claimants,      \* active passkeys of the identity
    Oldest,         \* the oldest of them
    Unsigned,
    Networks,       \* subset of "svm", "evm"
    Endow,          \* what each vault holds at the start
    ActHorizon,     \* bound: time
    MaxSends,       \* bound: broadcast transactions
    MaxSlips        \* bound: lost answers, unreadable chain, refusals, crashes

ASSUME ActivationConstants ==
    /\ Terms \in [Grants -> [first: BOOLEAN, key: Claimants, expiry: Nat]]
    /\ Oversized \subseteq Grants /\ Swapped \in BOOLEAN /\ Unsigned \notin Grants
    /\ Oldest \in Claimants /\ Networks \subseteq {"svm", "evm"} /\ Endow \in [Claimants -> 0..2]
    /\ ActHorizon \in Nat /\ MaxSends \in Nat /\ MaxSlips \in Nat

VARIABLES
    net,        \* the chain of the row
    row,        \* status, and the key whose address it names
    vault,      \* on chain, per key: live, nonce, money (0, 1 some, 2 enough)
    sends,      \* broadcast transactions
    permits,    \* relayer_broadcast rows
    req,        \* the requests
    seen,       \* the row as the poll read it
    atime, slips

actVars == <<net, row, vault, sends, permits, req, seen, atime, slips>>

\* An activation claims its expiry, the first action nonce 0 of its spend.
PermitOf(i, kind) == IF kind = "activate" THEN <<Terms[i].expiry, "activate">>
                     ELSE IF net = "svm" THEN <<0, "spend">> ELSE <<Terms[i].expiry, "spend">>
PermitKeys == {<<Terms[i].expiry, e>> : i \in Grants, e \in {"activate", "spend"}} \cup {<<0, "spend">>}
NoPermit == [status |-> "none", hash |-> Unsigned, sig |-> 0]
Resting == [pc |-> "idle", i |-> Unsigned, kind |-> "activate", at |-> Oldest, base |-> 0, sig |-> 0]

ActInit ==
    /\ net \in Networks
    /\ row = [status |-> "none", claim |-> Oldest]
    /\ vault = [k \in Claimants |-> [live |-> FALSE, nonce |-> 0, money |-> Endow[k]]]
    /\ sends = <<>>
    /\ permits = [p \in PermitKeys |-> NoPermit]
    /\ req = [q \in Servers |-> Resting]
    /\ seen = <<>>
    /\ atime = 0 /\ slips = 0

---------------------------------------------------------------------------
\* Helpers

On(q, pc) == req[q].pc = pc
To(q, pc) == req' = [req EXCEPT ![q].pc = pc]
Rest(q) == req' = [req EXCEPT ![q] = Resting]
Only(q, pc) == req' = [req EXCEPT ![q] = [Resting EXCEPT !.pc = pc, !.i = req[q].i]]
Key(q) == Terms[req[q].i].key
Permit(q) == PermitOf(req[q].i, req[q].kind)
Slip == slips < MaxSlips /\ slips' = slips + 1

Noted(q, status, sig) ==
    permits' = [permits EXCEPT ![Permit(q)].status = status,
                               ![Permit(q)].sig = IF sig = 0 THEN @ ELSE sig]

\* activate's catch puts the row back to ready; the spends just answer.
Throw(q) ==
    req' = [req EXCEPT ![q] = [Resting EXCEPT !.pc = IF req[q].kind = "activate" THEN "revert" ELSE "idle"]]

\* classifyActivation: a stored `activating` is kept.
classify(money, current) ==
    CASE money = 0 -> "inactivated"
      [] money = 1 -> "insufficient"
      [] OTHER     -> IF current = "activating" THEN "activating" ELSE "ready"

\* Solana asks who owns the account; EVM, where anyone may deploy, compares
\* the deployed authority with the identity's oldest active passkey.
deploymentMatches(k) == vault[k].live /\ (net = "evm" => k = Oldest)

\* viewOf: the chain decides, then the balance and the stored status.
viewOf(r) == IF deploymentMatches(r.claim) THEN "active"
             ELSE classify(vault[r.claim].money, r.status)

---------------------------------------------------------------------------
\* The row and its poll

\* The row is made for the oldest passkey, and later requests keep the key
\* that it records.
MakeRow ==
    /\ row.status = "none"
    /\ row' = [row EXCEPT !.status = "inactivated"]
    /\ UNCHANGED <<net, vault, sends, permits, req, seen, atime, slips>>

ensureAccount == net = "svm" /\ MakeRow
ensureEvmRows == net = "evm" /\ MakeRow

pollRead ==
    /\ seen = <<>> /\ row.status # "none"
    /\ seen' = <<row>>
    /\ UNCHANGED <<net, row, vault, sends, permits, req, atime, slips>>

\* What the poll makes of the row it read and the chain now.
Polled(r) ==
    IF deploymentMatches(r.claim) THEN "active"
    ELSE IF r.status = "active" THEN "inactivated"
    ELSE classify(vault[r.claim].money, r.status)

\* On EVM: an active row is left alone while nothing is deployed, and so is
\* any other under which a foreign authority is.
PolledEvm(r) ==
    IF deploymentMatches(r.claim) THEN "active"
    ELSE IF vault[r.claim].live THEN (IF r.status = "active" THEN "ready" ELSE r.status)
    ELSE IF r.status = "active" THEN "active"
    ELSE classify(vault[r.claim].money, r.status)

\* It writes without a condition; only Solana writes what it read.
pollWrite ==
    /\ seen # <<>>
    /\ seen' = <<>>
    /\ LET was == seen[1]
           next == IF net = "evm" THEN PolledEvm(was) ELSE Polled(was)
       IN  row' = IF next = was.status /\ (net = "evm" \/ was.status = "active")
                  THEN row ELSE [row EXCEPT !.status = next]
    /\ UNCHANGED <<net, vault, sends, permits, req, atime, slips>>

---------------------------------------------------------------------------
\* activate, await by await

\* Only a wallet that is live `ready` goes on.
Begin(q, i) ==
    /\ On(q, "idle") /\ row.status # "none" /\ viewOf(row) = "ready"
    /\ req' = [req EXCEPT ![q] = [Resting EXCEPT !.pc = "mark", !.i = i]]
    /\ UNCHANGED <<net, row, vault, sends, permits, seen, atime, slips>>

activate(q, i) == net = "svm" /\ ~Terms[i].first /\ row.status # "active" /\ Begin(q, i)

\* EVM checks the grant first: policy, deadline, drift, the cap, the passkey.
activateEvm(q, i) == net = "evm" /\ atime < Terms[i].expiry /\ Begin(q, i)

mark(q) ==
    /\ On(q, "mark")
    /\ row' = [row EXCEPT !.status = "activating"]
    /\ To(q, "bind")
    /\ UNCHANGED <<net, vault, sends, permits, seen, atime, slips>>

\* The row is healed to the address of the asserting key.  Only then does
\* Solana check the request, and throws for an unknown passkey, a relayer
\* without funds, an expired grant, a fee that drifted or is above the cap.
bind(q) ==
    /\ On(q, "bind") /\ net = "svm"
    /\ row' = [row EXCEPT !.claim = Key(q)]
    /\ \/ /\ atime < Terms[req[q].i].expiry
          /\ req' = [req EXCEPT ![q].pc = "claim", ![q].at = Key(q)]
          /\ UNCHANGED slips
       \/ atime >= Terms[req[q].i].expiry /\ Throw(q) /\ UNCHANGED slips
       \/ Slip /\ Throw(q)
    /\ UNCHANGED <<net, vault, sends, permits, seen, atime>>

bindEvm(q) ==
    /\ On(q, "bind") /\ net = "evm"
    /\ row' = [row EXCEPT !.claim = Key(q)]
    /\ req' = [req EXCEPT ![q].pc = "claim", ![q].at = Key(q)]
    /\ UNCHANGED <<net, vault, sends, permits, seen, atime, slips>>

\* What withdrawFirstAction and executeFirstAction check: balance and nonce
\* are those of the row's address.
FirstActionAllowed(i) ==
    /\ vault[row.claim].nonce = 0 /\ vault[row.claim].money = 2
    /\ atime < Terms[i].expiry

\* A withdrawal or an execute, on Solana, of an account that is not activated.
firstAction(q, i) ==
    /\ On(q, "idle") /\ net = "svm" /\ Terms[i].first
    /\ row.status # "none" /\ ~vault[row.claim].live
    /\ FirstActionAllowed(i)
    /\ req' = [req EXCEPT ![q] = [Resting EXCEPT !.pc = "claim", !.i = i,
                                                   !.kind = "composite", !.at = row.claim]]
    /\ UNCHANGED <<net, row, vault, sends, permits, seen, atime, slips>>

\* resolveDeployedView: what the chain shows is the answer.
resolveDeployedView(q) == IF viewOf(row) = "active" THEN Only(q, "finish") ELSE Throw(q)

\* An identical retry on EVM; the execute leg is sent again only while the
\* account's nonce is 0.
RetryEvm(q, p) ==
    IF req[q].kind = "activate" THEN resolveDeployedView(q)
    ELSE IF p.sig = 0 /\ vault[req[q].at].nonce = 0 THEN To(q, "send") ELSE Rest(q)

\* On Solana a recorded signature is the answer, as it stands; without one an
\* activation is sent again and a first action looks at the nonce first.
RetrySvm(q, p) ==
    IF p.sig # 0 THEN Rest(q)
    ELSE To(q, IF req[q].kind = "activate" THEN "send" ELSE "duplicate")

\* claimSlot: the first request of the slot sends, other bytes are refused.
\* The hash on EVM covers the fee attested for this request, so that an
\* identical retry may be other bytes.
claimPermit(q) ==
    /\ On(q, "claim")
    /\ LET p == permits[Permit(q)]
           same == p.hash = req[q].i
       IN  \/ /\ p = NoPermit
              /\ permits' = [permits EXCEPT ![Permit(q)] = [status |-> "claimed", hash |-> req[q].i, sig |-> 0]]
              /\ To(q, "send")
           \/ /\ p # NoPermit /\ (~same \/ net = "evm") /\ Throw(q) /\ UNCHANGED permits
           \/ /\ p # NoPermit /\ same /\ UNCHANGED permits
              /\ IF net = "evm" THEN RetryEvm(q, p) ELSE RetrySvm(q, p)
    /\ UNCHANGED <<net, row, vault, sends, seen, atime, slips>>

\* getNonceOf answers 0 for an address without an account, and throws for one
\* that holds lamports and no data: a funded address before its activation.
NonceReadable(k) == vault[k].live \/ vault[k].money = 0

\* resolveDuplicateSlot of a first action.
resolveDuplicate(q) ==
    /\ On(q, "duplicate")
    /\ IF NonceReadable(req[q].at) /\ vault[req[q].at].nonce = 0
       THEN To(q, "send") /\ UNCHANGED permits
       ELSE /\ Rest(q)
            /\ IF NonceReadable(req[q].at) THEN Noted(q, "resolved-landed", Len(sends)) ELSE UNCHANGED permits
    /\ UNCHANGED <<net, row, vault, sends, seen, atime, slips>>

\* A vault obeys the key it is bound to; grants are signed for nonce 0.
AcceptableAct(t) ==
    /\ atime < Terms[t.i].expiry
    /\ t.at = Terms[t.i].key
    /\ IF t.kind = "spend" THEN vault[t.at].live /\ vault[t.at].nonce = 0 /\ vault[t.at].money > 0
                           ELSE ~vault[t.at].live /\ vault[t.at].money = 2

\* Activation and composite go to the asserting key's vault, a spend to the
\* one the row records, on EVM as the request read it.
Target(q) == IF req[q].kind # "spend" THEN Key(q)
             ELSE IF net = "evm" THEN req[q].at ELSE row.claim
Tx(q) == [i |-> req[q].i, kind |-> req[q].kind, at |-> Target(q), state |-> "pending"]
TooLarge(q) == req[q].kind = "composite" /\ req[q].i \in Oversized

\* assertCanonicalTreasury derives the treasury from the program id it is
\* given: from the tombstone's address it is another one, and it throws.
Builds(q) == net = "svm" /\ req[q].kind = "activate" => ~Swapped
Submit(q) == Len(sends) < MaxSends /\ ~TooLarge(q) /\ Builds(q) /\ sends' = Append(sends, Tx(q))
SentAs(q, pc) == req' = [req EXCEPT ![q].pc = pc, ![q].sig = Len(sends) + 1]

\* The single submission: taken, refused for good, or unclear.  TxTooLarge and
\* the builder's error are none of those that count as deterministic, so they
\* are unclear as well.
broadcastAct(q) ==
    /\ On(q, "send")
    /\ \/ Submit(q) /\ SentAs(q, "record") /\ UNCHANGED slips
       \/ /\ ~TooLarge(q) /\ Builds(q) /\ (Slip \/ (~AcceptableAct(Tx(q)) /\ UNCHANGED slips))
          /\ Throw(q) /\ UNCHANGED sends
       \/ Slip /\ To(q, "resolve") /\ (Submit(q) \/ UNCHANGED sends)
       \/ (TooLarge(q) \/ ~Builds(q)) /\ To(q, "resolve") /\ UNCHANGED <<sends, slips>>
    /\ UNCHANGED <<net, row, vault, permits, seen, atime>>

\* recordSubmission, also of what was sent again.
recordAct(q) ==
    /\ On(q, "record") /\ net = "svm"
    /\ Noted(q, "submitted", req[q].sig)
    /\ To(q, "confirm")
    /\ UNCHANGED <<net, row, vault, sends, seen, atime, slips>>

\* sendRelayerTx waits for the receipt first, and throws when it is bad.
receiptEvm(q) ==
    /\ On(q, "record") /\ net = "evm"
    /\ sends[req[q].sig].state # "pending"
    /\ IF sends[req[q].sig].state = "landed"
       THEN Noted(q, "submitted", req[q].sig) /\ To(q, "confirm")
       ELSE Throw(q) /\ UNCHANGED permits
    /\ UNCHANGED <<net, row, vault, sends, seen, atime, slips>>

\* What resolveState reads: the owner of the account for an activation, the
\* nonce for a spend.
Unreadable(q) == req[q].kind # "activate" /\ net = "svm" /\ ~NonceReadable(req[q].at)
LandedAct(q) == IF req[q].kind = "activate" THEN deploymentMatches(req[q].at)
                ELSE vault[req[q].at].nonce # req[q].base

\* Unreadable parks; landed is success; not landed is sent once more.
resolveAct(q) ==
    /\ On(q, "resolve")
    /\ \/ /\ Slip \/ (Unreadable(q) /\ UNCHANGED slips)
          /\ Noted(q, "parked-unreadable", 0) /\ Throw(q)
       \/ /\ ~Unreadable(q) /\ LandedAct(q) /\ UNCHANGED slips
          /\ Noted(q, "resolved-landed", 0)
          /\ IF req[q].kind # "activate" THEN Rest(q)
             ELSE IF net = "evm" THEN resolveDeployedView(q) ELSE Only(q, "finish")
       \/ /\ ~Unreadable(q) /\ ~LandedAct(q) /\ UNCHANGED <<slips, permits>>
          /\ To(q, "resend")
    /\ UNCHANGED <<net, row, vault, sends, seen, atime>>

\* An oversized composite throws TxTooLarge once more, which starts the two
\* steps: the activation by itself, then the spend.
resendAct(q) ==
    /\ On(q, "resend")
    /\ \/ Submit(q) /\ SentAs(q, "record")
       \/ ~TooLarge(q) /\ Throw(q) /\ UNCHANGED sends
       \/ TooLarge(q) /\ To(q, "fallback") /\ UNCHANGED sends
    /\ UNCHANGED <<net, row, vault, permits, seen, atime, slips>>

fallback(q) ==
    /\ On(q, "fallback")
    /\ \/ /\ Len(sends) < MaxSends /\ ~Swapped
          /\ sends' = Append(sends, [Tx(q) EXCEPT !.kind = "activate"])
          /\ req' = [req EXCEPT ![q].pc = "send", ![q].kind = "spend"]
          /\ UNCHANGED slips
       \/ (Slip \/ (Swapped /\ UNCHANGED slips)) /\ Rest(q) /\ UNCHANGED sends
    /\ UNCHANGED <<net, row, vault, permits, seen, atime>>

\* Mutant of confirmActivation: the window's end counts as a confirmation.
confirmPending(q) ==
    /\ On(q, "confirm") /\ req[q].kind = "activate" /\ net = "svm"
    /\ IF sends[req[q].sig].state = "failed"
       THEN Noted(q, "failed", req[q].sig) /\ Throw(q)
       ELSE Noted(q, "confirmed", req[q].sig) /\ Only(q, "finish")
    /\ UNCHANGED <<net, row, vault, sends, seen, atime, slips>>

\* The chain shows the account, the transaction failed, or the window ends.
confirmActivation(q) ==
    /\ On(q, "confirm") /\ req[q].kind = "activate" /\ net = "svm"
    /\ IF deploymentMatches(req[q].at)
       THEN Noted(q, "confirmed", req[q].sig) /\ Only(q, "finish")
       ELSE /\ Noted(q, IF sends[req[q].sig].state = "failed" THEN "failed" ELSE "submitted", req[q].sig)
            /\ Throw(q)
    /\ UNCHANGED <<net, row, vault, sends, seen, atime, slips>>

\* EVM has its receipt, and checks whose authority was deployed; the slot
\* stays `submitted`.
verifyDeployment(q) ==
    /\ On(q, "confirm") /\ req[q].kind = "activate" /\ net = "evm"
    /\ IF deploymentMatches(req[q].at) THEN Only(q, "finish") ELSE Throw(q)
    /\ UNCHANGED <<net, row, vault, sends, permits, seen, atime, slips>>

\* waitForConfirmation of the spend, on Solana.  The row is left to the poll.
confirmFirst(q) ==
    /\ On(q, "confirm") /\ req[q].kind # "activate"
    /\ LET end == sends[req[q].sig].state
       IN  IF net = "svm" /\ end \in {"landed", "failed"}
           THEN Noted(q, IF end = "landed" THEN "confirmed" ELSE "failed", req[q].sig)
           ELSE UNCHANGED permits
    /\ Rest(q)
    /\ UNCHANGED <<net, row, vault, sends, seen, atime, slips>>

\* On EVM the execute leg of a first action follows its deployment.
activateAndExecute(q) == IF net = "evm" /\ Terms[req[q].i].first THEN To(q, "execute") ELSE Rest(q)

finish(q) ==
    /\ On(q, "finish")
    /\ row' = [row EXCEPT !.status = "active"]
    /\ activateAndExecute(q)
    /\ UNCHANGED <<net, vault, sends, permits, seen, atime, slips>>

\* The execute leg of a wallet that shows as active, with the nonce it starts
\* from.
relayExecute(q) ==
    /\ On(q, "execute")
    /\ IF viewOf(row) = "active" /\ atime < Terms[req[q].i].expiry
       THEN req' = [req EXCEPT ![q] = [Resting EXCEPT !.pc = "claim", !.i = req[q].i, !.kind = "spend",
                                        !.at = row.claim, !.base = vault[row.claim].nonce]]
       ELSE Rest(q)
    /\ UNCHANGED <<net, row, vault, sends, permits, seen, atime, slips>>

revert(q) ==
    /\ On(q, "revert")
    /\ row' = [row EXCEPT !.status = "ready"]
    /\ Rest(q)
    /\ UNCHANGED <<net, vault, sends, permits, seen, atime, slips>>

---------------------------------------------------------------------------
\* Process, chain, time

\* The process dies: requests end where they are, the row stays as it is.
Crash ==
    /\ Slip
    /\ req' = [q \in Servers |-> Resting] /\ seen' = <<>>
    /\ UNCHANGED <<net, row, vault, sends, permits, atime>>

Deposit(k) ==
    /\ vault[k].money < 2
    /\ vault' = [vault EXCEPT ![k].money = 2]
    /\ UNCHANGED <<net, row, sends, permits, req, seen, atime, slips>>

LandAct(t) ==
    /\ sends[t].state = "pending" /\ AcceptableAct(sends[t])
    /\ sends' = [sends EXCEPT ![t].state = "landed"]
    /\ vault' = [vault EXCEPT ![sends[t].at] =
                    [live |-> TRUE, money |-> 1, nonce |-> IF sends[t].kind = "activate" THEN 0 ELSE 1]]
    /\ UNCHANGED <<net, row, permits, req, seen, atime, slips>>

LoseAct(t) ==
    /\ sends[t].state = "pending"
    /\ \/ ~AcceptableAct(sends[t]) /\ sends' = [sends EXCEPT ![t].state = "failed"] /\ UNCHANGED slips
       \/ Slip /\ sends' = [sends EXCEPT ![t].state = "dropped"]
    /\ UNCHANGED <<net, row, vault, permits, req, seen, atime>>

ActTick ==
    /\ atime < ActHorizon /\ atime' = atime + 1
    /\ UNCHANGED <<net, row, vault, sends, permits, req, seen, slips>>

StepAct(q) ==
    \/ mark(q) \/ bind(q) \/ bindEvm(q) \/ claimPermit(q) \/ resolveDuplicate(q)
    \/ broadcastAct(q) \/ recordAct(q) \/ receiptEvm(q) \/ resolveAct(q) \/ resendAct(q)
    \/ fallback(q) \/ confirmActivation(q) \/ verifyDeployment(q) \/ confirmFirst(q) \/ finish(q)
    \/ relayExecute(q) \/ revert(q)

ActNext ==
    \/ ensureAccount \/ ensureEvmRows \/ pollRead \/ pollWrite \/ Crash \/ ActTick
    \/ \E q \in Servers : StepAct(q) \/
          \E i \in Grants : activate(q, i) \/ activateEvm(q, i) \/ firstAction(q, i)
    \/ \E k \in Claimants : Deposit(k)
    \/ \E t \in 1..Len(sends) : LandAct(t) \/ LoseAct(t)

ActSpec == ActInit /\ [][ActNext]_actVars

---------------------------------------------------------------------------
\* Properties

\* The API never calls an account active, nor an activation or a first spend
\* done, that the chain does not have: whatever answers were lost, requests
\* repeated or crossed by the poll, or made under two passkeys.
ActiveIsOnChain ==
    /\ row.status = "active" => \E k \in Claimants : vault[k].live
    /\ \A p \in PermitKeys : permits[p].status \in {"confirmed", "resolved-landed"} =>
          IF p[2] = "activate" THEN vault[Terms[permits[p].hash].key].live
                               ELSE \E k \in Claimants : vault[k].nonce > 0
=============================================================================
