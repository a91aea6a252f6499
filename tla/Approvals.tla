----------------------------- MODULE Approvals -----------------------------
(***************************************************************************)
(* A page that may not sign asks for it in a popup on the wallet's origin  *)
(* (popup.ts, client.ts): READY, REQUEST, RESULT.  The popup approves as   *)
(* the account the page names, switches this browser's wallet to it for    *)
(* the time, and switches back (usePopupRequest.ts).  The cookies that say *)
(* whose wallet it is are shared by all its windows, and each window keeps *)
(* the list of accounts it read for a while (internal/cache.ts).           *)
(*                                                                         *)
(* Windows of one name are one window: a page's second request navigates   *)
(* the popup of its first, and both listeners hear what the popup says.    *)
(***************************************************************************)
EXTENDS Integers, Sequences, SequencesExt

CONSTANTS
    Accounts, Pages, Asks,
    Offers,         \* what the pages may ask: page, account named (or NoAccount), kind
    NoAccount,
    MaxTroubles,    \* bound: calls that fail, answers lost, pages and windows closed
    MaxChoices,     \* bound: accounts chosen in the wallet's own tab
    MaxApprovals    \* bound: a request's approvals

OfferKinds == {"wallet", "fiat", "invalid"}

ASSUME ApprovalConstants ==
    /\ NoAccount \notin Accounts
    /\ Offers \subseteq [page : Pages, named : Accounts \cup {NoAccount}, kind : OfferKinds]

VARIABLES
    account,        \* whose the wallet is here: the account of pid_refresh
    held,           \* accounts signed in here
    ask,            \* each request of a page
    heard,          \* the page's listeners that still wait, oldest first
    popup,          \* the page's popup
    sent,           \* executions sent and not served
    ran,            \* executions served
    approved,       \* times the user approved
    chosen,         \* the account the user last chose
    strayed,        \* a switch could not be undone in order
    shared,         \* requests that waited for one popup together
    absent,         \* pages that are gone
    troubles, choices

approvalVars == <<account, held, ask, heard, popup, sent, ran, approved, chosen,
                  strayed, shared, absent, troubles, choices>>
walletVars == <<account, held, chosen, choices>>
pageVars == <<ask, heard, shared, absent>>
runVars == <<sent, ran, approved>>

\* list: the active account of the list read last; moved: another window has
\* changed it since; back: whom to switch back to; drawn: whose the inquiry is.
Shut == [at |-> "shut", ask |-> NoAccount, list |-> NoAccount, moved |-> FALSE, seen |-> NoAccount,
         as |-> NoAccount, back |-> NoAccount, drawn |-> NoAccount, fate |-> NoAccount]

ApprovalInit ==
    /\ account \in Accounts /\ held = Accounts /\ chosen = account
    /\ ask = [r \in Asks |-> [is |-> "new", offer |-> NoAccount, as |-> NoAccount]]
    /\ heard = [d \in Pages |-> <<>>] /\ popup = [d \in Pages |-> Shut]
    /\ sent = [r \in Asks |-> <<>>] /\ ran = [r \in Asks |-> <<>>] /\ approved = [r \in Asks |-> 0]
    /\ strayed = FALSE /\ shared = {} /\ absent = {} /\ troubles = 0 /\ choices = 0

Trouble == troubles < MaxTroubles /\ troubles' = troubles + 1
Smooth == UNCHANGED troubles

Goes(d, w) == popup' = [popup EXCEPT ![d] = w]
Put(d, at) == [popup[d] EXCEPT !.at = at]
offer(d) == ask[popup[d].ask].offer
Owes(d) == popup[d].back # NoAccount \/ popup[d].at = "check"
Lent == \E d \in Pages : Owes(d)

\* The account changes by window d (NoAccount: by the wallet's own tab): the others
\* have not heard of it yet.
Become(p, d, w) ==
    /\ account' = p
    /\ popup' = [e \in Pages |-> IF e = d THEN w
                  ELSE [popup[e] EXCEPT !.moved = popup[e].at # "shut"]]

\* clearCache's ping to the other windows arrives.
ping(d) ==
    /\ popup[d].moved /\ popup[d].list # NoAccount /\ Goes(d, [popup[d] EXCEPT !.list = NoAccount])
    /\ UNCHANGED <<walletVars, pageVars, runVars, strayed, troubles>>

---------------------------------------------------------------------------
\* The page

\* The popup there is is navigated; its sessionStorage stays.
openPeridotPopup(r, o) ==
    LET d == o.page
    IN  /\ ask[r].is = "new" /\ d \notin absent
        /\ ask' = [ask EXCEPT ![r] = [is |-> "open", offer |-> o, as |-> NoAccount]]
        /\ heard' = [heard EXCEPT ![d] = Append(@, r)]
        /\ shared' = IF heard[d] = <<>> THEN shared ELSE shared \cup ToSet(heard'[d])
        /\ Goes(d, [Shut EXCEPT !.at = "loading", !.list = popup[d].list, !.moved = popup[d].moved])
        /\ strayed' = (strayed \/ Owes(d))
        /\ UNCHANGED <<walletVars, runVars, absent, troubles>>

Settle(rs, answers) ==
    ask' = [r \in Asks |-> IF r \in rs THEN [ask[r] EXCEPT !.is = answers.is, !.as = answers.as] ELSE ask[r]]
Gone == [is |-> "gone", as |-> NoAccount]

\* The opener's timer: the popup goes on.
expire(r) ==
    /\ ask[r].is = "open" /\ Trouble /\ Settle({r}, Gone)
    /\ heard' = [heard EXCEPT ![ask[r].offer.page] = SelectSeq(@, LAMBDA q : q # r)]
    /\ UNCHANGED <<walletVars, runVars, popup, strayed, shared, absent>>

close(d) ==
    /\ popup[d].at # "shut" /\ Trouble /\ Goes(d, Shut)
    /\ Settle(ToSet(heard[d]), Gone) /\ heard' = [heard EXCEPT ![d] = <<>>]
    /\ strayed' = (strayed \/ Owes(d))
    /\ UNCHANGED <<walletVars, runVars, shared, absent>>

leave(d) ==
    /\ d \notin absent /\ Trouble /\ absent' = absent \cup {d}
    /\ Settle(ToSet(heard[d]), Gone) /\ heard' = [heard EXCEPT ![d] = <<>>]
    /\ UNCHANGED <<walletVars, runVars, popup, strayed, shared>>

---------------------------------------------------------------------------
\* The popup

Window(d, w) == Goes(d, w) /\ UNCHANGED <<walletVars, pageVars, runVars>>
Login(d) == [Shut EXCEPT !.at = "login", !.list = popup[d].list, !.moved = popup[d].moved]
needAuth(d) == Window(d, Login(d)) /\ strayed' = (strayed \/ Owes(d))
Keeps(d, w) == Window(d, w) /\ UNCHANGED strayed

bootstrap(d) ==
    /\ popup[d].at = "loading"
    /\ \/ Keeps(d, Put(d, "waiting")) /\ Smooth
       \/ account = NoAccount /\ needAuth(d) /\ Smooth
       \/ needAuth(d) /\ Trouble

\* Signing in here starts the handshake anew.
signIn(d, p) ==
    /\ popup[d].at = "login" /\ Become(p, d, [Shut EXCEPT !.at = "waiting"])
    /\ held' = held \cup {p} /\ chosen' = p /\ strayed' = (strayed \/ Lent)
    /\ UNCHANGED <<pageVars, runVars, troubles, choices>>

\* READY, and the first REQUEST that answers it; or none does.
awaitPopupRequest(d) ==
    /\ popup[d].at = "waiting"
    /\ Keeps(d, IF heard[d] = <<>> THEN Put(d, "failed")
                ELSE [Put(d, "look") EXCEPT !.ask = Head(heard[d])])
    /\ Smooth

\* auth.accounts: the server's list, or the one read lately.
Lists(d) ==
    {[popup[d] EXCEPT !.list = account, !.moved = FALSE]}
    \cup (IF popup[d].list = NoAccount THEN {} ELSE {popup[d]})

\* Whose wallet is it?
activePid(d) ==
    /\ popup[d].at = "look"
    /\ LET e == offer(d).named
           Seen(w) ==
             CASE e \in {NoAccount, w.list} -> Keeps(d, [w EXCEPT !.at = "prepare", !.as = w.list])
               [] e # NoAccount /\ w.list = NoAccount -> needAuth(d)
               [] OTHER -> Keeps(d, [w EXCEPT !.at = "switch", !.seen = w.list])
       IN  \/ Smooth /\ \E w \in Lists(d) : Seen(w)
           \/ Trouble /\ e = NoAccount /\ Keeps(d, Put(d, "prepare"))
           \/ Trouble /\ e # NoAccount /\ needAuth(d)

\* Out of order: a switch on a list that is out of date, or on a borrowed account.
Crossed(d) == popup[d].moved \/ \E e \in Pages \ {d} : Owes(e)

bindAccount(d) ==
    /\ popup[d].at = "switch"
    /\ LET e == offer(d).named
       IN  \/ /\ e \in held /\ Smooth
              /\ Become(e, d, [Put(d, "check") EXCEPT !.list = NoAccount, !.moved = FALSE])
              /\ strayed' = (strayed \/ Crossed(d))
              /\ UNCHANGED <<held, chosen, choices, pageVars, runVars>>
           \/ /\ (e \notin held /\ Smooth) \/ Trouble
              /\ Keeps(d, Put(d, "failed"))

checkBound(d) ==
    /\ popup[d].at = "check"
    /\ LET e == offer(d).named
       IN  \/ /\ Smooth
              /\ \E w \in Lists(d) :
                   IF w.list = e
                   THEN Keeps(d, [w EXCEPT !.at = "prepare", !.back = popup[d].seen, !.as = e])
                   ELSE Window(d, [w EXCEPT !.at = "failed"]) /\ strayed' = TRUE
           \/ Trouble /\ Window(d, Put(d, "failed")) /\ strayed' = TRUE

\* What Approve will show is drawn for the account of the moment.
Inquiry(d) == [Put(d, "review") EXCEPT !.drawn = account]

\* A session error is followed by one refresh and one more try, or by a login.
prepare(d) ==
    /\ popup[d].at = "prepare"
    /\ LET fiat == offer(d).kind = "fiat"
       IN  \/ ~fiat /\ Smooth /\ Keeps(d, Put(d, "review"))
           \/ fiat /\ account # NoAccount /\ Smooth /\ Keeps(d, Inquiry(d))
           \/ fiat /\ account = NoAccount /\ Smooth /\ needAuth(d)
           \/ fiat /\ Trouble /\ (needAuth(d) \/ Keeps(d, Put(d, "failed")))

Send(d) == sent' = [sent EXCEPT ![popup[d].ask] =
                      Append(@, [as |-> account, moved |-> popup[d].moved, drawn |-> popup[d].drawn])]

\* A malformed call cannot be approved; one to an unknown program takes a tick.
Malformed(d) == offer(d).kind = "invalid"
Approvable(d) == popup[d].at = "review" /\ ~Malformed(d)

approveRequest(d) ==
    /\ Approvable(d) /\ approved[popup[d].ask] < MaxApprovals
    /\ approved' = [approved EXCEPT ![popup[d].ask] = @ + 1]
    /\ Send(d) /\ Goes(d, Put(d, "busy"))
    /\ UNCHANGED <<walletVars, pageVars, ran, strayed, troubles>>

deny(d) ==
    /\ popup[d].at \in {"review", "failed"}
    /\ Keeps(d, [Put(d, "restore") EXCEPT !.fate = "denied"]) /\ Smooth

\* The window that waits for the i-th execution sent of r.
Waits(r, i) == {d \in Pages : popup[d].at = "busy" /\ popup[d].ask = r /\ i = Len(sent[r])}

\* A failure is posted, and nothing is restored; or there is no opener to tell.
Fails(r, i) ==
    /\ popup' = [d \in Pages |-> IF d \notin Waits(r, i) THEN popup[d]
                  ELSE IF d \in absent THEN Put(d, "review")
                  ELSE [Put(d, "post") EXCEPT !.fate = "failed", !.back = NoAccount]]
    /\ strayed' = (strayed \/ \E d \in Waits(r, i) \ absent : Owes(d))

serve(r, i) ==
    LET s == sent[r][i]
    IN  /\ s.as # NoAccount /\ s.drawn \in {NoAccount, s.as}
        /\ ran' = [ran EXCEPT ![r] = Append(@, s)] /\ sent' = [sent EXCEPT ![r] = RemoveAt(@, i)]
        /\ \/ /\ popup' = [d \in Pages |-> IF d \in Waits(r, i)
                             THEN [Put(d, "restore") EXCEPT !.fate = "ok"] ELSE popup[d]]
              /\ Smooth /\ UNCHANGED strayed
           \/ Waits(r, i) # {} /\ Trouble /\ Fails(r, i)
        /\ UNCHANGED <<walletVars, pageVars, approved>>

\* Refused.  If for the session: refreshed and sent once more, or sign in.
refuse(r, i) ==
    LET s == sent[r][i]
    IN  /\ UNCHANGED <<walletVars, pageVars, ran, approved>>
        /\ \/ /\ Trouble \/ ((s.as = NoAccount \/ s.drawn \notin {NoAccount, s.as}) /\ Smooth)
              /\ sent' = [sent EXCEPT ![r] = RemoveAt(@, i)] /\ Fails(r, i)
           \/ /\ Trouble \/ (s.as = NoAccount /\ Smooth)
              /\ \E d \in Waits(r, i) : Goes(d, Login(d)) /\ strayed' = (strayed \/ Owes(d))
              /\ sent' = [sent EXCEPT ![r] = RemoveAt(@, i)]
           \/ /\ Trouble /\ account # NoAccount
              /\ \E d \in Waits(r, i) :
                   sent' = [sent EXCEPT ![r] = [@ EXCEPT ![i] =
                              [as |-> account, moved |-> popup[d].moved, drawn |-> popup[d].drawn]]]
              /\ UNCHANGED <<popup, strayed>>

\* Mutant of restore: the wallet stays where it is.
restoreNothing(d) ==
    /\ popup[d].at = "restore" /\ Keeps(d, [Put(d, "post") EXCEPT !.back = NoAccount]) /\ Smooth

\* The wallet goes back to the account it was found on.
restore(d) ==
    /\ popup[d].at = "restore"
    /\ LET p == popup[d].back
           done == [Put(d, "post") EXCEPT !.back = NoAccount]
       IN  \/ p = NoAccount /\ Smooth /\ Keeps(d, done)
           \/ /\ p \in held /\ Smooth
              /\ Become(p, d, [done EXCEPT !.list = NoAccount, !.moved = FALSE])
              /\ strayed' = (strayed \/ Crossed(d))
              /\ UNCHANGED <<held, chosen, choices, pageVars, runVars>>
           \/ /\ p # NoAccount /\ ((p \notin held /\ Smooth) \/ Trouble)
              /\ Window(d, done) /\ strayed' = TRUE

\* RESULT: every listener of the page takes it, unless its poll first finds the
\* window closed.
postPopupResult(d) ==
    /\ popup[d].at = "post" /\ Goes(d, Shut) /\ heard' = [heard EXCEPT ![d] = <<>>]
    /\ \/ /\ Smooth
          /\ Settle(ToSet(heard[d]),
                    [is |-> popup[d].fate, as |-> IF popup[d].fate = "ok" THEN popup[d].as ELSE NoAccount])
       \/ heard[d] # <<>> /\ Settle(ToSet(heard[d]), Gone) /\ Trouble
    /\ UNCHANGED <<walletVars, runVars, strayed, shared, absent>>

---------------------------------------------------------------------------
\* The wallet's own tab: Profile, Login.
Choice == choices < MaxChoices /\ choices' = choices + 1

choose(p) ==
    /\ Choice /\ p # account /\ Become(p, NoAccount, Shut)
    /\ held' = held \cup {p} /\ chosen' = p /\ strayed' = (strayed \/ Lent)
    /\ UNCHANGED <<pageVars, runVars, troubles>>

signOut(p) ==
    /\ Choice /\ p \in held /\ held' = held \ {p}
    /\ IF p = account THEN Become(NoAccount, NoAccount, Shut) /\ chosen' = NoAccount
       ELSE UNCHANGED <<account, popup, chosen>>
    /\ strayed' = (strayed \/ Lent)
    /\ UNCHANGED <<pageVars, runVars, troubles>>

ApprovalNext ==
    \/ \E r \in Asks :
         \/ (\E o \in Offers : openPeridotPopup(r, o) /\ UNCHANGED choices) \/ expire(r)
         \/ \E i \in DOMAIN sent[r] : serve(r, i) \/ refuse(r, i)
    \/ \E d \in Pages :
         \/ ping(d) \/ close(d) \/ leave(d)
         \/ bootstrap(d) \/ awaitPopupRequest(d) \/ activePid(d) \/ bindAccount(d) \/ checkBound(d)
         \/ prepare(d) \/ approveRequest(d) \/ deny(d) \/ restore(d) \/ postPopupResult(d)
    \/ \E p \in Accounts : choose(p) \/ signOut(p) \/ \E d \in Pages : signIn(d, p)

ApprovalSpec == ApprovalInit /\ [][ApprovalNext]_approvalVars

---------------------------------------------------------------------------
\* Properties

\* An execution is of the account the page named, unless another window changed
\* the account after this one had last read whose it is; a transfer is of whom its
\* inquiry was drawn for.
ApprovedAs ==
    \A r \in Asks : \A i \in DOMAIN ran[r] :
        /\ ~ran[r][i].moved => ran[r][i].as = ask[r].offer.named \/ ask[r].offer.named = NoAccount
        /\ ask[r].offer.kind = "fiat" => ran[r][i].as = ran[r][i].drawn

\* Each approval is carried out at most once.
ApprovedOnce == \A r \in Asks : Len(ran[r]) + Len(sent[r]) <= approved[r]

\* What the page is told is so, unless several of its requests waited for one
\* popup: approved is carried out, once, as the account it is told; denied never.
ResultsTold ==
    \A r \in Asks \ shared :
        /\ ask[r].is = "ok" => Len(ran[r]) = 1 /\ (ran[r][1].moved \/ ask[r].as \in {ran[r][1].as, NoAccount})
        /\ ask[r].is = "denied" => ran[r] = <<>> /\ sent[r] = <<>>

\* The wallet stays on the account its user chose, but for a popup that will
\* switch back.
WalletAsFound == strayed \/ account = chosen \/ Lent

\* A popup keeps its word to the user, the page and the wallet.
ApprovalsHonoured == ApprovedAs /\ ApprovedOnce /\ ResultsTold /\ WalletAsFound
===========================================================================
