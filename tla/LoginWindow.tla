---------------------------- MODULE LoginWindow ----------------------------
(***************************************************************************)
(* "Sign in with PeridotID": the login page a dapp opens in a popup or a   *)
(* tab (popupLogin.ts, Login.tsx and its hooks), or sends the browser to   *)
(* and gets it back from with a code (sso.ts).  A session there is when    *)
(* the page opens waits for Allow; one made in the page by an explicit     *)
(* login is handed over without asking again.  The page can make the       *)
(* wallet's other account the active one, and so can the wallet's tabs:    *)
(* the cookies are the same.                                               *)
(***************************************************************************)
EXTENDS Integers, Sequences

CONSTANTS
    Users,          \* pids
    Unborn,         \* those to be claimed yet
    Windows,
    Openings,       \* how dapps open it: mode, what they want, redirect_uri or none
    NoUser,
    MaxMishaps,     \* bound: calls that fail, answers lost, pages closed
    MaxSwitches     \* bound: accounts chosen in the wallet's own tab
                    \* and requests a window makes

ASSUME LoginConstants ==
    /\ Unborn \subseteq Users /\ NoUser \notin Users
    /\ Openings \subseteq [mode : {"popup", "redirect", "ticket"}, kind : {"code", "session", "signin"},
                           back : BOOLEAN]

VARIABLES
    active,         \* the account of the session's cookies
    known,          \* accounts signed in here
    ticket,         \* whose claim is pending here
    born,           \* identities there are
    win,            \* each window's page
    opener,         \* the page that opened it
    told,           \* what the dapp was told: codes, sessions, denials
    minted,         \* the codes and app sessions made in the window
    acted,          \* times the user pressed Allow, logged in or claimed a PID in it
    mishaps, switches

loginVars == <<active, known, ticket, born, win, opener, told, minted, acted, mishaps, switches>>
hereVars == <<active, known, ticket, born>>
appVars == <<opener, told, minted>>

\* session: whose, in the label the user sees; meant: whom a request is for;
\* moved: another window has changed the active account since.
Page(o) == [for |-> o, session |-> "checking", claim |-> "checking", hadSessionAtOpen |-> "unknown",
            showLogin |-> FALSE, delivered |-> FALSE, picker |-> NoUser, finished |-> FALSE,
            busy |-> "no", as |-> NoUser, meant |-> NoUser, moved |-> FALSE]
NoPage == [Page(NoUser) EXCEPT !.busy = "shut"]

LoginInit ==
    /\ born = Users \ Unborn /\ known \in SUBSET born /\ active \in known \cup {NoUser} /\ ticket = NoUser
    /\ win = [w \in Windows |-> NoPage] /\ opener = [w \in Windows |-> "none"]
    /\ told = [w \in Windows |-> <<>>] /\ minted = [w \in Windows |-> <<>>] /\ acted = [w \in Windows |-> 0]
    /\ mishaps = 0 /\ switches = 0

Mishap == mishaps < MaxMishaps /\ mishaps' = mishaps + 1
NoMishap == UNCHANGED mishaps

\* What the page shows (Login.tsx).  A dapp's consent card comes before the picker.
Screen(w) ==
    LET p == win[w]
        redirect == p.for.mode = "redirect"
        consent == p.session # NoUser /\ ~p.showLogin
    IN  CASE p.busy \in {"shut", "google"} -> p.busy
          [] OTHER ->
             IF "checking" \in {p.session, p.claim} THEN "loading"
             ELSE IF p.claim = "pending" THEN "claim"
             ELSE IF p.for.mode = "ticket" THEN "home"
             ELSE IF redirect /\ consent THEN "consent"
             ELSE IF p.finished THEN "finished"
             ELSE IF p.session # NoUser /\ p.picker # NoUser THEN "picker"
             ELSE IF consent THEN "consent" ELSE "form"

Ready(w, screen) == Screen(w) = screen /\ win[w].busy = "no"
Turns(w, p) == win' = [win EXCEPT ![w] = p]
Acts(w) == acted[w] < MaxSwitches /\ acted' = [acted EXCEPT ![w] = @ + 1]

\* Mutant of Rendered: whether the session was there when the page opened is not asked.
RenderedSilently(p) ==
    IF p.for.mode = "popup" /\ p.session \in Users /\ p.claim = "none" /\ ~p.delivered
    THEN [p EXCEPT !.delivered = TRUE, !.busy = "deliver", !.meant = p.session] ELSE p

\* useLoginSession's effect, after each render: a session that was not there when
\* the page opened, or was asked for anew, is handed over.
Rendered(p) ==
    IF /\ p.for.mode = "popup" /\ p.session \in Users /\ p.claim = "none" /\ ~p.delivered
       /\ ~(p.hadSessionAtOpen = "yes" /\ ~p.showLogin)
    THEN [p EXCEPT !.delivered = TRUE, !.busy = "deliver", !.meant = p.session] ELSE p

\* The active account changes by w's page, or (NoUser) by the wallet's own tab.
Becomes(u, w, p) ==
    /\ active' = u
    /\ win' = [v \in Windows |-> IF v = w THEN p ELSE [win[v] EXCEPT !.moved = win[v].busy # "shut"]]

---------------------------------------------------------------------------
openLogin(w, o) ==
    /\ opener[w] = "none" /\ opener' = [opener EXCEPT ![w] = IF o.mode = "popup" THEN "listening" ELSE "left"]
    /\ Turns(w, Page(o))
    /\ UNCHANGED <<hereVars, told, minted, acted, mishaps, switches>>

\* The session check on mount, and the claim check.
checkSession(w) ==
    /\ win[w].busy = "no" /\ win[w].session = "checking"
    /\ LET p == [win[w] EXCEPT !.session = active, !.moved = FALSE,
                               !.hadSessionAtOpen = IF active = NoUser THEN "no" ELSE "yes"]
       IN  \/ NoMishap /\ Turns(w, Rendered(p))
           \/ Mishap /\ Turns(w, [win[w] EXCEPT !.session = NoUser])
    /\ UNCHANGED <<hereVars, appVars, acted, switches>>

claimStatus(w) ==
    /\ win[w].busy = "no" /\ win[w].claim = "checking"
    /\ \/ NoMishap /\ Turns(w, Rendered([win[w] EXCEPT !.claim = IF ticket = NoUser THEN "none" ELSE "pending"]))
       \/ Mishap /\ Turns(w, Rendered([win[w] EXCEPT !.claim = "none"]))
    /\ UNCHANGED <<hereVars, appVars, acted, switches>>

\* deliverLoginResult: to the opener, and the window closes; with none, to
\* redirect_uri; else the page stays, as p.
deliverLoginResult(w, result, p) ==
    LET heard == opener[w] = "listening" \/ (opener[w] = "left" /\ win[w].for.back)
    IN  /\ told' = [told EXCEPT ![w] = IF heard THEN Append(@, result) ELSE @]
        /\ opener' = [opener EXCEPT ![w] = IF @ = "listening" THEN "deaf" ELSE @]
        /\ Turns(w, IF heard \/ opener[w] = "deaf" THEN NoPage ELSE p)

Minted(w, u, meant) == minted' = [minted EXCEPT ![w] = Append(@, [as |-> u, meant |-> meant, moved |-> win[w].moved])]
Told(ok, u) == [ok |-> ok, as |-> u]

\* allowApp, allowCtx: the request leaves with the cookies of the moment.
allow(w) ==
    /\ Ready(w, "consent") /\ Acts(w)
    /\ win[w].for.mode = "popup" => ~win[w].delivered
    /\ Turns(w, [win[w] EXCEPT !.delivered = win[w].for.mode = "popup", !.busy = "mint", !.as = active,
                               !.meant = win[w].session])
    /\ UNCHANGED <<hereVars, appVars, mishaps, switches>>

\* deliverLoginCode after a login or a claim in the page.
deliverLoginCode(w) ==
    /\ win[w].busy = "deliver"
    /\ Turns(w, [win[w] EXCEPT !.busy = "mint", !.as = active])
    /\ UNCHANGED <<hereVars, appVars, acted, mishaps, switches>>

\* authorize, grantSession; a first-party opener without a session of its own
\* needs neither.
mint(w) ==
    LET p == win[w]
        over == [p EXCEPT !.busy = "no", !.finished = p.claim # "pending"]
        again == [p EXCEPT !.busy = "no", !.delivered = Screen(w) # "consent"]
    IN  /\ p.busy = "mint"
        /\ \/ p.for.kind = "signin" /\ NoMishap /\ deliverLoginResult(w, Told(TRUE, NoUser), over) /\ UNCHANGED minted
           \/ /\ p.for.kind # "signin" /\ p.as # NoUser /\ NoMishap
              /\ Minted(w, p.as, p.meant) /\ deliverLoginResult(w, Told(TRUE, p.as), over)
           \/ /\ p.for.kind # "signin" /\ p.as # NoUser /\ Mishap
              /\ Minted(w, p.as, p.meant) /\ Turns(w, again) /\ UNCHANGED <<opener, told>>
           \/ /\ p.for.kind # "signin" /\ (IF p.as = NoUser THEN NoMishap ELSE Mishap) /\ UNCHANGED minted
              /\ IF p.for.kind = "session" THEN deliverLoginResult(w, Told(FALSE, NoUser), again)
                 ELSE Turns(w, again) /\ UNCHANGED <<opener, told>>
        /\ UNCHANGED <<hereVars, acted, switches>>

\* denyApp.
denyApp(w) ==
    /\ Ready(w, "consent")
    /\ deliverLoginResult(w, Told(FALSE, NoUser), [win[w] EXCEPT !.finished = TRUE])
    /\ UNCHANGED <<hereVars, minted, acted, mishaps, switches>>

---------------------------------------------------------------------------
\* "Use a different account": one that is signed in here, or a new login.

loginAnew(w) == Turns(w, [win[w] EXCEPT !.delivered = FALSE, !.session = NoUser, !.showLogin = TRUE, !.picker = NoUser])

useDifferentCtx(w) ==
    /\ Ready(w, "consent")
    /\ \/ active # NoUser /\ NoMishap /\ Turns(w, [win[w] EXCEPT !.picker = active])
       \/ (IF active = NoUser THEN NoMishap ELSE Mishap) /\ loginAnew(w)
    /\ UNCHANGED <<hereVars, appVars, acted, switches>>

pickAccount(w, u) ==
    /\ Ready(w, "picker") /\ u # win[w].picker /\ u \in known
    /\ Becomes(u, w, Rendered([win[w] EXCEPT !.delivered = FALSE, !.picker = NoUser, !.showLogin = FALSE,
                                             !.session = u, !.moved = FALSE]))
    /\ UNCHANGED <<known, ticket, born, appVars, acted, mishaps, switches>>

addAccountCtx(w) ==
    /\ Ready(w, "picker")
    /\ loginAnew(w) \/ Turns(w, [win[w] EXCEPT !.picker = NoUser])
    /\ UNCHANGED <<hereVars, appVars, acted, mishaps, switches>>

---------------------------------------------------------------------------
\* Logins in the page

\* u is signed in; in redirect mode the server has minted the code with it.
Enters(w, u) ==
    /\ known' = known \cup {u}
    /\ IF win[w].for.mode # "popup"
       THEN /\ Becomes(u, w, NoPage) /\ Minted(w, u, u)
            /\ told' = [told EXCEPT ![w] = Append(@, Told(TRUE, u))] /\ UNCHANGED opener
       ELSE /\ Becomes(u, w, [win[w] EXCEPT !.delivered = TRUE, !.busy = "deliver", !.meant = u, !.moved = FALSE])
            /\ UNCHANGED appVars

\* A passkey, or a code sent by e-mail; someone new gets a claim.
signInHere(w, u) ==
    /\ Ready(w, "form") /\ Acts(w)
    /\ \/ u \in born /\ Enters(w, u) /\ UNCHANGED <<ticket, born>> /\ NoMishap
       \/ /\ u \notin born /\ ticket' = u
          /\ \/ Turns(w, [win[w] EXCEPT !.claim = "pending"]) /\ NoMishap
             \/ Turns(w, [win[w] EXCEPT !.claim = "none"]) /\ Mishap
          /\ UNCHANGED <<active, known, born, appVars>>
    /\ UNCHANGED switches

continueWithGoogle(w) ==
    /\ Ready(w, "form") /\ Turns(w, [win[w] EXCEPT !.busy = "google"])
    /\ UNCHANGED <<hereVars, appVars, acted, mishaps, switches>>

\* Back from Google, on a page that starts anew: the session is there when it
\* opens.  In redirect mode the browser is with the dapp already, or its code
\* waits for the claim.
backFromGoogle(w, u) ==
    /\ win[w].busy = "google"
    /\ LET o == win[w].for
       IN  \/ /\ u \in born /\ o.mode = "redirect" /\ Acts(w) /\ Enters(w, u)
              /\ UNCHANGED <<ticket, born>> /\ NoMishap
           \/ /\ u \in born /\ o.mode = "popup" /\ known' = known \cup {u} /\ Becomes(u, w, Page(o))
              /\ UNCHANGED <<ticket, born, appVars, acted>> /\ NoMishap
           \/ /\ u \notin born /\ ticket' = u /\ NoMishap
              /\ Turns(w, IF o.mode = "popup" THEN Page(o)
                          ELSE [Page([o EXCEPT !.mode = "ticket"]) EXCEPT !.session = NoUser])
              /\ UNCHANGED <<active, known, born, appVars, acted>>
           \/ /\ Mishap /\ Turns(w, Page(o)) /\ UNCHANGED <<hereVars, appVars, acted>>
    /\ UNCHANGED switches

\* The ticket's PID is made, and the session with it.
claimPid(w) ==
    /\ Ready(w, "claim") /\ Acts(w)
    /\ \/ /\ ticket # NoUser /\ born' = born \cup {ticket} /\ ticket' = NoUser
          /\ \/ Enters(w, ticket) /\ NoMishap
             \/ UNCHANGED <<active, known, win, appVars>> /\ Mishap
       \/ UNCHANGED <<hereVars, win, appVars>> /\ (IF ticket = NoUser THEN NoMishap ELSE Mishap)
    /\ UNCHANGED switches

\* Abandoned, whether the ticket could be withdrawn or not.
claimSignOut(w) ==
    /\ Ready(w, "claim")
    /\ \/ ticket' = NoUser /\ NoMishap
       \/ UNCHANGED ticket /\ Mishap
    /\ LET p == Rendered([win[w] EXCEPT !.claim = "none"])
       IN  IF p.for.mode = "popup" THEN deliverLoginResult(w, Told(FALSE, NoUser), p)
           ELSE Turns(w, p) /\ UNCHANGED <<opener, told>>
    /\ UNCHANGED <<active, known, born, minted, acted, switches>>

---------------------------------------------------------------------------
\* Elsewhere: the opener's five minutes are over, the window or the opener is
\* closed; the wallet's own tab changes the account.

giveUp(w) ==
    /\ win[w].busy # "shut" /\ Mishap
    /\ \/ opener[w] = "listening" /\ opener' = [opener EXCEPT ![w] = "deaf"] /\ UNCHANGED win
       \/ win[w].for.mode = "popup" /\ opener[w] # "left" /\ opener' = [opener EXCEPT ![w] = "left"] /\ UNCHANGED win
       \/ opener' = [opener EXCEPT ![w] = "deaf"] /\ Turns(w, NoPage)
    /\ UNCHANGED <<hereVars, told, minted, acted, switches>>

chooseInTab(u) ==
    /\ switches < MaxSwitches /\ switches' = switches + 1
    /\ \/ u \in born /\ u # active /\ known' = known \cup {u} /\ Becomes(u, NoUser, NoPage)
       \/ u \in known /\ u = active /\ known' = known \ {u} /\ Becomes(NoUser, NoUser, NoPage)
    /\ UNCHANGED <<ticket, born, appVars, acted, mishaps>>

LoginNext ==
    \/ \E w \in Windows :
         \/ \E o \in Openings : openLogin(w, o)
         \/ checkSession(w) \/ claimStatus(w) \/ allow(w) \/ deliverLoginCode(w) \/ mint(w) \/ denyApp(w)
         \/ useDifferentCtx(w) \/ addAccountCtx(w) \/ continueWithGoogle(w) \/ claimPid(w) \/ claimSignOut(w)
         \/ giveUp(w)
         \/ \E u \in Users : pickAccount(w, u) \/ signInHere(w, u) \/ backFromGoogle(w, u)
    \/ \E u \in Users : chooseInTab(u)

LoginSpec == LoginInit /\ [][LoginNext]_loginVars

---------------------------------------------------------------------------
\* Properties

\* A code or an app's session is for the account the user allowed or logged in as
\* in that window, unless another window changed the account after this one last
\* knew it.
MintedAsAllowed ==
    \A w \in Windows : \A i \in DOMAIN minted[w] :
        minted[w][i].moved \/ minted[w][i].as = minted[w][i].meant

\* Never silently: each of them answers a press on Allow, a login or a claim made
\* in that window, and the dapp is told of one at most, which was made for it.
NeverSilent ==
    \A w \in Windows :
        /\ Len(minted[w]) <= acted[w]
        /\ Len(told[w]) <= 1
        /\ \A i \in DOMAIN told[w] : told[w][i].as # NoUser => \E k \in DOMAIN minted[w] : minted[w][k].as = told[w][i].as

\* The dapp gets what the user allowed in that window, and nothing else.
OnlyAsAllowed == MintedAsAllowed /\ NeverSilent
===========================================================================
