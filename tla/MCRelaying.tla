----------------------------- MODULE MCRelaying -----------------------------
(***************************************************************************)
(* For TLC, side by side (a behaviour is one part's, chosen at the start:  *)
(* the parts share no state): the relayer; the activation of accounts; and *)
(* on the browser's side its cookies and the login windows.                *)
(*                                                                         *)
(* g activates with the newer passkey c2, h with the older one; f is the   *)
(* first action of the older one and too large for one packet.             *)
(***************************************************************************)
EXTENDS MCRelayer, Activation, CookieJar, LoginWindow

CONSTANTS f, g, h, c1, c2, ann, bob

MCTerms ==
    [i \in Grants |-> [first |-> i = f, key |-> IF i = g THEN c2 ELSE c1,
                       expiry |-> IF i = g THEN 1 ELSE 2]]

\* The vault of c2 is funded, that of c1 not yet.
MCEndow == [k \in Claimants |-> IF k = c1 THEN 1 ELSE 2]

\* A popup for a session that has a redirect_uri too, one that asks for the login
\* only, and SSO.
Opening(m, k, r) == [mode |-> m, kind |-> k, back |-> r]
MCOpenings == {Opening("popup", "session", TRUE), Opening("popup", "signin", FALSE),
               Opening("redirect", "code", TRUE)}

VARIABLE part

browserVars == <<jarVars, loginVars>>
relayingVars == <<relayVars, actVars, browserVars, part>>

\* A rotation is signed again, or races with a withdrawal, or with one that k2
\* signed; an execute is retried.
Asked == [resigned |-> {a, b}, rotating |-> {a, w}, executing |-> {x}, misSigned |-> {a, y}]

RelayingInit ==
    /\ RelayInit /\ ActInit /\ JarInit /\ LoginInit
    /\ part \in DOMAIN Asked \cup {"activation", "cookies", "login"}
    /\ part # "activation" => net = "svm"
    /\ part # "login" => known = {}

RelayingNext ==
    /\ UNCHANGED part
    /\ \/ /\ part \in DOMAIN Asked
          /\ RelayNext /\ \A q \in Workers : work'[q].i \in Asked[part] \cup {NoIntent}
          /\ UNCHANGED <<actVars, browserVars>>
       \/ part = "activation" /\ ActNext /\ UNCHANGED <<relayVars, browserVars>>
       \/ part = "cookies" /\ JarNext /\ UNCHANGED <<relayVars, actVars, loginVars>>
       \/ part = "login" /\ LoginNext /\ UNCHANGED <<relayVars, actVars, jarVars>>

RelayingSpec == RelayingInit /\ [][RelayingNext]_relayingVars
=============================================================================
