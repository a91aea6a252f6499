------------------------------ MODULE SignUp ------------------------------
(***************************************************************************)
(* From a verified login to an identity: the e-mail code                   *)
(* (auth/email/email-otp.service.ts), Google's verified profile            *)
(* (google.strategy.ts), the lookup that tells a returning login from a new*)
(* one (auth.service.ts), and the claim of a permanent handle under a      *)
(* ticket (claim.service.ts).                                              *)
(*                                                                         *)
(* The claim's transaction runs under READ COMMITTED: its checks read what *)
(* is committed, its inserts meet the unique indexes when they become      *)
(* visible, so it is a reading and a committing step.  An e-mail address is*)
(* a person and a spelling; indexes and lookups see the person.            *)
(***************************************************************************)
EXTENDS Integers, Sequences, FiniteSets, FiniteSetsExt

CONSTANTS
    Pids,
    Bootstrap,      \* PID_BOOTSTRAP_ADMIN_PID, a subset of Pids
    Logins,         \* login -> its e-mail address
    MaxTickets,     \* bound: tickets minted
    Claimants,      \* requests that claim
    Verifiers,      \* requests that check an e-mail code
    CodeRows,       \* bound: e-mail codes created, oldest first
    OtpMaxAttempts,
    Nothing

ASSUME SignUpConstants ==
    /\ Bootstrap \subseteq Pids /\ Nothing \notin Pids /\ OtpMaxAttempts \in Nat \ {0}
    /\ \A l \in DOMAIN Logins : Logins[l].by \in {"google", "email"}

VARIABLES
    identity,       \* pid -> role, of the pids that exist
    credential,     \* identity_credentials
    ticket,         \* claim_tickets, in the order of their minting
    claiming,       \* each claim's transaction
    bootLock,       \* bootstrap_admin_locks
    otp,            \* the codes sent to the one address of an e-mail login
    verifying       \* each check of a code

signUpVars == <<identity, credential, ticket, claiming, bootLock, otp, verifying>>

Away == [pc |-> "idle"]

SignUpInit ==
    /\ identity = <<>> /\ credential = {} /\ bootLock = Nothing
    /\ claiming = [x \in Claimants |-> Away] /\ verifying = [v \in Verifiers |-> Away]
    /\ otp = <<>> /\ ticket = <<>>

lower(email) == email.person

---------------------------------------------------------------------------
\* The e-mail code

LiveCodes == {i \in DOMAIN otp : otp[i].live}

\* request: at most so many codes in an hour (CodeRows).  The cooldown after a
\* live code is a matter of time, which passes unseen here.
request ==
    /\ Len(otp) < CodeRows
    /\ otp' = Append(otp, [live |-> TRUE, attempts |-> 0])
    /\ UNCHANGED <<identity, credential, ticket, claiming, bootLock, verifying>>

\* The code's lifetime ends.
CodeExpires(i) ==
    /\ otp[i].live /\ otp' = [otp EXCEPT ![i].live = FALSE]
    /\ UNCHANGED <<identity, credential, ticket, claiming, bootLock, verifying>>

\* verify reads the latest live code and compares ...
verify(v, right) ==
    /\ verifying[v] = Away /\ LiveCodes # {}
    /\ LET i == Max(LiveCodes)
       IN  verifying' = [verifying EXCEPT ![v] =
               [pc |-> IF otp[i].attempts >= OtpMaxAttempts THEN "spent" ELSE IF right THEN "right" ELSE "wrong",
                row |-> i, attempts |-> otp[i].attempts + 1]]
    /\ UNCHANGED <<identity, credential, ticket, claiming, bootLock, otp>>

\* ... and writes the row by its id, whatever it has become.
verified(v) ==
    /\ verifying[v].pc \in {"right", "wrong", "spent"}
    /\ LET n == verifying[v].attempts
       IN  otp' = [otp EXCEPT ![verifying[v].row] =
               IF verifying[v].pc = "wrong"
               THEN [live |-> @.live /\ n < OtpMaxAttempts, attempts |-> n]
               ELSE [@ EXCEPT !.live = FALSE]]
    /\ verifying' = [verifying EXCEPT ![v] = IF @.pc = "right" THEN [pc |-> "proved"] ELSE Away]
    /\ UNCHANGED <<identity, credential, ticket, claiming, bootLock>>

---------------------------------------------------------------------------
\* Returning or new

\* findCredentialIdentity, findIdentityByEmail.
Known(l) == \E c \in credential : c.login = l \/ lower(c.email) = lower(Logins[l].email)

\* A login nobody holds gets a ticket; a known one only signs in.
mint(l) ==
    /\ ~Known(l) /\ Len(ticket) < MaxTickets
    /\ ticket' = Append(ticket, [login |-> l, live |-> TRUE])

\* googleCallback with a verified address; an unverified one mints nothing.
googleCallback(l) ==
    /\ Logins[l].by = "google" /\ mint(l)
    /\ UNCHANGED <<identity, credential, claiming, bootLock, otp, verifying>>

emailVerify(v, l) ==
    /\ verifying[v].pc = "proved" /\ Logins[l].by = "email"
    /\ verifying' = [verifying EXCEPT ![v] = Away]
    /\ (IF Known(l) THEN UNCHANGED ticket ELSE mint(l))
    /\ UNCHANGED <<identity, credential, claiming, bootLock, otp>>

\* abandon, or the ticket's end of life.
abandon(k) ==
    /\ ticket[k].live /\ ticket' = [ticket EXCEPT ![k].live = FALSE]
    /\ UNCHANGED <<identity, credential, claiming, bootLock, otp, verifying>>

---------------------------------------------------------------------------
\* The claim

Admins == {p \in DOMAIN identity : identity[p] = "admin"}

\* The checks: ticket, handle, login, e-mail, and for a bootstrap handle
\* whether an admin exists.
claimHandle(x, k, p) ==
    /\ claiming[x] = Away /\ ticket[k].live
    /\ p \notin DOMAIN identity /\ ~Known(ticket[k].login)
    /\ claiming' = [claiming EXCEPT ![x] =
           [pc |-> "commit", ticket |-> k, pid |-> p, boot |-> p \in Bootstrap /\ Admins = {}]]
    /\ UNCHANGED <<identity, credential, ticket, bootLock, otp, verifying>>

\* Mutant of EmailTaken: the index sees the spelling.
EmailTakenExact(email) == \E c \in credential : c.email = email

\* The index on lower(email).
EmailTaken(email) == \E c \in credential : lower(c.email) = lower(email)

\* A key is taken: primary key, provider and its user id, e-mail, or the lock
\* (whose violation aborts the transaction although the code catches it).
Duplicate(x) ==
    LET l == ticket[claiming[x].ticket].login
    IN  \/ claiming[x].pid \in DOMAIN identity
        \/ \E c \in credential : c.login = l
        \/ EmailTaken(Logins[l].email)
        \/ claiming[x].boot /\ bootLock # Nothing

\* Identity, profile, credential and the ticket's end commit together, or none.
commitClaim(x) ==
    /\ claiming[x].pc = "commit"
    /\ IF Duplicate(x)
       THEN UNCHANGED <<identity, credential, ticket, bootLock>>
       ELSE LET l == ticket[claiming[x].ticket].login
                p == claiming[x].pid
                boot == claiming[x].boot
            IN  /\ identity' = [q \in DOMAIN identity \cup {p} |->
                       IF q = p THEN IF boot THEN "admin" ELSE "user" ELSE identity[q]]
                /\ credential' = credential \cup {[login |-> l, email |-> Logins[l].email, pid |-> p]}
                /\ ticket' = [ticket EXCEPT ![claiming[x].ticket].live = FALSE]
                /\ bootLock' = IF boot THEN p ELSE bootLock
    /\ claiming' = [claiming EXCEPT ![x] = Away]
    /\ UNCHANGED <<otp, verifying>>

SignUpNext ==
    \/ request
    \/ \E i \in DOMAIN otp : CodeExpires(i)
    \/ \E v \in Verifiers : (\E right \in BOOLEAN : verify(v, right)) \/ verified(v)
    \/ \E v \in Verifiers, l \in DOMAIN Logins : emailVerify(v, l)
    \/ \E l \in DOMAIN Logins : googleCallback(l)
    \/ \E k \in DOMAIN ticket : abandon(k)
    \/ \E x \in Claimants, k \in DOMAIN ticket, p \in Pids : claimHandle(x, k, p)
    \/ \E x \in Claimants : commitClaim(x)

SignUpSpec == SignUpInit /\ [][SignUpNext]_signUpVars

---------------------------------------------------------------------------
\* Properties

\* One person, one identity: however claims race, a login and an e-mail address
\* in any spelling belong to one pid, each pid has the credential it was claimed
\* with, and the bootstrap handles make at most one admin.
OneIdentityEach ==
    /\ \A c, d \in credential : c.login = d.login \/ lower(c.email) = lower(d.email) \/ c.pid = d.pid => c = d
    /\ DOMAIN identity = {c.pid : c \in credential}
    /\ Cardinality(Admins) <= 1
===========================================================================
