------------------------------- MODULE Access -------------------------------
(***************************************************************************)
(* Access to one identity: its login sessions and its passkeys, which share*)
(* no state; an assertion of a passkey opens a session.                    *)
(***************************************************************************)
EXTENDS Sessions, Passkeys

AccessSpec == SessionsSpec /\ PasskeysSpec

\* Access ends when it is ended, and begins as the account allows: families of
\* sessions, and passkeys.
AccessAsAllowed == FamilyEnds /\ KeysVouched
=============================================================================
