----------------------------- MODULE MCRelayer ------------------------------
(***************************************************************************)
(* TLC instances of the relayer.  Intents a and b rotate from k1 to k2 and *)
(* differ in their expiry only: b is a signed again.  w is a withdrawal    *)
(* and x an execute.  y rotates to k1 and is signed by k2, which has not   *)
(* had the account.  All are for nonce 0, so they race for it on chain.    *)
(***************************************************************************)
EXTENDS Relayer, TLC

CONSTANTS a, b, w, x, y, k1, k2, w1, w2

Says(entry, nonce, key, to, expiry) ==
    [entry |-> entry, nonce |-> nonce, key |-> key, to |-> to, expiry |-> expiry]

MCSigned ==
    [i \in Intents |->
        CASE i = a -> Says("rotate", 0, k1, k2, 1)
          [] i = b -> Says("rotate", 0, k1, k2, EndOfTime + 1)
          [] i = w -> Says("withdraw", 0, k1, k1, EndOfTime + 1)
          [] i = x -> Says("execute", 0, k1, k1, EndOfTime + 1)
          [] i = y -> Says("rotate", 0, k2, k1, EndOfTime + 1)]

RequestSymmetry == Permutations(Workers)
=============================================================================
