---------------------------- MODULE MCPaymentHooks ----------------------------
(* Instances of PaymentHooks: two bank slips with a token each, or one token *)
(* for both parts.                                                           *)
EXTENDS PaymentHooks, TLC

CONSTANTS t1, t2, h1, h2

EachItsOwn == (t1 :> {1}) @@ (t2 :> {2})

OneForBoth == (t1 :> {1, 2})

Calls == Permutations(Handler)

===============================================================================
