------------------------------ MODULE MCCallPlan ------------------------------
(* Two wallets that spent the same, the first on two chains; the second    *)
(* token was bought by one of them only, the third was only sold.          *)
EXTENDS CallPlan

Seen == {<<1, "solana">>, <<1, "base">>, <<2, "solana">>}

Buys == <<[t \in Tokens |-> IF t = 3 THEN 0 ELSE 1],
          [t \in Tokens |-> IF t = 1 THEN 2 ELSE 0]>>
=============================================================================
