----------------------------- MODULE MCPipeline -----------------------------
(* Three buyers of a token, or four of which one is cut; one of them traded  *)
(* on two chains.                                                            *)
EXTENDS Pipeline, TLC

CONSTANTS w1, w2, w3, w4, token, x

OneEach == [w \in Wallets |-> [t \in Tokens |-> 1]]

\* The last two wallets spent less.
Uneven == [w \in Wallets |-> [t \in Tokens |-> IF w \in {w1, w2} THEN 2 ELSE 1]]

\* One chain each, and a second one for the first wallet.
TwoChains == {<<w, "solana">> : w \in Wallets} \cup {<<w1, "base">>}

\* The two wallets that are alike may be exchanged.
TwinSymmetry == Permutations({w3, w4})

FundedBy(a) == {<<"First Funder", a>>}
DeployedVia(a) == {<<"Deployed via", a>>}

\* Nothing, one funder, or a relation that is not a funding edge.
OneRelation ==
    [p \in Pairs |-> {{}} \cup {FundedBy(a) : a \in Addresses} \cup {DeployedVia(x)}]

\* Enough for a chain of funders through the wallet that is cut, a funder in
\* common, one found on the second chain only, and wallets that list themselves.
SomeRelations ==
    [p \in Pairs |->
        CASE p = <<w1, "solana">> -> {{}, DeployedVia(x), DeployedVia(x) \cup FundedBy(w2)}
          [] p = <<w1, "base">>   -> {{}, FundedBy(x)}
          [] p[1] = w2            -> {{}, FundedBy(x), FundedBy(w3), FundedBy(w4)}
          [] p[1] \in {w3, w4}    -> {{}} \cup {FundedBy(w) : w \in {w3, w4}}]

OneChain == {<<w, "solana">> : w \in Wallets}

Exit       == [smart |-> 1, exchange |-> 1, observed |-> TRUE]
Quiet      == [smart |-> 1, exchange |-> -1, observed |-> TRUE]
NoExchange == [smart |-> 1, exchange |-> 0, observed |-> FALSE]

\* A firing exit signal, one that is clean, and a row that can be neither.
Flows == {Exit, Quiet, NoExchange}
=============================================================================
