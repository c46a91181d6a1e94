----------------------------- MODULE MCDarkPool -----------------------------
(***************************************************************************)
(* Two agents on two markets. The pinned operator signs prices of two      *)
(* dates for the first market and one for the second; what else is         *)
(* presented there is unsigned, by another operator, altered in its date,  *)
(* or the other market's. Prices may be presented before the second they   *)
(* are dated. The offers are one that is right and others wrong in one     *)
(* respect each.                                                           *)
(***************************************************************************)
EXTENDS DarkPool, TLC

CONSTANTS m1, m2, Intent, Response

Price(market, as_of, key) ==
    [market_id |-> market, price_as_of_secs |-> as_of, public_key |-> key,
     signed |-> [market_id |-> market, price_as_of_secs |-> as_of]]

MCPrices ==
    {Price(m1, 0, 1), Price(m1, 1, 1), Price(m1, 1, NoKey),
     Price(m2, 0, 1), Price(m2, 2, 2),
     [Price(m2, 0, 1) EXCEPT !.price_as_of_secs = 2],
     [Price(m1, 1, 1) EXCEPT !.market_id = m2]}

Good == [root |-> 1, disclosed |-> 1, vendor |-> "MockSoftware",
         drift |-> 0, ahead |-> 0]
MCOffers == {Good, [Good EXCEPT !.disclosed = 2],
             [Good EXCEPT !.vendor = "IntelTdx"],
             [Good EXCEPT !.drift = 9], [Good EXCEPT !.ahead = 1]}

Symmetry == Permutations({Intent, Response})
=============================================================================
