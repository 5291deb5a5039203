------------------------------ MODULE LedgerMC ------------------------------
(***************************************************************************)
(* Three steps an uneven number of days apart over two contracts, the      *)
(* second of which expires on the day of the last one.  A ladder has two   *)
(* levels on the ask and one on the bid: further ones round to nothing.    *)
(* An order that rests at 2 is crossed when the first contract gets cheap, *)
(* and stays behind the market when it gets dear.                          *)
(***************************************************************************)
EXTENDS Ledger

MCContracts == {1, 2}
MCExpiry == <<9, 4>>
MCDays == <<1, 2, 4>>
MCUnderlying == <<50, 53, 52>>

Quote(bid, ask, theta, delta, vega, iv) ==
  LET mid == (bid + ask) \div 2 IN
  [bid |-> bid, ask |-> ask, mid |-> mid - (mid % 2), bid_size |-> 1, ask_size |-> 2,
   theta |-> theta, delta |-> delta, vega |-> vega, iv |-> iv]
MCQuotes == <<{Quote(4, 8, -1, 1, 3, 10), Quote(0, 2, -3, 2, 1, 13)},
              {Quote(2, 4, -1, -1, 2, 20)}>>

MCFees == [perContract |-> 1, perOrder |-> 2]
\* Wider than the spread: a sell in the cheap quote would go below zero.
MCMaxTrades == [naive |-> 3, realistic |-> 2]
MCMaxQty == [naive |-> 1, realistic |-> 3]
MCProfile == [flat |-> 0, levels |-> 2, num |-> 2, den |-> 5]
MCModel == [kind |-> "SpreadFraction", num |-> 3, den |-> 2]
=============================================================================
