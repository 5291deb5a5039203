------------------------------ MODULE Convert ------------------------------
(***************************************************************************)
(* The conversion core every feed shares (src/data/convert.rs): raw quotes *)
(* to a snapshot and back to the chain an upstream strategy reads, the     *)
(* simulator's response to raw quotes, a relative expiry to an instant.    *)
(*                                                                         *)
(* A raw quote has integer cents.  A float is a rational <<n, d>>, NaN or  *)
(* Missing.  A conversion that fails yields Rejected: which of its errors  *)
(* it fails with is left out.                                              *)
(***************************************************************************)
EXTENDS Money

CONSTANTS
  Rejected,  \* the Err of a conversion
  DayLength  \* nanoseconds of a day

NaN == <<0, 0>>
Missing == <<>>
NoTime == -1
Zero == <<0, 1>>

Analytics == {"implied_volatility", "delta", "gamma", "theta", "vega"}

FloorToTick(value, tick) == value - (value % tick)
TickAligned(price, tick) == price % tick = 0

\* The one midpoint: the half cent is floored, then the tick.
Mid(bid, ask, tick) == FloorToTick((bid + ask) \div 2, tick)

\* <<0, days>> counts from the tape's first instant, in units of a day's length;
\* <<1, at>> is an instant.
ResolveExpiration(expiration, anchor, day) ==
  IF expiration[1] = 1 THEN expiration[2]
  ELSE anchor + RoundHalfEven(expiration[2][1] * day, expiration[2][2])

Accepts(raw, tick) ==
  /\ raw.strike # 0
  /\ \A price \in {raw.strike, raw.bid, raw.ask} : TickAligned(price, tick)
  /\ raw.bid <= raw.ask
  /\ \A a \in Analytics : raw.analytics[a] # NaN

KeyOf(raw, anchor) ==
  <<ResolveExpiration(raw.expiration, anchor, DayLength), raw.strike, raw.style>>
QuoteView(raw, tick) ==
  [bid |-> raw.bid, ask |-> raw.ask, mid |-> Mid(raw.bid, raw.ask, tick),
   bid_size |-> raw.bid_size, ask_size |-> raw.ask_size, analytics |-> raw.analytics]

\* InstrumentSpec::new.
InstrumentOk(spec) == spec.tick # 0 /\ spec.multiplier # 0

\* raw_quotes_to_snapshot, over the SnapshotMeta; quotes are kept by key.
RawQuotesToSnapshot(meta, anchor, raw) ==
  LET Key(i) == KeyOf(raw[i], anchor)
      keys == {Key(i) : i \in DOMAIN raw}
  IN  IF \/ ~InstrumentOk(meta)
         \/ \E i \in DOMAIN raw : ~Accepts(raw[i], meta.tick)
         \/ Cardinality(keys) # Len(raw)
      THEN Rejected
      ELSE [meta |-> meta,
            quotes |-> [key \in keys |->
              QuoteView(raw[CHOOSE i \in DOMAIN raw : Key(i) = key], meta.tick)]]

-----------------------------------------------------------------------------
\* OptionPriceResponse, OptionContractResponse and ChainResponse: every number but
\* the strike and the price of the underlying may be Missing, and ts is NoTime when
\* the timestamp is no RFC 3339.
IsList(s) == Len(s) \in Nat /\ s = [i \in 1..Len(s) |-> s[i]]
IsFloat(x) == x \in {NaN, Missing} \cup (Int \X (Nat \ {0}))
IsOptionPrice(side) ==
  /\ DOMAIN side = {"bid", "ask", "mid", "delta"}
  /\ \A field \in DOMAIN side : IsFloat(side[field])
IsOptionContract(contract) ==
  /\ DOMAIN contract = {"strike", "expiration", "call", "put", "implied_volatility", "gamma"}
  /\ IsOptionPrice(contract.call) /\ IsOptionPrice(contract.put)
  /\ \A field \in {"strike", "implied_volatility", "gamma"} : IsFloat(contract[field])
  /\ contract.strike # Missing /\ contract.expiration \in Int
IsChainResponse(response) ==
  /\ DOMAIN response = {"ts", "underlying", "price", "contracts"}
  /\ response.ts \in Nat \cup {NoTime}
  /\ IsFloat(response.price) /\ response.price # Missing
  /\ IsList(response.contracts)
  /\ \A i \in DOMAIN response.contracts : IsOptionContract(response.contracts[i])

\* A price of the simulator is a rational number of dollars, NaN or missing.
DollarsToCents(p) ==
  IF p \in {NaN, Missing} THEN Unpriced ELSE FromDecimalDollars(p[1], p[2])

\* An analytic the service leaves out is zero; theta and vega it never has, and
\* its own mid is not looked at.
OrZero(value) == IF value = Missing THEN Zero ELSE value
SideToRawQuote(contract, style, side, size) ==
  [expiration |-> <<1, contract.expiration>>, strike |-> DollarsToCents(contract.strike),
   style |-> style, bid |-> DollarsToCents(side.bid), ask |-> DollarsToCents(side.ask),
   bid_size |-> size, ask_size |-> size,
   analytics |-> [a \in Analytics |->
     CASE a = "implied_volatility" -> contract.implied_volatility
       [] a = "delta" -> OrZero(side.delta)
       [] a = "gamma" -> OrZero(contract.gamma)
       [] OTHER       -> Zero]]

\* A contract of the response is a call and a put.
ChainResponseToSnapshot(response, step, spec, anchor, size) ==
  LET Side(i) ==
        LET contract == response.contracts[(i + 1) \div 2] IN
        IF i % 2 = 1 THEN SideToRawQuote(contract, "Call", contract.call, size)
        ELSE SideToRawQuote(contract, "Put", contract.put, size)
      raw == [i \in 1..(2 * Len(response.contracts)) |-> Side(i)]
      price == DollarsToCents(response.price)
  IN  IF \/ Unpriced \in {price} \cup UNION {{raw[i].strike, raw[i].bid, raw[i].ask} :
                                             i \in DOMAIN raw}
         \/ \E i \in DOMAIN raw : raw[i].analytics["implied_volatility"] = Missing
      THEN Rejected
      ELSE RawQuotesToSnapshot(
             [ts |-> response.ts, step |-> step, underlying |-> response.underlying,
              underlying_price |-> price, tick |-> spec.tick,
              multiplier |-> spec.multiplier], anchor, raw)

-----------------------------------------------------------------------------
\* snapshot_to_option_chain: one row per strike, its call and its put side by
\* side; an upstream chain has a single expiry.
SnapshotToOptionChain(snapshot) ==
  LET keys == DOMAIN snapshot.quotes
      Half(strike, style) ==
        {snapshot.quotes[key] : key \in {k \in keys : k[2] = strike /\ k[3] = style}}
  IN  IF \/ Cardinality({key[1] : key \in keys}) > 1
         \/ \E key \in keys : snapshot.quotes[key].analytics["implied_volatility"][1] < 0
      THEN Rejected
      ELSE [strike \in {key[2] : key \in keys} |->
              [call |-> {<<q.bid, q.ask>> : q \in Half(strike, "Call")},
               put  |-> {<<q.bid, q.ask>> : q \in Half(strike, "Put")}]]
=============================================================================
