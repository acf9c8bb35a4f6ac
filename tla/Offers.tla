--------------------------------- MODULE Offers ---------------------------------
(***************************************************************************)
(* The life of an offer and the amounts in it, from the maker's request to *)
(* the XMR in the shared account: common/types/offer.go, the offer         *)
(* manager, MakeOffer, the query, takeOffer and InitiateProtocol of the    *)
(* taker, HandleInitiateMessage of the maker, and the checks that each     *)
(* side makes of the other's amounts.  Amounts cross from decimals to wei, *)
(* token units and piconero, and over JSON, and back.                      *)
(***************************************************************************)
EXTENDS Coins, FiniteSetsExt, TLC

CONSTANTS
    XMRAmounts,         \* min and max amounts that a user may ask for
    Rates,              \* exchange rates that a user may ask for
    Provided,           \* ETH or token amounts that a taker may offer
    Prices,             \* prices of a feed
    TokenDecimals,      \* decimals of the token
    RelayerFee,         \* coins.RelayerFeeETH
    MaxOfferValue,      \* maxOfferValue
    Gas,                \* wei that the gas of the swap may cost
    MakerBalances, TakerBalances, MaxOffers

VARIABLES
    offers,     \* the maker's offers in memory
    db,         \* the offers in the database, encoded
    maker,      \* unlocked piconero and wei of the maker
    taker,      \* wei and token units of the taker
    swap,       \* the amounts of the swap under way
    answer      \* the last answer to a user: a suggestion, a rate or pairs

vars == <<offers, db, maker, taker, swap, answer>>

Assets == {ETH, Token(TokenDecimals)}
NoSwap == [pc |-> "none"]
NoAnswer == [kind |-> "none"]

-----------------------------------------------------------------------------
(* Offers *)

\* Text('f') has no exponent: 1E1 reads 10, but 0.10 keeps its zero.
Text(d) == IF d.e >= 0 THEN <<At(d, 0), 0>> ELSE <<d.c, d.e>>
Hash(o) == <<Text(o.min), Text(o.max), Text(o.rate), o.asset, o.nonce>>

NewOffer(min, max, rate, asset, nonce) ==
    LET o == [min |-> Reduce(min), max |-> Reduce(max), rate |-> Reduce(rate), asset |-> asset, nonce |-> nonce]
    IN o @@ [id |-> Hash(o)]

WorthClaiming(o) == ~IsError(ToETH(o.rate, o.min)) /\ Less(RelayerFee, ToETH(o.rate, o.min))

\* The amounts are validated first, which reduces them.
validate(o) ==
    /\ ValidatePositive(NumMoneroDecimals, o.min)
    /\ ValidatePositive(NumMoneroDecimals, o.max)
    /\ ~Less(o.max, o.min)
    /\ WorthClaiming(o)
    /\ ~Less(MaxOfferValue, o.max)
    /\ o.id = Hash([o EXCEPT !.min = Reduce(o.min), !.max = Reduce(o.max)])

Encode(o) == [o EXCEPT !.min = Reduce(o.min), !.max = Reduce(o.max)]

\* UnmarshalJSON: the rate is validated by its own decoder, the rest by validate.
UnmarshalOffer(e) ==
    LET o == [e EXCEPT !.rate = Reduce(e.rate)]
    IN IF ValidatePositive(MaxExchangeRateDecimals, e.rate) /\ validate(o) THEN Encode(o) ELSE Error

\* An offer is stored if it can be encoded.
PutOffer(o) == validate(o)

-----------------------------------------------------------------------------

TypeOK ==
    /\ \A o \in offers : validate(o) /\ o.asset \in Assets
    /\ Cardinality(db) <= MaxOffers
    /\ swap.pc \in {"none", "initiated", "accepted", "refused", "locked", "checked", "rejected", "done"}
    /\ swap.pc \in {"refused", "rejected"} => swap.why # ""
    /\ answer.kind \in {"none", "suggestion", "rate", "pairs", "error"}

Init ==
    /\ offers = {} /\ db = {}
    /\ maker \in [unlocked : MakerBalances, wei : {0, 2 * Gas}]
    /\ taker \in TakerBalances
    /\ swap = NoSwap
    /\ answer = NoAnswer

\* The maker's balance: more than the offer's maximum, and gas to claim tokens.
makerMinBalance(max, asset) ==
    /\ Less(max, AsMonero(NewPiconeroAmount(maker.unlocked)))
    /\ asset.token => Less(AsEther(Dec(Gas, 0)), AsEther(Dec(maker.wei, 0)))

TokenPrecision(o) ==
    o.asset.token => ~IsError(ToERC20Amount(o.rate, o.min, o.asset.decimals)) /\ ~IsError(ToERC20Amount(o.rate, o.max, o.asset.decimals))

\* makeOffer of the RPC: the rate of the request was decoded, the other amounts were not checked.
makeOffer ==
    /\ Cardinality(db) < MaxOffers /\ swap = NoSwap
    /\ \E min, max \in XMRAmounts, rate \in Rates, asset \in Assets :
          LET o == NewOffer(min, max, Reduce(rate), asset, Cardinality(db))
          IN /\ ValidatePositive(MaxExchangeRateDecimals, rate)
             /\ makerMinBalance(o.max, asset) /\ TokenPrecision(o)
             /\ IF PutOffer(o) THEN /\ db' = db \cup {Encode(o)} /\ offers' = offers \cup {o} /\ answer' = NoAnswer
                ELSE answer' = [kind |-> "error", offer |-> o] /\ UNCHANGED <<db, offers>>
    /\ UNCHANGED <<maker, taker, swap>>

ClearOffers ==
    /\ offers # {} /\ swap.pc = "initiated"
    /\ offers' = {} /\ db' = {}
    /\ UNCHANGED <<maker, taker, swap, answer>>

\* NewManager after a restart: the offers of the database that decode.
NewManager ==
    /\ swap = NoSwap
    /\ offers' = {UnmarshalOffer(e) : e \in {d \in db : ~IsError(UnmarshalOffer(d))}}
    /\ db' = {d \in db : ~IsError(UnmarshalOffer(d))}
    /\ UNCHANGED <<maker, taker, swap, answer>>

\* The maker's XMR are spent elsewhere.
Spend ==
    /\ swap.pc = "initiated" /\ maker.unlocked # 0
    /\ maker' = [maker EXCEPT !.unlocked = 0]
    /\ UNCHANGED <<offers, db, taker, swap, answer>>

-----------------------------------------------------------------------------
(* Taking an offer *)

\* What the taker tests of the amount that it provides.
InitiateAmount(o, provided) ==
    /\ ValidatePositive(o.asset.decimals, provided)
    /\ LET xmr == ToXMR(o.rate, NewEthAssetAmount(provided, o.asset))
       IN ~IsError(xmr) /\ ~Less(xmr, o.min) /\ ~Less(o.max, xmr)

\* What the maker tests of the amount in the message.
HandleInitiateAmount(o, provided) ==
    /\ ValidatePositive(o.asset.decimals, provided)
    /\ LET xmr == ToXMR(o.rate, NewEthAssetAmount(provided, o.asset))
       IN ~IsError(xmr) /\ ~Less(xmr, o.min) /\ ~Less(o.max, xmr)

takerMinBalance(o, provided) ==
    IF o.asset.token
    THEN ~Less(NewERC20TokenAmountFromBigInt(taker.tokens, o.asset.decimals), provided) /\ taker.wei >= Gas
    ELSE taker.wei >= Whole(EtherToWei(provided)) + Gas

\* Query decodes every offer of the maker, or fails.
Query == {UnmarshalOffer(Encode(o)) : o \in offers}

\* InitiateProtocol: the message takes the amount as the user wrote it.
InitiateProtocol ==
    /\ swap = NoSwap /\ \A o \in Query : ~IsError(o)
    /\ \E o \in Query, provided \in Provided :
          /\ InitiateAmount(o, provided) /\ takerMinBalance(o, provided)
          /\ swap' = [pc |-> "initiated", why |-> "", id |-> o.id, offer |-> o, provided |-> provided,
                      sent |-> NewEthAssetAmount(provided, o.asset),
                      expected |-> ToXMR(o.rate, NewEthAssetAmount(provided, o.asset))]
    /\ UNCHANGED <<offers, db, maker, taker, answer>>

\* The amount is refused for its precision, with a suggestion if there is one.
InitiateSuggests ==
    /\ swap = NoSwap /\ answer = NoAnswer /\ \A o \in Query : ~IsError(o)
    /\ \E o \in Query, provided \in Provided :
          LET amount == NewEthAssetAmount(provided, o.asset) IN
          /\ ValidatePositive(o.asset.decimals, provided) /\ IsError(ToXMR(o.rate, amount))
          /\ ~IsError(Suggested(o.rate, amount))
          /\ answer' = [kind |-> "suggestion", rate |-> o.rate, asset |-> o.asset, amount |-> Suggested(o.rate, amount)]
    /\ UNCHANGED <<offers, db, maker, taker, swap>>

Refuse(why) == swap' = [swap EXCEPT !.pc = "refused", !.why = why]

\* HandleInitiateMessage, and initiate: the maker's own offer, the same tests, its balance.
HandleInitiateMessage ==
    /\ swap.pc = "initiated"
    /\ LET mine == {o \in offers : o.id = swap.id} IN
       IF mine = {} THEN Refuse("gone") /\ UNCHANGED offers
       ELSE LET o == CHOOSE o \in mine : TRUE
                amount == NewEthAssetAmount(swap.provided, o.asset)
            IN IF ~HandleInitiateAmount(o, swap.provided) THEN Refuse("amount") /\ UNCHANGED offers
               ELSE LET pico == MoneroToPiconero(ToXMR(o.rate, amount))
                    IN IF maker.unlocked <= Whole(pico) THEN Refuse("balance") /\ UNCHANGED offers
                       ELSE /\ swap' = [swap EXCEPT !.pc = "accepted"] @@ [xmr |-> AsMonero(pico), wants |-> amount.std]
                            /\ offers' = offers \ {o}
    /\ UNCHANGED <<db, maker, taker, answer>>

Reject(why) == swap' = [swap EXCEPT !.pc = "rejected", !.why = why]

\* handleSendKeysMessage of the taker compares the XMR, then lockAsset locks the units.
lockAsset ==
    /\ swap.pc = "accepted"
    /\ IF Less(swap.xmr, swap.expected) THEN Reject("xmr")
       ELSE swap' = [swap EXCEPT !.pc = "locked"] @@ [value |-> swap.sent.units]
    /\ UNCHANGED <<offers, db, maker, taker, answer>>

\* Variation: the units are taken for wei, whatever the asset.
checkContractWei ==
    /\ swap.pc = "locked"
    /\ IF swap.value # Whole(EtherToWei(swap.wants)) THEN Reject("value")
       ELSE swap' = [swap EXCEPT !.pc = "checked"] @@ [pico |-> Whole(MoneroToPiconero(swap.xmr))]
    /\ UNCHANGED <<offers, db, maker, taker, answer>>

\* checkContract of the maker, then lockFunds.
checkContract ==
    /\ swap.pc = "locked"
    /\ IF swap.value # NewEthAssetAmount(swap.wants, swap.offer.asset).units THEN Reject("value")
       ELSE swap' = [swap EXCEPT !.pc = "checked"] @@ [pico |-> Whole(MoneroToPiconero(swap.xmr))]
    /\ UNCHANGED <<offers, db, maker, taker, answer>>

\* checkForXMRLock of the taker: at least the piconero that it expects.
checkForXMRLock ==
    /\ swap.pc = "checked"
    /\ IF Less(Dec(swap.pico, 0), MoneroToPiconero(swap.expected)) THEN Reject("short")
       ELSE swap' = [swap EXCEPT !.pc = "done"]
    /\ UNCHANGED <<offers, db, maker, taker, answer>>

-----------------------------------------------------------------------------
(* Answers to the user *)

\* SuggestedExchangeRate, from two feeds.
SuggestedExchangeRate ==
    /\ offers = {} /\ answer = NoAnswer
    /\ \E xmr, eth \in Prices :
          answer' = [kind |-> "rate", xmr |-> Reduce(xmr), eth |-> Reduce(eth), rate |-> CalcExchangeRate(Reduce(xmr), Reduce(eth))]
    /\ UNCHANGED <<offers, db, maker, taker, swap>>

AddOffer(total, o) == Add(total, o.max)

\* Pairs: the offers of a query, summed by asset.
Pairs ==
    /\ offers # {} /\ swap = NoSwap /\ answer = NoAnswer /\ \A o \in Query : ~IsError(o)
    /\ answer' = [kind |-> "pairs",
                  liquidity |-> [a \in {o.asset : o \in Query} |->
                                   FoldSet(LAMBDA o, total : AddOffer(total, o), Dec(0, 0), {o \in Query : o.asset = a})]]
    /\ UNCHANGED <<offers, db, maker, taker, swap>>

Next ==
    \/ makeOffer \/ ClearOffers \/ NewManager \/ Spend
    \/ InitiateProtocol \/ InitiateSuggests \/ HandleInitiateMessage
    \/ lockAsset \/ checkContract \/ checkForXMRLock
    \/ SuggestedExchangeRate \/ Pairs

Spec == Init /\ [][Next]_vars

-----------------------------------------------------------------------------
(* Properties *)

\* Every offer of the maker survives the database and the wire: it decodes, to the same ID, so
\* that a restart does not purge it and a taker's query does not fail because of it.  A request
\* is refused for its amounts, never because the ID of the new offer is not its hash.
OffersReadable ==
    /\ \A o \in offers : /\ ~IsError(UnmarshalOffer(Encode(o))) /\ UnmarshalOffer(Encode(o)).id = o.id
                         /\ \E d \in db : UnmarshalOffer(d) = UnmarshalOffer(Encode(o))
    /\ answer.kind = "error" => answer.offer.id = Hash(Encode(answer.offer))

\* An amount that the taker's own checks let through is refused by the maker only if the offer
\* is gone or the XMR are.
TakerNotRefused == swap.pc = "refused" => swap.why \in {"gone", "balance"}

\* The amounts that the two sides derive from the one number in the message agree: what the
\* maker promises suffices for the taker, the units in the contract are those that the maker
\* expects, and the piconero that it locks are those that the taker waits for.
AmountsAgree == swap.pc # "rejected"

\* The swap is at the offer's price to the last unit: no rounding is hidden in it.
PriceKept == swap.pc \in {"accepted", "locked", "checked", "done"} => Same(Mul(swap.xmr, swap.offer.rate), swap.provided)

\* Any accepted amount is worth more than the fee that a relayer takes of it.
FeeCovered == swap.pc \in {"accepted", "locked", "checked", "done"} => Less(RelayerFee, swap.sent.std)

\* The amount that the error message suggests passes the test that the refused one failed.
SuggestionWorks ==
    answer.kind = "suggestion" =>
        /\ ValidatePositive(answer.asset.decimals, answer.amount)
        /\ ~IsError(ToXMR(answer.rate, NewEthAssetAmount(answer.amount, answer.asset)))

\* The suggested rate is the nearest to the ratio of the prices with the decimals of a rate; an
\* offer may have it (UnmarshalText) unless the ratio is less than half of the last decimal, where
\* CalcExchangeRate suggests zero.
RateIsNearest ==
  answer.kind = "rate" =>
    LET scale == Pow10(MaxExchangeRateDecimals)
        low == Lowest(answer.xmr, answer.eth)
        x == At(answer.xmr, low)
        e == At(answer.eth, low)
        r == At(answer.rate, -MaxExchangeRateDecimals)
    IN /\ ~ExceedsDecimals(answer.rate, MaxExchangeRateDecimals) /\ 2 * Abs((r * e) - (x * scale)) <= e
       /\ ValidatePositive(MaxExchangeRateDecimals, answer.rate) <=> 2 * x * scale >= e

\* The liquidity of a pair covers every offer of its asset that was counted.
LiquidityCounted ==
    answer.kind = "pairs" =>
        \A a \in DOMAIN answer.liquidity : \A S \in SUBSET {o \in offers : o.asset = a} :
            ~Less(answer.liquidity[a], FoldSet(LAMBDA o, t : Add(t, o.max), Dec(0, 0), S))
=============================================================================
