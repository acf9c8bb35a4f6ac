--------------------------------- MODULE Coins ---------------------------------
(***************************************************************************)
(* Decimal amounts and exchange rates (package coins).  A decimal is a     *)
(* coefficient and an exponent, as in the apd library: 0.10 and 0.1 are    *)
(* different decimals with the same value.  The decimals of the coins are  *)
(* constants, small for TLC, with the relation that the code relies on:    *)
(* those of an ETH amount are those of an XMR amount plus those of a rate. *)
(***************************************************************************)
EXTENDS Integers, FiniteSets

CONSTANTS
    NumMoneroDecimals,          \* 12
    MaxExchangeRateDecimals,    \* 6
    NumEtherDecimals,           \* 18
    MaxCoinPrecision            \* 100 digits

ASSUME DecimalsAssumption == NumMoneroDecimals + MaxExchangeRateDecimals = NumEtherDecimals

Error == [error |-> TRUE]
IsError(d) == "error" \in DOMAIN d

-----------------------------------------------------------------------------
(* apd *)

Pow10(n) == 10 ^ n
Dec(c, e) == [c |-> c, e |-> e]
Min2(a, b) == IF a < b THEN a ELSE b
Abs(n) == IF n < 0 THEN -n ELSE n

\* Even factors of ten move to the exponent.
Reduce(d) ==
    IF d.c = 0 THEN Dec(0, 0)
    ELSE LET k == CHOOSE k \in 0..9 : d.c % Pow10(k) = 0 /\ d.c % Pow10(k + 1) # 0
         IN Dec(d.c \div Pow10(k), d.e + k)

\* The coefficient at a given (smaller) exponent.
At(d, e) == d.c * Pow10(d.e - e)
Lowest(a, b) == Min2(a.e, b.e)
Less(a, b) == At(a, Lowest(a, b)) < At(b, Lowest(a, b))
Same(a, b) == At(a, Lowest(a, b)) = At(b, Lowest(a, b))
Add(a, b) == Dec(At(a, Lowest(a, b)) + At(b, Lowest(a, b)), Lowest(a, b))
Mul(a, b) == Dec(a.c * b.c, a.e + b.e)

HalfUp(n, m) == IF 2 * (n % m) >= m THEN (n \div m) + 1 ELSE n \div m

\* A quotient has as many digits as the context's precision, the last one rounded.
Quo(a, b) ==
    IF a.c = 0 THEN Dec(0, 0)
    ELSE LET k == CHOOSE k \in 0..8 : /\ (a.c * Pow10(k)) \div b.c >= Pow10(MaxCoinPrecision - 1)
                                      /\ k = 0 \/ (a.c * Pow10(k - 1)) \div b.c < Pow10(MaxCoinPrecision - 1)
         IN Dec(HalfUp(a.c * Pow10(k), b.c), a.e - b.e - k)

NumDigits(d) == CHOOSE k \in 1..9 : d.c < Pow10(k) /\ (k = 1 \/ d.c >= Pow10(k - 1))

-----------------------------------------------------------------------------
(* coins *)

increaseExponent(d, delta) == Dec(d.c, d.e + delta)
decreaseExponent(d, delta) == Dec(d.c, d.e - delta)

RoundToIntegralValue(d) == IF d.e >= 0 THEN d ELSE Dec(HalfUp(d.c, Pow10(-d.e)), 0)

roundToDecimalPlace(d, places) ==
    Reduce(decreaseExponent(RoundToIntegralValue(increaseExponent(d, places)), places))

NumDecimals(d) == IF Reduce(d).e >= 0 THEN 0 ELSE -Reduce(d).e
ExceedsDecimals(d, max) == NumDecimals(d) > max

ValidatePositive(maxDecimals, d) ==
    d.c # 0 /\ NumDigits(Reduce(d)) <= MaxCoinPrecision /\ Reduce(d).e >= -maxDecimals

\* An amount in the smallest units, as an integer.
Whole(d) == At(RoundToIntegralValue(d), 0)

MoneroToPiconero(d) == roundToDecimalPlace(increaseExponent(d, NumMoneroDecimals), 0)
NewPiconeroAmount(n) == Dec(n, 0)
AsMonero(p) == Reduce(decreaseExponent(p, NumMoneroDecimals))

EtherToWei(d) == roundToDecimalPlace(increaseExponent(d, NumEtherDecimals), 0)
AsEther(wei) == Reduce(decreaseExponent(wei, NumEtherDecimals))

\* Tokens are amounts in standard units, rounded to the decimals of the token.
NewTokenAmountFromDecimals(d, decimals) == IF ExceedsDecimals(d, decimals) THEN roundToDecimalPlace(d, decimals) ELSE d
TokenBigInt(d, decimals) == Whole(increaseExponent(d, decimals))
NewERC20TokenAmountFromBigInt(n, decimals) == Reduce(decreaseExponent(Dec(n, 0), decimals))

\* EthAssetAmount: [std, units, decimals] of ETH (decimals of ETH) or of a token.
ETH == [token |-> FALSE, decimals |-> NumEtherDecimals]
Token(decimals) == [token |-> TRUE, decimals |-> decimals]

NewEthAssetAmount(d, asset) ==
    IF asset.token
    THEN LET t == NewTokenAmountFromDecimals(d, asset.decimals)
         IN [std |-> t, units |-> TokenBigInt(t, asset.decimals), decimals |-> asset.decimals]
    ELSE LET wei == EtherToWei(d)
         IN [std |-> AsEther(wei), units |-> Whole(wei), decimals |-> NumEtherDecimals]

CalcExchangeRate(xmrPrice, ethPrice) == roundToDecimalPlace(Quo(xmrPrice, ethPrice), MaxExchangeRateDecimals)

\* Variation: the precision of the result alone.
calcAltNumeratorAmountFine(numeratorDecimals, resultDecimals, denominator, unrounded) ==
    Reduce(Mul(roundToDecimalPlace(unrounded, resultDecimals), Reduce(denominator)))

\* The closest numerator whose quotient fits, if there is one.
calcAltNumeratorAmount(numeratorDecimals, resultDecimals, denominator, unrounded) ==
    LET d == Reduce(denominator)
        precision == d.e + numeratorDecimals
        alt == Reduce(Mul(roundToDecimalPlace(unrounded, Min2(precision, resultDecimals)), d))
    IN IF precision < 0 \/ alt.c = 0 THEN Error ELSE alt

\* The XMR for an amount, an error if they have fractions of a piconero.
ToXMR(rate, amount) ==
    LET xmr == Quo(amount.std, rate) IN IF ExceedsDecimals(xmr, NumMoneroDecimals) THEN Error ELSE Reduce(xmr)

\* What the error of ToXMR suggests.
Suggested(rate, amount) ==
    calcAltNumeratorAmount(amount.decimals, NumMoneroDecimals, rate, Quo(amount.std, rate))

ToETH(rate, xmr) ==
    LET eth == Mul(xmr, rate) IN IF ExceedsDecimals(eth, NumEtherDecimals) THEN Error ELSE Reduce(eth)

ToERC20Amount(rate, xmr, decimals) ==
    LET amount == Mul(xmr, rate)
    IN IF ExceedsDecimals(amount, decimals) THEN Error ELSE NewTokenAmountFromDecimals(Reduce(amount), decimals)
=============================================================================
