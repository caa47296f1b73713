----------------------------- MODULE TrustScores -----------------------------
(***************************************************************************)
(* The two scores the program computes from the trust events of a          *)
(* merchant: TrustEngine.computeScore, a weighted sum of six drivers, and  *)
(* TrustRepository.calculateScore, a sum of weights.  The engine's scores  *)
(* are kept exact, as pairs <<numerator, denominator>>, where the code     *)
(* adds floating-point numbers.                                            *)
(***************************************************************************)
EXTENDS Integers

Rational == Int \X (Nat \ {0})
AtMost(x, y) == x[1] * y[2] <= y[1] * x[2]

Least(a, b)    == IF a <= b THEN a ELSE b
Greatest(a, b) == IF a >= b THEN a ELSE b

\* The drivers, each from 0 to 100, but for that of the reviews.
KycDriver(t)      == IF t.kyc > 0 THEN 100 ELSE 0
PaymentDriver(t)  == Least(100, 5 * t.payments)
DeliveryDriver(t) == Least(100, 10 * t.delivered)

\* Disputes and refunds are set against the payments, of which there is at
\* least one: 20% of them bring the driver down to 0.
Transactions(t) == Greatest(t.payments, 1)

\* A slip: no floor at 0.
DisputeDriver_NoFloor(t) == <<100 * Transactions(t) - 500 * t.disputes, Transactions(t)>>
DisputeDriver(t) ==
    <<Greatest(0, 100 * Transactions(t) - 500 * t.disputes), Transactions(t)>>

\* Stars of five on average, whatever reviews carry, three where there is none.
ReviewDriver(t) == IF t.reviews = 0 THEN <<60, 1>> ELSE <<20 * t.stars, t.reviews>>

\* Half a point a day, so twice the driver is a whole number.
TwiceTenureDriver(days) == Least(200, days)

\* computeScore: the weights are 30, 25, 20, 10, 10 and 5 hundredths.
Score(t, days) ==
    LET d == DisputeDriver(t)
        r == ReviewDriver(t)
    IN <<d[2] * r[2] * (60 * KycDriver(t) + 50 * PaymentDriver(t) + 20 * DeliveryDriver(t)
                         + 5 * TwiceTenureDriver(days))
           + 40 * d[1] * r[2] + 20 * d[2] * r[1],
         200 * d[2] * r[2]>>

\* Math.round(score * 10) / 10
ToTenths(x) == <<(20 * x[1] + x[2]) \div (2 * x[2]), 10>>

-----------------------------------------------------------------------------
\* calculateScore for a total of weights, minutes after the last event: between 0
\* and 100 around 50, 5% more in the first week, 5% less after ninety days,
\* rounded (halves up).
Recency(minutes) ==
    IF minutes < 7 * 1440 THEN 105 ELSE IF minutes > 90 * 1440 THEN 95 ELSE 100

Clamped_NoFloor(total) == Least(100, 50 + total)    \* a slip
Clamped(total) == Greatest(0, Least(100, 50 + total))

RepositoryScore(total, minutes) ==
    (Least(10000, Clamped(total) * Recency(minutes)) + 50) \div 100
=============================================================================
