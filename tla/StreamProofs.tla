----------------------------- MODULE StreamProofs -----------------------------
(***************************************************************************)
(* Theorems about StreamMandate, for every value of its constants: types,  *)
(* conservation of accrual, agreement of the program and the hook, consent *)
(* and the refinement of StreamLedger.                                     *)
(***************************************************************************)
EXTENDS StreamMandate, TLAPS

\* What an account that exists looks like between two transactions.
WellFormed ==
  /\ stream.status = "Absent" => stream = NoStream
  /\ stream.status # "Absent" => /\ stream.interval >= MinSettleInterval
                                 /\ stream.rate > 0
  /\ stream.status = "Paused" <=> stream.pausedAt # None

\* Tokens never exceed what wallets sent, and the account's total is exact.
Funded ==
  /\ escrow + received <= MaxFunds
  /\ LedgerMatchesTokens

\* No instant is dealt with twice, also across a pause.
ClockCovered ==
  /\ Meters(stream) => stream.lastSettled >= chargedTo
  /\ stream.status = "Paused" => stream.pausedAt >= chargedTo

Consent == stream.rate <= stream.maxRate /\ stream.maxRate <= consentedMax

\* The inductive invariant.
StreamInv ==
  TypeOK /\ WellFormed /\ Funded /\ ClockCovered /\ Consent /\ NothingLostOrInvented
------------------------------------------------------------------------------
(* The arithmetic of a settlement. *)

\* What TypeOK says of the clock and of each field of the account.
LEMMA FieldTypes ==
  ASSUME TypeOK
  PROVE  /\ now \in Nat /\ now <= MaxTime /\ MaxTime \in Nat /\ U64Max \in Nat
         /\ stream.status \in Statuses
         /\ stream.rate \in Nat /\ stream.rate <= U64Max
         /\ stream.maxRate \in Nat /\ stream.maxRate <= U64Max
         /\ stream.lastSettled \in Nat /\ stream.lastSettled <= MaxTime
         /\ stream.total \in Nat /\ stream.total <= U64Max
         /\ stream.cap \in Nat \cup {None}
         /\ stream.pausedAt \in Nat \cup {None}
         /\ stream.interval \in Nat
  BY BoundsAssumption DEF TypeOK, StreamType

\* Writing a settlement's two fields keeps the account well typed.
LEMMA SettlementTyped ==
  ASSUME stream \in StreamType, NEW total \in 0 .. U64Max, NEW t \in 0 .. MaxTime
  PROVE  LET s == [stream EXCEPT !.total = total, !.lastSettled = t]
         IN  /\ s \in StreamType
             /\ s.total = total /\ s.lastSettled = t
             /\ s.status = stream.status /\ s.pausedAt = stream.pausedAt
             /\ s.rate = stream.rate /\ s.maxRate = stream.maxRate
             /\ s.interval = stream.interval /\ s.cap = stream.cap
  BY DEF StreamType

\* settle_accrued_in_place charges at most what accrued and at most what the
\* cap leaves.
LEMMA ChargeBounds ==
  ASSUME TypeOK, Funded, Elapsed(stream, now) >= 0
  PROVE  /\ Gross(stream, now) \in Nat
         /\ Charge(stream, now) \in Nat
         /\ Charge(stream, now) <= Gross(stream, now)
         /\ stream.cap # None => stream.total + Charge(stream, now) <= stream.cap
<1>1. /\ now \in Nat /\ stream.lastSettled \in Nat
      /\ stream.rate \in Nat /\ stream.total \in Nat
      /\ stream.cap \in Nat \cup {None}
  BY FieldTypes
<1>2. Gross(stream, now) \in Nat
  <2>1. Elapsed(stream, now) \in Nat
    BY <1>1 DEF Elapsed
  <2> QED
    BY <1>1, <2>1 DEF Gross
<1>3. stream.cap # None => stream.total <= stream.cap
  BY DEF Funded, LedgerMatchesTokens
<1> QED
  BY <1>1, <1>2, <1>3 DEF Charge, Remaining

\* The meter moves linearly with the clock.
LEMMA GrossMoves ==
  ASSUME TypeOK, NEW t \in Int
  PROVE  Gross(stream, t) = Gross(stream, now) + (t - now) * stream.rate
<1>1. /\ stream.rate \in Int /\ stream.lastSettled \in Int /\ now \in Int
  BY FieldTypes
<1>2. \A a, b, r \in Int : (a + b) * r = a * r + b * r
  OBVIOUS
<1>3. t - stream.lastSettled = (now - stream.lastSettled) + (t - now)
  BY <1>1
<1> QED
  BY <1>1, <1>2, <1>3 DEF Gross, Elapsed

\* One settlement, as Execute, Pause, Cancel and UpdateRate make it.
Settles(amount, s) ==
  \/ /\ SettleSucceeds(stream, now)
     /\ amount = SettledAmount(stream, now)
     /\ s = Settled(stream, now)
  \/ /\ ~Due(stream, now)
     /\ Elapsed(stream, now) >= 0
     /\ amount = 0
     /\ s = stream

\* What every settlement leaves behind, whichever instruction makes it: the
\* debt is cleared, and only the two settlement fields of the account change.
SettlementResult(amount, s) ==
  /\ amount \in Nat
  /\ s \in StreamType
  /\ s.status = stream.status /\ s.pausedAt = stream.pausedAt
  /\ s.rate = stream.rate /\ s.maxRate = stream.maxRate
  /\ s.interval = stream.interval /\ s.cap = stream.cap
  /\ s.total = stream.total + amount
  /\ s.cap # None => s.total <= s.cap
  /\ escrow' \in 0 .. U64Max /\ received' = received + amount
  /\ received' \in Nat /\ escrow' + received' = escrow + received
  /\ waived' \in Nat /\ waived' >= waived
  /\ Meters(stream) => chargedTo' = now /\ received' + waived' = accrued
  /\ ~Meters(stream) => /\ received' = received /\ waived' = waived
                        /\ chargedTo' = chargedTo /\ s = stream
  /\ SettleSucceeds(stream, now) /\ s = Settled(stream, now) /\ Meters(stream)
       => s.lastSettled = now

LEMMA SettlementEffect ==
  ASSUME StreamInv, stream.status # "Absent",
         NEW amount, NEW s, Settles(amount, s), Pay(amount), GiveUp(amount)
  PROVE  SettlementResult(amount, s)
<1>0. /\ TypeOK /\ Funded /\ WellFormed /\ NothingLostOrInvented
      /\ stream \in StreamType /\ now \in 0 .. MaxTime
      /\ received \in Nat /\ escrow \in 0 .. U64Max /\ waived \in Nat
      /\ accrued \in Int
  BY DEF StreamInv, TypeOK
<1>1. ASSUME Meters(stream)
      PROVE  /\ Gross(stream, now) \in Nat
             /\ Charge(stream, now) \in Nat
             /\ Charge(stream, now) <= Gross(stream, now)
             /\ stream.cap # None
                  => stream.total + Charge(stream, now) <= stream.cap
  <2>1. Elapsed(stream, now) >= 0
    BY <1>0, <1>1, FieldTypes DEF Settles, SettleSucceeds, Elapsed
  <2> QED
    BY <1>0, <2>1, ChargeBounds
<1>2. /\ amount \in Nat
      /\ Meters(stream) => amount <= Gross(stream, now)
      /\ ~Meters(stream) => amount = 0 /\ s = stream
  BY <1>1 DEF Settles, SettledAmount, Settled
<1>3. /\ escrow' \in 0 .. U64Max /\ received' = received + amount
      /\ received' \in Nat /\ escrow' + received' = escrow + received
  BY <1>0, <1>2, BoundsAssumption DEF Pay, TransferSucceeds
<1>4. /\ waived' \in Nat /\ waived' >= waived
      /\ Meters(stream) => chargedTo' = now /\ received' + waived' = accrued
      /\ ~Meters(stream) => waived' = waived /\ chargedTo' = chargedTo
  <2>1. CASE ~Meters(stream)
    BY <1>0, <2>1 DEF GiveUp
  <2>2. CASE Meters(stream)
    <3>1. waived' = waived + (Gross(stream, now) - amount) /\ chargedTo' = now
      BY <2>2 DEF GiveUp
    <3>2. accrued = received + waived + Gross(stream, now)
      BY <1>0, <2>2 DEF NothingLostOrInvented, Outstanding
    <3> QED
      BY <1>0, <1>1, <1>2, <1>3, <2>2, <3>1, <3>2
  <2> QED
    BY <2>1, <2>2
<1>5. /\ s \in StreamType
      /\ s.status = stream.status /\ s.pausedAt = stream.pausedAt
      /\ s.rate = stream.rate /\ s.maxRate = stream.maxRate
      /\ s.interval = stream.interval /\ s.cap = stream.cap
      /\ s.total = stream.total + amount
      /\ s.cap # None => s.total <= s.cap
      /\ SettleSucceeds(stream, now) /\ s = Settled(stream, now) /\ Meters(stream)
           => s.lastSettled = now
  <2>1. CASE s = stream /\ amount = 0
    <3>1. stream.total = stream.total + 0
      BY <1>0, FieldTypes
    <3>2. stream.cap # None => stream.total <= stream.cap
      BY <1>0 DEF Funded, LedgerMatchesTokens
    <3>3. ASSUME Meters(stream), stream = Settled(stream, now)
          PROVE  stream.lastSettled = now
      <4>1. stream = [stream EXCEPT !.total = @ + Charge(stream, now),
                                    !.lastSettled = now]
        BY <3>3 DEF Settled
      <4> QED
        BY <1>0, <4>1 DEF StreamType
    <3> QED
      BY <1>0, <2>1, <3>1, <3>2, <3>3
  <2>2. CASE /\ Meters(stream) /\ SettleSucceeds(stream, now)
             /\ s = Settled(stream, now) /\ amount = SettledAmount(stream, now)
    <3>1. amount = Charge(stream, now)
      BY <2>2 DEF SettledAmount
    <3>2. s = [stream EXCEPT !.total = stream.total + amount, !.lastSettled = now]
      BY <2>2, <3>1 DEF Settled
    <3>3. stream.total + amount \in 0 .. U64Max
      BY <1>0, <1>2, <2>2, <3>1, FieldTypes DEF SettleSucceeds
    <3>4. stream.cap # None => stream.total + amount <= stream.cap
      BY <1>1, <2>2, <3>1
    <3> QED
      BY <1>0, <3>2, <3>3, <3>4, SettlementTyped
  <2> QED
    BY <1>2, <2>1, <2>2 DEF Settles
<1>6. ~Meters(stream) => received' = received
  BY <1>0, <1>2, <1>3
<1> QED
  BY <1>2, <1>3, <1>4, <1>5, <1>6, Zenon DEF SettlementResult
------------------------------------------------------------------------------
(* The invariant. *)

\* A stream settled up to this very instant owes nothing.
LEMMA FreshlySettled ==
  ASSUME StreamInv, now' = now, accrued' = accrued,
         stream'.lastSettled = now, stream'.rate \in Nat,
         received' + waived' = accrued
  PROVE  NothingLostOrInvented'
<1>1. now \in Int /\ accrued \in Int
  BY FieldTypes DEF StreamInv, TypeOK
<1>2. Gross(stream, now)' = 0
  BY <1>1 DEF Gross, Elapsed
<1> QED
  BY <1>1, <1>2 DEF NothingLostOrInvented, Outstanding

\* A stopped stream owes nothing either.
LEMMA Stopped ==
  ASSUME StreamInv, accrued' = accrued, ~Meters(stream'),
         received' + waived' = accrued
  PROVE  NothingLostOrInvented'
<1>1. accrued \in Int /\ Outstanding' = 0
  BY DEF StreamInv, TypeOK, Outstanding
<1> QED
  BY <1>1 DEF NothingLostOrInvented

LEMMA CreateKeeps ==
  ASSUME StreamInv, NEW rate \in Rates, NEW maxRate \in Rates, NEW cap \in Caps,
         NEW interval \in Intervals, Create(rate, maxRate, cap, interval)
  PROVE  StreamInv'
<1>0. /\ TypeOK /\ WellFormed /\ Funded /\ NothingLostOrInvented
      /\ now \in 0 .. MaxTime /\ accrued \in Int /\ received \in Nat /\ waived \in Nat
  BY DEF StreamInv, TypeOK
<1>1. stream' = [status |-> "Active", rate |-> rate, maxRate |-> maxRate,
                 lastSettled |-> now, total |-> 0, cap |-> cap,
                 pausedAt |-> None, interval |-> interval]
  BY DEF Create
<1>2. /\ now' = now /\ accrued' = accrued /\ received' = received
      /\ escrow' = escrow /\ waived' = waived /\ chargedTo' = now
      /\ consentedMax' = maxRate /\ paused' = paused
      /\ tokenEnabled' = tokenEnabled
      /\ rate > 0 /\ rate <= maxRate /\ interval >= MinSettleInterval
  BY DEF Create, chain, money
<1>3. /\ rate \in 0 .. U64Max /\ maxRate \in 0 .. U64Max
      /\ cap \in (0 .. U64Max) \cup {None} /\ interval \in Nat
  BY RatesAssumption, CapsAssumption, IntervalsAssumption
<1>4. stream.total = 0 /\ received = 0
  BY <1>0 DEF Create, WellFormed, NoStream, Funded, LedgerMatchesTokens
<1>5. TypeOK'
  BY <1>0, <1>1, <1>2, <1>3, BoundsAssumption DEF TypeOK, StreamType, Statuses
<1>6. WellFormed' /\ Consent' /\ ClockCovered'
  BY <1>0, <1>1, <1>2, <1>3 DEF WellFormed, Consent, ClockCovered, Meters, None
<1>7. Funded'
  BY <1>0, <1>1, <1>2, <1>3, <1>4 DEF Funded, LedgerMatchesTokens
<1>8. NothingLostOrInvented'
  <2>1. received' + waived' = accrued
    BY <1>0, <1>2 DEF Create, NothingLostOrInvented, Outstanding, Meters
  <2> QED
    BY <1>1, <1>2, <1>3, <2>1, FreshlySettled
<1> QED
  BY <1>5, <1>6, <1>7, <1>8 DEF StreamInv

LEMMA ExecuteKeeps ==
  ASSUME StreamInv, NEW who \in Signers, Execute(who)
  PROVE  StreamInv'
<1>0. /\ TypeOK /\ WellFormed /\ Funded /\ ClockCovered /\ Consent
      /\ NothingLostOrInvented /\ stream.status # "Absent"
      /\ stream.rate \in Nat /\ now \in Nat
      /\ now' = now /\ accrued' = accrued /\ consentedMax' = consentedMax
      /\ paused' = paused /\ tokenEnabled' = tokenEnabled
  BY FieldTypes DEF StreamInv, Execute, chain
<1>1. DEFINE amount == SettledAmount(stream, now)
<1>2. /\ stream' = Settled(stream, now)
      /\ Settles(amount, stream') /\ Pay(amount) /\ GiveUp(amount)
      /\ SettleSucceeds(stream, now)
  BY DEF Execute, Settles
<1>3. SettlementResult(amount, stream')
  BY <1>0, <1>2, SettlementEffect
<1>4. TypeOK'
  BY <1>0, <1>3 DEF TypeOK, SettlementResult
<1>5. WellFormed' /\ Consent'
  BY <1>0, <1>3 DEF SettlementResult, WellFormed, Consent
<1>6. Funded'
  BY <1>0, <1>3 DEF SettlementResult, TypeOK, Funded, LedgerMatchesTokens
<1>7. ClockCovered'
  BY <1>0, <1>2, <1>3 DEF SettlementResult, ClockCovered, Meters
<1>8. NothingLostOrInvented'
  <2>1. CASE Meters(stream)
    BY <1>0, <1>2, <1>3, <2>1, FreshlySettled DEF SettlementResult
  <2>2. CASE ~Meters(stream)
    BY <1>0, <1>3, <2>2 DEF SettlementResult, NothingLostOrInvented, Outstanding, Meters
  <2> QED
    BY <2>1, <2>2
<1> QED
  BY <1>4, <1>5, <1>6, <1>7, <1>8 DEF StreamInv

\* Pause and cancel: settle what is due, then stop the meter.
LEMMA StopKeeps ==
  ASSUME StreamInv, stream.status # "Absent", Elapsed(stream, now) >= 0,
         Due(stream, now) => SettleSucceeds(stream, now),
         Pay(DueAmount(stream, now)), GiveUp(DueAmount(stream, now)),
         UNCHANGED <<now, chain, accrued, consentedMax>>,
         NEW status \in {"Paused", "Cancelled"}, NEW at \in {None, now},
         stream' = [AfterDue(stream, now) EXCEPT !.status = status, !.pausedAt = at],
         status = "Paused" <=> at # None,
         status = "Paused" => Meters(stream)
  PROVE  StreamInv'
<1>0. /\ TypeOK /\ WellFormed /\ Funded /\ ClockCovered /\ Consent
      /\ NothingLostOrInvented
      /\ stream.rate \in Nat /\ now \in Nat /\ now \in 0 .. MaxTime
      /\ now' = now /\ accrued' = accrued /\ consentedMax' = consentedMax
      /\ paused' = paused /\ tokenEnabled' = tokenEnabled
  BY FieldTypes DEF StreamInv, TypeOK, chain
<1>1. DEFINE amount == DueAmount(stream, now)
             s      == AfterDue(stream, now)
<1>2. Settles(amount, s)
  <2>1. CASE Due(stream, now)
    BY <2>1 DEF Settles, DueAmount, AfterDue
  <2>2. CASE ~Due(stream, now)
    BY <2>2 DEF Settles, DueAmount, AfterDue
  <2> QED
    BY <2>1, <2>2
<1>3. SettlementResult(amount, s)
  BY <1>2, SettlementEffect
<1>4. /\ s \in StreamType
      /\ stream' = [s EXCEPT !.status = status, !.pausedAt = at]
  BY <1>3 DEF SettlementResult
<1>5. /\ stream' \in StreamType
      /\ stream'.status = status /\ stream'.pausedAt = at
      /\ stream'.rate = s.rate /\ stream'.maxRate = s.maxRate
      /\ stream'.interval = s.interval /\ stream'.cap = s.cap
      /\ stream'.total = s.total
  <2> HIDE DEF s
  <2>1. status \in Statuses /\ at \in (0 .. MaxTime) \cup {None}
    BY <1>0 DEF Statuses
  <2> QED
    BY <1>4, <2>1 DEF StreamType
<1> HIDE DEF s, amount
<1>6. TypeOK'
  <2>1. waived' \in Nat /\ escrow' \in 0 .. U64Max /\ received' \in Nat
    BY <1>3 DEF SettlementResult
  <2>2. chargedTo' \in 0 .. MaxTime
    BY <1>0, <1>3 DEF SettlementResult, TypeOK
  <2> QED
    BY <1>0, <1>5, <2>1, <2>2 DEF TypeOK
<1>7. WellFormed'
  BY <1>0, <1>3, <1>5 DEF SettlementResult, WellFormed
<1>8. Consent'
  BY <1>0, <1>3, <1>5 DEF SettlementResult, Consent
<1>9. Funded'
  BY <1>0, <1>3, <1>5 DEF SettlementResult, TypeOK, Funded, LedgerMatchesTokens
<1>10. ClockCovered'
  BY <1>0, <1>3, <1>5 DEF SettlementResult, ClockCovered, Meters
<1>11. NothingLostOrInvented'
  <2>1. received' + waived' = accrued
    <3>1. CASE Meters(stream)
      BY <1>3, <3>1 DEF SettlementResult
    <3>2. CASE ~Meters(stream)
      BY <1>0, <1>3, <3>2 DEF SettlementResult, NothingLostOrInvented, Outstanding,
                             TypeOK
    <3> QED
      BY <3>1, <3>2
  <2>2. ~Meters(stream')
    BY <1>5 DEF Meters
  <2> QED
    BY <1>0, <2>1, <2>2, Stopped
<1> QED
  BY <1>6, <1>7, <1>8, <1>9, <1>10, <1>11 DEF StreamInv

LEMMA PauseKeeps ==
  ASSUME StreamInv, NEW who \in Signers, Pause(who)
  PROVE  StreamInv'
<1>1. now # None /\ Meters(stream)
  BY FieldTypes DEF StreamInv, Pause, WellFormed, Meters, None
<1> QED
  BY <1>1, StopKeeps DEF Pause

LEMMA CancelKeeps ==
  ASSUME StreamInv, NEW who \in Signers, Cancel(who)
  PROVE  StreamInv'
  BY StopKeeps DEF Cancel

LEMMA ResumeKeeps ==
  ASSUME StreamInv, NEW who \in Signers, Resume(who)
  PROVE  StreamInv'
<1>0. /\ TypeOK /\ WellFormed /\ Funded /\ ClockCovered /\ Consent
      /\ NothingLostOrInvented
      /\ stream.rate \in Nat /\ now \in 0 .. MaxTime /\ accrued \in Int
      /\ stream \in StreamType /\ stream.status = "Paused"
  BY FieldTypes DEF StreamInv, TypeOK, Resume
<1>1. /\ stream' = [stream EXCEPT !.lastSettled = now, !.pausedAt = None,
                                  !.status = "Active"]
      /\ now' = now /\ paused' = paused /\ tokenEnabled' = tokenEnabled
      /\ escrow' = escrow /\ received' = received /\ accrued' = accrued
      /\ waived' = waived /\ chargedTo' = chargedTo
      /\ consentedMax' = consentedMax
  BY DEF Resume, Resumed, chain, money, ghosts
<1>2. /\ stream' \in StreamType
      /\ stream'.status = "Active" /\ stream'.pausedAt = None
      /\ stream'.lastSettled = now
      /\ stream'.rate = stream.rate /\ stream'.maxRate = stream.maxRate
      /\ stream'.interval = stream.interval /\ stream'.cap = stream.cap
      /\ stream'.total = stream.total
  BY <1>0, <1>1 DEF StreamType, Statuses
<1>3. TypeOK'
  BY <1>0, <1>1, <1>2 DEF TypeOK
<1>4. WellFormed' /\ Consent'
  BY <1>0, <1>1, <1>2 DEF WellFormed, Consent
<1>5. Funded'
  BY <1>0, <1>1, <1>2 DEF Funded, LedgerMatchesTokens
<1>6. ClockCovered'
  <2>1. now >= stream.pausedAt /\ stream.pausedAt \in Nat
    BY <1>0, FieldTypes DEF Resume, ClockPastPause
  <2>2. stream.pausedAt >= chargedTo /\ chargedTo \in Nat
    BY <1>0 DEF ClockCovered, TypeOK
  <2> QED
    BY <1>0, <1>1, <1>2, <2>1, <2>2 DEF ClockCovered
<1>7. NothingLostOrInvented'
  <2>1. received' + waived' = accrued
    BY <1>0, <1>1 DEF NothingLostOrInvented, Outstanding, Meters, TypeOK
  <2> QED
    BY <1>0, <1>1, <1>2, <2>1, FreshlySettled
<1> QED
  BY <1>3, <1>4, <1>5, <1>6, <1>7 DEF StreamInv

LEMMA UpdateRateKeeps ==
  ASSUME StreamInv, NEW who \in Signers,
         NEW newRate \in Rates \cup {None}, NEW newMax \in Rates \cup {None},
         UpdateRate(who, newRate, newMax)
  PROVE  StreamInv'
<1>0. /\ TypeOK /\ WellFormed /\ Funded /\ ClockCovered /\ Consent
      /\ NothingLostOrInvented
      /\ stream.rate \in 0 .. U64Max /\ stream.maxRate \in 0 .. U64Max
      /\ consentedMax \in 0 .. U64Max /\ now \in 0 .. MaxTime
      /\ stream.status = "Active" /\ Meters(stream)
  BY DEF StreamInv, TypeOK, StreamType, UpdateRate, WellFormed, Meters
<1>1. DEFINE rate    == IF newRate # None THEN newRate ELSE stream.rate
             maxRate == IF newMax # None THEN newMax ELSE stream.maxRate
             amount  == SettledAmount(stream, now)
             s       == Settled(stream, now)
<1>2. /\ SettleSucceeds(stream, now) /\ Pay(amount) /\ GiveUp(amount)
      /\ stream' = [s EXCEPT !.rate = rate, !.maxRate = maxRate]
      /\ rate <= maxRate /\ newRate # 0
      /\ newMax # None => who = "subscriber"
      /\ consentedMax' = IF newMax # None /\ who = "subscriber" THEN newMax
                         ELSE consentedMax
      /\ now' = now /\ accrued' = accrued
      /\ paused' = paused /\ tokenEnabled' = tokenEnabled
  BY DEF UpdateRate, SubscriberRequired, chain
<1>3. Settles(amount, s)
  BY <1>2 DEF Settles
<1>4. SettlementResult(amount, s)
  BY <1>0, <1>2, <1>3, SettlementEffect
<1>5. /\ rate \in 0 .. U64Max /\ maxRate \in 0 .. U64Max /\ rate > 0
      /\ maxRate <= consentedMax' /\ consentedMax' \in 0 .. U64Max
  BY <1>0, <1>2, RatesAssumption, BoundsAssumption DEF Consent, WellFormed, None
<1>6. s \in StreamType
  BY <1>4 DEF SettlementResult
<1> HIDE DEF rate, maxRate, amount, s
<1>7. /\ stream' \in StreamType
      /\ stream'.rate = rate /\ stream'.maxRate = maxRate
      /\ stream'.status = s.status /\ stream'.pausedAt = s.pausedAt
      /\ stream'.interval = s.interval /\ stream'.cap = s.cap
      /\ stream'.total = s.total /\ stream'.lastSettled = s.lastSettled
  BY <1>2, <1>5, <1>6 DEF StreamType
<1>8. s.lastSettled = now
  BY <1>0, <1>2, <1>4 DEF SettlementResult, s
<1>9. TypeOK'
  BY <1>0, <1>2, <1>4, <1>5, <1>7 DEF SettlementResult, TypeOK
<1>10. WellFormed' /\ Consent'
  BY <1>0, <1>2, <1>4, <1>5, <1>7 DEF SettlementResult, WellFormed, Consent
<1>11. Funded'
  BY <1>0, <1>4, <1>7 DEF SettlementResult, TypeOK, Funded, LedgerMatchesTokens
<1>12. ClockCovered'
  BY <1>0, <1>4, <1>7, <1>8 DEF SettlementResult, ClockCovered
<1>13. NothingLostOrInvented'
  <2>1. received' + waived' = accrued
    BY <1>0, <1>4 DEF SettlementResult
  <2>2. stream'.lastSettled = now /\ stream'.rate \in Nat
    BY <1>5, <1>7, <1>8
  <2> QED
    BY <1>2, <2>1, <2>2, FreshlySettled
<1> QED
  BY <1>9, <1>10, <1>11, <1>12, <1>13 DEF StreamInv

\* Steps that leave the account, the clock and the meter alone.
LEMMA SurroundingsKeep ==
  ASSUME StreamInv, UNCHANGED <<now, stream, received, ghosts>>,
         paused' \in BOOLEAN, tokenEnabled' \in BOOLEAN,
         escrow' \in 0 .. U64Max, escrow' + received <= MaxFunds
  PROVE  StreamInv'
<1>1. UNCHANGED <<now, stream, received, accrued, waived, chargedTo, consentedMax>>
  BY DEF ghosts
<1>2. TypeOK'
  BY <1>1 DEF StreamInv, TypeOK
<1>3. WellFormed' /\ Funded' /\ ClockCovered' /\ Consent' /\ NothingLostOrInvented'
  BY <1>1 DEF StreamInv, WellFormed, Funded, LedgerMatchesTokens, ClockCovered,
              Consent, Meters, NothingLostOrInvented, Outstanding, Gross, Elapsed
<1> QED
  BY <1>2, <1>3 DEF StreamInv

\* The clock moves the ideal meter and the outstanding debt by the same amount.
LEMMA ClockKeeps ==
  ASSUME StreamInv, NEW t \in 0 .. MaxTime, ClockMovesTo(t)
  PROVE  StreamInv'
<1>0. /\ TypeOK /\ stream.rate \in Nat /\ now \in Nat /\ t \in Int
      /\ accrued \in Int /\ received \in Nat /\ waived \in Nat
  BY FieldTypes DEF StreamInv, TypeOK
<1>1. /\ now' = t
      /\ accrued' = accrued + (IF Meters(stream) THEN (t - now) * stream.rate ELSE 0)
      /\ UNCHANGED <<paused, tokenEnabled, stream, escrow, received,
                     waived, chargedTo, consentedMax>>
  BY DEF ClockMovesTo, chain, money
<1>2. (t - now) * stream.rate \in Int
  BY <1>0
<1>3. TypeOK'
  BY <1>0, <1>1, <1>2 DEF TypeOK
<1>4. WellFormed' /\ Funded' /\ ClockCovered' /\ Consent'
  BY <1>1 DEF StreamInv, WellFormed, Funded, LedgerMatchesTokens, ClockCovered,
              Consent, Meters
<1>5. NothingLostOrInvented'
  <2>1. CASE Meters(stream)
    <3>1. Gross(stream, now)' = Gross(stream, now) + (t - now) * stream.rate
      BY <1>0, <1>1, GrossMoves DEF Gross, Elapsed
    <3>2. Gross(stream, now) \in Int
      BY <1>0, FieldTypes DEF Gross, Elapsed
    <3>3. accrued = received + waived + Gross(stream, now)
      BY <2>1 DEF StreamInv, NothingLostOrInvented, Outstanding
    <3>4. accrued' = received' + waived' + Gross(stream, now)'
      BY <1>0, <1>1, <1>2, <2>1, <3>1, <3>2, <3>3
    <3> QED
      BY <1>1, <2>1, <3>4 DEF NothingLostOrInvented, Outstanding, Meters
  <2>2. CASE ~Meters(stream)
    BY <1>0, <1>1, <2>2 DEF StreamInv, NothingLostOrInvented, Outstanding, Meters
  <2> QED
    BY <2>1, <2>2
<1> QED
  BY <1>3, <1>4, <1>5 DEF StreamInv

LEMMA NextKeeps ==
  ASSUME StreamInv, [Next]_vars
  PROVE  StreamInv'
<1>0. /\ paused \in BOOLEAN /\ tokenEnabled \in BOOLEAN
      /\ escrow \in 0 .. U64Max /\ received \in Nat
      /\ escrow + received <= MaxFunds /\ now \in 0 .. MaxTime
  BY DEF StreamInv, TypeOK, Funded
<1>1. ASSUME NEW rate \in Rates, NEW maxRate \in Rates, NEW cap \in Caps,
             NEW interval \in Intervals, Create(rate, maxRate, cap, interval)
      PROVE  StreamInv'
  BY <1>1, CreateKeeps
<1>2. ASSUME NEW who \in Signers, Execute(who) PROVE StreamInv'
  BY <1>2, ExecuteKeeps
<1>3. ASSUME NEW who \in Signers, Pause(who) PROVE StreamInv'
  BY <1>3, PauseKeeps
<1>4. ASSUME NEW who \in Signers, Resume(who) PROVE StreamInv'
  BY <1>4, ResumeKeeps
<1>5. ASSUME NEW who \in Signers, Cancel(who) PROVE StreamInv'
  BY <1>5, CancelKeeps
<1>6. ASSUME NEW who \in Signers, NEW newRate \in Rates \cup {None},
             NEW newMax \in Rates \cup {None}, UpdateRate(who, newRate, newMax)
      PROVE  StreamInv'
  BY <1>6, UpdateRateKeeps
<1>7. ASSUME NEW amount \in Deposits, Fund(amount) PROVE StreamInv'
  <2>1. amount \in Nat
    BY DepositsAssumption
  <2>2. escrow' \in 0 .. U64Max /\ escrow' + received <= MaxFunds
    BY <1>0, <1>7, <2>1, BoundsAssumption DEF Fund
  <2> QED
    BY <1>0, <1>7, <2>2, SurroundingsKeep DEF Fund, chain
<1>8. ASSUME NEW flag \in BOOLEAN, SetPaused(flag) \/ SetTokenEnabled(flag)
      PROVE  StreamInv'
  BY <1>0, <1>8, SurroundingsKeep DEF SetPaused, SetTokenEnabled, money
<1>9. ASSUME Tick \/ StepBack PROVE StreamInv'
  <2>1. /\ now + 1 \in 0 .. MaxTime \/ ~Tick
        /\ now - 1 \in 0 .. MaxTime \/ ~StepBack
    BY <1>0, BoundsAssumption DEF Tick, StepBack
  <2> QED
    BY <1>9, <2>1, ClockKeeps DEF Tick, StepBack
<1>10. CASE UNCHANGED vars
  BY <1>0, <1>10, SurroundingsKeep DEF vars, ghosts
<1> QED
  BY <1>1, <1>2, <1>3, <1>4, <1>5, <1>6, <1>7, <1>8, <1>9, <1>10 DEF Next

LEMMA InitHolds == Init => StreamInv
<1> SUFFICES ASSUME Init PROVE StreamInv
  OBVIOUS
<1>1. TypeOK
  <2>1. 0 \in 0 .. U64Max /\ 0 \in 0 .. MaxTime /\ 0 \in Nat /\ 0 \in Int
    BY BoundsAssumption
  <2>2. NoStream \in StreamType
    BY <2>1 DEF StreamType, NoStream, Statuses
  <2> QED
    BY <2>1, <2>2 DEF Init, TypeOK
<1>2. WellFormed /\ Funded /\ ClockCovered /\ Consent
  BY BoundsAssumption DEF Init, WellFormed, Funded, LedgerMatchesTokens,
        ClockCovered, Consent, Meters, NoStream, None
<1>3. NothingLostOrInvented
  BY DEF Init, NothingLostOrInvented, Outstanding, Meters, NoStream
<1> QED
  BY <1>1, <1>2, <1>3 DEF StreamInv

\* Every reachable state satisfies the inductive invariant: types, well-formed
\* accounts, exact books, no instant charged twice, consent, conservation.
THEOREM StreamInvariant == Spec => []StreamInv
<1>1. StreamInv /\ [Next]_vars => StreamInv'
  BY NextKeeps
<1> QED
  BY <1>1, InitHolds, PTL DEF Spec

\* Totals fit their machine integers and every account field keeps its range.
THEOREM StreamTypes == Spec => []TypeOK
<1>1. StreamInv => TypeOK
  BY DEF StreamInv
<1> QED
  BY <1>1, StreamInvariant, PTL

\* Nothing is lost or invented between the ideal meter and the books.
THEOREM Conservation == Spec => []NothingLostOrInvented
<1>1. StreamInv => NothingLostOrInvented
  BY DEF StreamInv
<1> QED
  BY <1>1, StreamInvariant, PTL

\* total_streamed is what the merchant got, and stays within the cap.
THEOREM BooksAreExact == Spec => []LedgerMatchesTokens
<1>1. StreamInv => LedgerMatchesTokens
  BY DEF StreamInv, Funded
<1> QED
  BY <1>1, StreamInvariant, PTL

\* No second is charged twice, whatever the cluster clock does.
THEOREM NoDoubleCharge == Spec => []NoSecondChargedTwice
<1>1. StreamInv => NoSecondChargedTwice
  BY DEF StreamInv, ClockCovered, NoSecondChargedTwice
<1> QED
  BY <1>1, StreamInvariant, PTL

\* The rate never exceeds what the subscriber signed.
THEOREM ConsentHolds == Spec => []RateWithinConsent
<1>1. StreamInv => RateWithinConsent
  <2>1. StreamInv => /\ stream.rate \in Nat /\ stream.maxRate \in Nat
                     /\ consentedMax \in Int /\ Consent
    BY FieldTypes DEF StreamInv, TypeOK
  <2> QED
    BY <2>1 DEF Consent, RateWithinConsent
<1> QED
  BY <1>1, StreamInvariant, PTL

\* The hook and the settlement helper compute the same limit.
THEOREM HookAgreement == Spec => []HookAgreesWithSettlement
<1>1. ASSUME StreamInv, Meters(stream), SettleSucceeds(stream, now),
             NEW amount \in 1 .. U64Max
      PROVE  HookAllowsStream(stream, now, amount) <=> amount <= Charge(stream, now)
  <2>1. /\ TypeOK /\ Funded /\ amount \in Nat
        /\ stream.total \in Nat /\ stream.cap \in Nat \cup {None}
        /\ stream.status = "Active"
        /\ Elapsed(stream, now) >= stream.interval /\ Elapsed(stream, now) \in Int
        /\ stream.interval \in Nat
    BY <1>1, FieldTypes, BoundsAssumption
       DEF StreamInv, Meters, SettleSucceeds, Elapsed
  <2>2. Elapsed(stream, now) >= 0
    BY <2>1
  <2>3. Gross(stream, now) \in Nat
    BY <2>1, <2>2, ChargeBounds
  <2> QED
    BY <2>1, <2>2, <2>3 DEF HookAllowsStream, Charge, Remaining
<1>2. StreamInv => HookAgreesWithSettlement
  BY <1>1 DEF HookAgreesWithSettlement
<1> QED
  BY <1>2, StreamInvariant, PTL
------------------------------------------------------------------------------
(* What a step may give up, and the refinement. *)

LEMMA ShortIntervalCostsLess ==
  ASSUME NEW elapsed \in Nat, NEW interval \in Nat, NEW rate \in Nat,
         elapsed < interval, rate > 0
  PROVE  elapsed * rate < interval * rate
<1>1. PICK d \in Nat : d > 0 /\ interval = elapsed + d
  <2>1. interval - elapsed \in Nat /\ interval - elapsed > 0
    OBVIOUS
  <2> QED
    BY <2>1
<1>2. interval * rate = elapsed * rate + d * rate
  BY <1>1
<1>3. d * rate > 0 /\ d * rate \in Nat /\ elapsed * rate \in Nat
  BY <1>1
<1> QED
  BY <1>2, <1>3

\* The disjunction ForfeitsLessThanAnInterval makes of a step.
SmallForfeit ==
  \/ waived' - waived < stream.interval * stream.rate
  \/ waived' = waived
  \/ stream.cap # None /\ stream'.total = stream.cap

\* A settlement gives up less than an interval unless the cap refused the rest.
LEMMA SettlementForfeit ==
  ASSUME StreamInv, stream.status # "Absent",
         NEW amount, NEW s, Settles(amount, s), Pay(amount), GiveUp(amount),
         stream'.total = s.total
  PROVE  SmallForfeit
<1>0. /\ TypeOK /\ Funded /\ WellFormed /\ waived \in Nat
      /\ stream.rate \in Nat /\ stream.interval \in Nat /\ now \in Int
      /\ stream.lastSettled \in Int /\ stream.total \in Nat
      /\ stream.cap \in Nat \cup {None} /\ stream.rate > 0
  BY FieldTypes DEF StreamInv, TypeOK, WellFormed
<1>1. SettlementResult(amount, s)
  BY SettlementEffect
<1>2. CASE ~Meters(stream)
  BY <1>1, <1>2 DEF SettlementResult, SmallForfeit
<1>3. CASE Meters(stream) /\ ~Due(stream, now) /\ Elapsed(stream, now) >= 0 /\ amount = 0
  <2>1. Elapsed(stream, now) \in Nat /\ Elapsed(stream, now) < stream.interval
    BY <1>0, <1>3 DEF Elapsed, Due, Meters
  <2>2. Gross(stream, now) < stream.interval * stream.rate /\ Gross(stream, now) \in Nat
    BY <1>0, <2>1, ShortIntervalCostsLess DEF Gross
  <2>3. waived' = waived + Gross(stream, now)
    BY <1>0, <1>3, <2>2 DEF GiveUp
  <2> QED
    BY <1>0, <2>2, <2>3 DEF SmallForfeit
<1>4. CASE Meters(stream) /\ SettleSucceeds(stream, now) /\ amount = Charge(stream, now)
  <2>1. Elapsed(stream, now) >= 0
    BY <1>0, <1>4 DEF SettleSucceeds, Elapsed
  <2>2. Gross(stream, now) \in Nat
    BY <1>0, <2>1, ChargeBounds
  <2>3. waived' = waived + (Gross(stream, now) - amount)
    BY <1>4 DEF GiveUp
  <2>4. CASE amount = Gross(stream, now)
    BY <1>0, <2>2, <2>3, <2>4 DEF SmallForfeit
  <2>5. CASE stream.cap # None /\ amount = Remaining(stream)
    BY <1>0, <1>1, <2>5 DEF SettlementResult, Remaining, SmallForfeit
  <2> QED
    BY <1>4, <2>4, <2>5 DEF Charge
<1> QED
  BY <1>2, <1>3, <1>4 DEF Settles, SettledAmount

\* The money side of a step: either the books of the stream stand still, or
\* one settlement is made and the account keeps its total.
LEMMA StepShape ==
  ASSUME StreamInv, [Next]_vars
  PROVE  \/ received' = received /\ waived' = waived
         \/ /\ stream.status # "Absent" /\ accrued' = accrued
            /\ stream'.status \in {stream.status, "Paused", "Cancelled"}
            /\ \E amount, s : /\ Settles(amount, s) /\ Pay(amount) /\ GiveUp(amount)
                              /\ stream'.total = s.total
<1>0. stream \in StreamType
  BY DEF StreamInv, TypeOK
<1>1. ASSUME NEW who \in Signers, Execute(who)
      PROVE  /\ Settles(SettledAmount(stream, now), stream')
             /\ Pay(SettledAmount(stream, now)) /\ GiveUp(SettledAmount(stream, now))
             /\ stream.status # "Absent" /\ accrued' = accrued
             /\ stream'.status = stream.status
  <2>1. Settles(SettledAmount(stream, now), stream')
    BY <1>1 DEF Execute, Settles
  <2> QED
    BY <1>0, <1>1, <2>1 DEF Execute, Settled, StreamType
<1>2. ASSUME NEW who \in Signers, Pause(who) \/ Cancel(who)
      PROVE  /\ Settles(DueAmount(stream, now), AfterDue(stream, now))
             /\ Pay(DueAmount(stream, now)) /\ GiveUp(DueAmount(stream, now))
             /\ stream'.total = AfterDue(stream, now).total
             /\ stream.status # "Absent" /\ accrued' = accrued
             /\ stream'.status \in {"Paused", "Cancelled"}
  <2>1. /\ Due(stream, now) => SettleSucceeds(stream, now)
        /\ Elapsed(stream, now) >= 0
        /\ Pay(DueAmount(stream, now)) /\ GiveUp(DueAmount(stream, now))
        /\ stream.status # "Absent" /\ accrued' = accrued
    BY <1>2 DEF Pause, Cancel
  <2>2. Settles(DueAmount(stream, now), AfterDue(stream, now))
    BY <2>1 DEF Settles, DueAmount, AfterDue
  <2>3. AfterDue(stream, now) \in StreamType
    BY <2>1, <2>2, SettlementEffect DEF SettlementResult
  <2>4. /\ stream'.total = AfterDue(stream, now).total
        /\ stream'.status \in {"Paused", "Cancelled"}
    BY <1>2, <2>3 DEF Pause, Cancel, StreamType
  <2> QED
    BY <2>1, <2>2, <2>4
<1>3. ASSUME NEW who \in Signers, NEW newRate \in Rates \cup {None},
             NEW newMax \in Rates \cup {None}, UpdateRate(who, newRate, newMax)
      PROVE  /\ Settles(SettledAmount(stream, now), Settled(stream, now))
             /\ Pay(SettledAmount(stream, now)) /\ GiveUp(SettledAmount(stream, now))
             /\ stream'.total = Settled(stream, now).total
             /\ stream.status # "Absent" /\ accrued' = accrued
             /\ stream'.status = stream.status
  <2>1. /\ SettleSucceeds(stream, now)
        /\ Pay(SettledAmount(stream, now)) /\ GiveUp(SettledAmount(stream, now))
        /\ stream.status # "Absent" /\ accrued' = accrued
    BY <1>3 DEF UpdateRate
  <2>2. Settles(SettledAmount(stream, now), Settled(stream, now))
    BY <2>1 DEF Settles
  <2>3. /\ Settled(stream, now) \in StreamType
        /\ Settled(stream, now).status = stream.status
    BY <2>1, <2>2, SettlementEffect DEF SettlementResult
  <2>4. /\ stream'.total = Settled(stream, now).total
        /\ stream'.status = Settled(stream, now).status
    BY <1>3, <2>3 DEF UpdateRate, StreamType
  <2> QED
    BY <2>1, <2>2, <2>3, <2>4
<1>4. ASSUME \/ \E rate, maxRate \in Rates, cap \in Caps, interval \in Intervals :
                   Create(rate, maxRate, cap, interval)
             \/ \E who \in Signers : Resume(who)
             \/ \E amount \in Deposits : Fund(amount)
             \/ \E flag \in BOOLEAN : SetPaused(flag) \/ SetTokenEnabled(flag)
             \/ Tick \/ StepBack \/ UNCHANGED vars
      PROVE  received' = received /\ waived' = waived
  BY <1>4 DEF Create, Resume, Fund, SetPaused, SetTokenEnabled, Tick, StepBack,
              ClockMovesTo, money, ghosts, vars
<1> QED
  BY <1>1, <1>2, <1>3, <1>4 DEF Next

\* Pausing or cancelling never costs the merchant a full settlement interval.
THEOREM ForfeitIsBounded == Spec => ForfeitsLessThanAnInterval
<1>1. ASSUME StreamInv, [Next]_vars PROVE SmallForfeit
  BY <1>1, StepShape, SettlementForfeit DEF SmallForfeit
<1>2. StreamInv /\ [Next]_vars =>
        [waived' - waived < stream.interval * stream.rate
         \/ waived' = waived
         \/ (stream.cap # None /\ stream'.total = stream.cap)]_vars
  BY <1>1 DEF SmallForfeit
<1> QED
  BY <1>2, StreamInvariant, PTL DEF Spec, ForfeitsLessThanAnInterval

\* The phases the abstract stream goes through.
LEMMA PhaseValues ==
  /\ stream.status = "Absent" => Phase = "unopened"
  /\ stream.status = "Active" => Phase = "running"
  /\ stream.status = "Paused" => Phase = "halted"
  /\ stream.status = "Cancelled" => Phase = "closed"
  BY DEF Phase

LEMMA PhaseValuesNext ==
  /\ stream'.status = "Absent" => Phase' = "unopened"
  /\ stream'.status = "Active" => Phase' = "running"
  /\ stream'.status = "Paused" => Phase' = "halted"
  /\ stream'.status = "Cancelled" => Phase' = "closed"
  BY DEF Phase

\* A settlement of a running stream is the abstract Settle.
LEMMA SettleRefines ==
  ASSUME StreamInv, Meters(stream), accrued' = accrued,
         stream'.status \in {"Active", "Paused", "Cancelled"},
         NEW amount, NEW s, Settles(amount, s), Pay(amount), GiveUp(amount)
  PROVE  Ledger!Settle
<1>1. SettlementResult(amount, s)
  BY SettlementEffect DEF Meters
<1>2. /\ received \in Nat /\ waived \in Nat /\ accrued \in Int
  BY DEF StreamInv, TypeOK
<1>3. /\ received' >= received /\ waived' >= waived
      /\ received' + waived' = accrued /\ received' \in Nat /\ waived' \in Nat
  <2>1. /\ amount \in Nat /\ received' = received + amount
        /\ waived' \in Nat /\ waived' >= waived
        /\ received' + waived' = accrued /\ received' \in Nat
    BY <1>1, Zenon DEF SettlementResult
  <2>2. \A r, a \in Nat : r + a >= r
    OBVIOUS
  <2> QED
    BY <1>2, <2>1, <2>2, Zenon
<1>4. Ledger!Debt' = 0
  <2>1. \A r, w \in Nat : (r + w) - r - w = 0
    OBVIOUS
  <2>2. accrued' - received' - waived' = 0
    BY <1>3, <2>1, Zenon
  <2> QED
    BY <2>2 DEF Ledger!Debt
<1>5. Phase = "running" /\ Phase' \in {"running", "halted", "closed"}
  BY PhaseValues, PhaseValuesNext DEF Meters
<1> QED
  BY <1>3, <1>4, <1>5 DEF Ledger!Settle

\* Every step of the instructions is a step of the abstract stream or none.
LEMMA StepRefines ==
  ASSUME StreamInv, [Next]_vars
  PROVE  [Ledger!Next]_(Ledger!vars)
<1>0. /\ stream \in StreamType /\ stream.status \in Statuses /\ WellFormed
      /\ received \in Nat /\ waived \in Nat /\ accrued \in Int /\ TypeOK
  BY FieldTypes DEF StreamInv, TypeOK
<1>1. ASSUME NEW rate \in Rates, NEW maxRate \in Rates, NEW cap \in Caps,
             NEW interval \in Intervals, Create(rate, maxRate, cap, interval)
      PROVE  Ledger!Open
  <2>1. stream'.status = "Active" /\ stream.status = "Absent"
        /\ UNCHANGED <<accrued, received, waived>>
    BY <1>1 DEF Create, money
  <2> QED
    BY <2>1, PhaseValues, PhaseValuesNext DEF Ledger!Open
<1>2. ASSUME NEW who \in Signers, Execute(who)
      PROVE  Ledger!Settle \/ UNCHANGED Ledger!vars
  <2>1. /\ Settles(SettledAmount(stream, now), stream')
        /\ Pay(SettledAmount(stream, now)) /\ GiveUp(SettledAmount(stream, now))
        /\ accrued' = accrued /\ stream.status # "Absent"
    BY <1>2 DEF Execute, Settles
  <2>2. SettlementResult(SettledAmount(stream, now), stream')
    BY <2>1, SettlementEffect
  <2>3. CASE Meters(stream)
    <3>1. stream'.status = "Active"
      BY <2>2, <2>3 DEF SettlementResult, Meters
    <3> QED
      BY <2>1, <2>3, <3>1, SettleRefines
  <2>4. CASE ~Meters(stream)
    BY <2>1, <2>2, <2>4 DEF SettlementResult, Ledger!vars, Phase
  <2> QED
    BY <2>3, <2>4
<1>3. ASSUME NEW who \in Signers, Pause(who) \/ Cancel(who)
      PROVE  Ledger!Settle \/ Ledger!Close
  <2>1. /\ Due(stream, now) => SettleSucceeds(stream, now)
        /\ Elapsed(stream, now) >= 0 /\ stream.status # "Absent"
        /\ Pay(DueAmount(stream, now)) /\ GiveUp(DueAmount(stream, now))
        /\ accrued' = accrued
        /\ Pause(who) => stream.status = "Active"
    BY <1>3 DEF Pause, Cancel
  <2>2. Settles(DueAmount(stream, now), AfterDue(stream, now))
    BY <2>1 DEF Settles, DueAmount, AfterDue
  <2>3. SettlementResult(DueAmount(stream, now), AfterDue(stream, now))
    BY <2>1, <2>2, SettlementEffect
  <2>4. /\ Pause(who) => stream'.status = "Paused"
        /\ Cancel(who) => stream'.status = "Cancelled"
    BY <2>3 DEF SettlementResult, Pause, Cancel, StreamType
  <2>5. CASE Meters(stream)
    BY <1>3, <2>1, <2>2, <2>4, <2>5, SettleRefines
  <2>6. CASE ~Meters(stream)
    <3>1. stream.status = "Paused" /\ stream'.status = "Cancelled"
      BY <1>0, <1>3, <2>1, <2>4, <2>6 DEF Meters, WellFormed, Cancel
    <3>2. UNCHANGED <<accrued, received, waived>>
      BY <2>1, <2>3, <2>6 DEF SettlementResult
    <3> QED
      BY <3>1, <3>2, PhaseValues, PhaseValuesNext DEF Ledger!Close
  <2> QED
    BY <2>5, <2>6
<1>4. ASSUME NEW who \in Signers, Resume(who)
      PROVE  Ledger!Continue
  <2>1. stream.status = "Paused" /\ UNCHANGED <<accrued, received, waived>>
    BY <1>4 DEF Resume, money, ghosts
  <2>2. stream'.status = "Active"
    BY <1>0, <1>4 DEF Resume, Resumed, StreamType
  <2> QED
    BY <2>1, <2>2, PhaseValues, PhaseValuesNext DEF Ledger!Continue
<1>5. ASSUME NEW who \in Signers, NEW newRate \in Rates \cup {None},
             NEW newMax \in Rates \cup {None}, UpdateRate(who, newRate, newMax)
      PROVE  Ledger!Settle
  <2>1. /\ SettleSucceeds(stream, now) /\ stream.status = "Active"
        /\ Pay(SettledAmount(stream, now)) /\ GiveUp(SettledAmount(stream, now))
        /\ accrued' = accrued
    BY <1>5 DEF UpdateRate
  <2>2. Settles(SettledAmount(stream, now), Settled(stream, now)) /\ Meters(stream)
    BY <1>0, <2>1 DEF Settles, Meters, WellFormed
  <2>3. /\ Settled(stream, now) \in StreamType
        /\ Settled(stream, now).status = stream.status
    BY <2>1, <2>2, SettlementEffect DEF SettlementResult
  <2>4. stream'.status = "Active"
    BY <1>5, <2>1, <2>3 DEF UpdateRate, StreamType
  <2> QED
    BY <2>1, <2>2, <2>4, SettleRefines
<1>6. ASSUME NEW t \in 0 .. MaxTime, ClockMovesTo(t)
      PROVE  Ledger!Run \/ UNCHANGED Ledger!vars
  <2>1. /\ UNCHANGED <<stream, received, waived>>
        /\ accrued' = accrued + (IF Meters(stream) THEN (t - now) * stream.rate ELSE 0)
    BY <1>6 DEF ClockMovesTo, money
  <2>2. CASE Meters(stream)
    <3>1. accrued' \in Int
      BY <1>0, <2>1, <2>2, FieldTypes
    <3>2. Phase = "running" /\ Phase' = "running"
      BY <2>1, <2>2, PhaseValues, PhaseValuesNext DEF Meters
    <3> QED
      BY <2>1, <3>1, <3>2 DEF Ledger!Run
  <2>3. CASE ~Meters(stream)
    BY <1>0, <2>1, <2>3 DEF Ledger!vars, Phase
  <2> QED
    BY <2>2, <2>3
<1>7. ASSUME Tick \/ StepBack PROVE Ledger!Run \/ UNCHANGED Ledger!vars
  <2>1. /\ now + 1 \in 0 .. MaxTime \/ ~Tick
        /\ now - 1 \in 0 .. MaxTime \/ ~StepBack
    BY <1>0, FieldTypes, BoundsAssumption DEF Tick, StepBack
  <2> QED
    BY <1>6, <1>7, <2>1 DEF Tick, StepBack
<1>8. ASSUME \/ \E amount \in Deposits : Fund(amount)
             \/ \E flag \in BOOLEAN : SetPaused(flag) \/ SetTokenEnabled(flag)
             \/ UNCHANGED vars
      PROVE  UNCHANGED Ledger!vars
  BY <1>8 DEF Fund, SetPaused, SetTokenEnabled, money, ghosts, vars, Ledger!vars, Phase
<1> QED
  BY <1>1, <1>2, <1>3, <1>4, <1>5, <1>7, <1>8 DEF Next, Ledger!Next

\* The streaming instructions implement the abstract payment stream.
THEOREM StreamImplementsLedger == Spec => ImplementsLedger
<1>1. Init => Ledger!Init
  BY PhaseValues DEF Init, Ledger!Init, NoStream
<1>2. StreamInv /\ [Next]_vars => [Ledger!Next]_(Ledger!vars)
  BY StepRefines
<1> QED
  BY <1>1, <1>2, StreamInvariant, PTL DEF Spec, ImplementsLedger, Ledger!Spec
=============================================================================
