---------------------------- MODULE StreamMandate ----------------------------
(***************************************************************************)
(* One payment stream: the StreamMandate account, the token account its    *)
(* address owns, and the instructions of instructions/streaming/, with the *)
(* limit the transfer-hook program enforces on every token movement out of *)
(* that account.                                                           *)
(*                                                                         *)
(* An instruction is one Solana transaction: an error undoes everything,   *)
(* so each handler is one action whose guard is the conjunction of its     *)
(* require!s.  The merchant's stream counter only names the account; the   *)
(* module follows one account, so the counter is abstracted away.          *)
(***************************************************************************)
EXTENDS Integers

CONSTANTS
  Rates,              \* rates and maximum rates a caller may ask for
  Caps,               \* max_streamed values, None for an uncapped stream
  Intervals,          \* min_settle_interval values a caller may ask for
  MinSettleInterval,  \* 60 seconds in the code
  U64Max,             \* 2^64 - 1 in the code
  Deposits,           \* amounts a wallet may send to the escrow
  MaxFunds,           \* bound: tokens ever sent to the escrow
  MaxTime,            \* bound: the last instant of the clock
  ClockStepsBack      \* may the cluster clock be observed to go back?

None == -1            \* Rust's Option::None for the cap and paused_at

ASSUME RatesAssumption     == Rates \subseteq 0 .. U64Max
ASSUME CapsAssumption      == Caps \subseteq (0 .. U64Max) \cup {None}
ASSUME IntervalsAssumption == Intervals \subseteq Nat
ASSUME BoundsAssumption    == /\ MinSettleInterval \in Nat \ {0}
                              /\ U64Max \in Nat
                              /\ MaxFunds \in 0 .. U64Max
                              /\ MaxTime \in Nat
ASSUME DepositsAssumption  == Deposits \subseteq Nat
ASSUME ClockAssumption     == ClockStepsBack \in BOOLEAN

VARIABLES
  now,           \* Clock::unix_timestamp
  paused,        \* ProtocolConfig.paused
  tokenEnabled,  \* TokenConfig.enabled
  stream,        \* the StreamMandate account
  escrow,        \* wrapped tokens in the account the stream's address owns
  received,      \* wrapped tokens the merchant got from this stream
  \* History variables: no action's guard reads them.
  accrued,       \* the ideal meter: rate times seconds spent Active
  waived,        \* accrued, and given up for good by a settlement
  chargedTo,     \* the stream's time has been dealt with up to this instant
  consentedMax   \* the highest rate the subscriber's own signature allows

chain  == <<paused, tokenEnabled>>
money  == <<escrow, received>>
ghosts == <<accrued, waived, chargedTo, consentedMax>>
vars   == <<now, paused, tokenEnabled, stream, escrow, received,
            accrued, waived, chargedTo, consentedMax>>

Signers  == {"subscriber", "merchant", "keeper", "stranger"}
Statuses == {"Absent", "Active", "Paused", "Cancelled"}

NoStream == [status |-> "Absent", rate |-> 0, maxRate |-> 0,
             lastSettled |-> 0, total |-> 0, cap |-> None,
             pausedAt |-> None, interval |-> 0]

------------------------------------------------------------------------------
(* settle_accrued_in_place: the arithmetic every paying instruction shares. *)

Elapsed(s, t) == t - s.lastSettled
Gross(s, t)   == Elapsed(s, t) * s.rate

\* What is left of the cap; meaningful only for a capped stream.
Remaining(s)  == s.cap - s.total

Charge(s, t) ==
  IF s.cap # None /\ Remaining(s) < Gross(s, t) THEN Remaining(s) ELSE Gross(s, t)

Meters(s) == s.status = "Active" /\ s.pausedAt = None

SettleRefusingFullCap(s, t) ==
  Meters(s) => /\ Elapsed(s, t) >= s.interval
               /\ s.cap # None => Remaining(s) > 0
               /\ Charge(s, t) <= U64Max
               /\ s.total + Charge(s, t) <= U64Max
\* The helper returns an error rather than an amount when this is false.
SettleSucceeds(s, t) ==
  Meters(s) => /\ Elapsed(s, t) >= s.interval
               /\ s.cap # None => Remaining(s) >= 0
               /\ Charge(s, t) <= U64Max
               /\ s.total + Charge(s, t) <= U64Max

SettledAmount(s, t) == IF Meters(s) THEN Charge(s, t) ELSE 0

SettledKeepingClock(s, t) ==
  IF Meters(s) THEN [s EXCEPT !.total = @ + Charge(s, t),
                              !.lastSettled = IF Charge(s, t) > 0 THEN t ELSE @]
  ELSE s

SettledForgettingTotal(s, t) ==
  IF Meters(s) THEN [s EXCEPT !.lastSettled = t] ELSE s

Settled(s, t) ==
  IF Meters(s) THEN [s EXCEPT !.total = @ + Charge(s, t), !.lastSettled = t]
  ELSE s

------------------------------------------------------------------------------
(* The token transfer: Token-2022 moves the escrow only if the hook agrees. *)

\* The stream branch of the transfer hook.  It reads the stream as it was
\* before the instruction, since handlers write it back after the transfer.
HookAllowsUpToCap(s, t, amount) ==
  /\ s.status = "Active"
  /\ Elapsed(s, t) >= 0
  /\ Elapsed(s, t) >= s.interval
  /\ amount <= Gross(s, t)
  /\ s.cap # None => amount <= s.cap

HookAllowsStream(s, t, amount) ==
  /\ s.status = "Active"
  /\ Elapsed(s, t) >= 0
  /\ Elapsed(s, t) >= s.interval
  /\ amount <= Gross(s, t)
  /\ s.cap # None => s.total + amount <= s.cap

TransferIgnoringBalance(amount) ==
  tokenEnabled /\ HookAllowsStream(stream, now, amount)

TransferSucceeds(amount) ==
  /\ tokenEnabled
  /\ HookAllowsStream(stream, now, amount)
  /\ amount <= escrow

\* Handlers skip the transfer of a zero amount altogether.
Pay(amount) ==
  /\ amount > 0 => TransferSucceeds(amount)
  /\ escrow' = escrow - amount
  /\ received' = received + amount

\* Pause and cancel settle only when a whole interval has passed.
DueLate(s, t)    == s.status = "Active" /\ Elapsed(s, t) > s.interval
Due(s, t)        == s.status = "Active" /\ Elapsed(s, t) >= s.interval
DueAmount(s, t)  == IF Due(s, t) THEN SettledAmount(s, t) ELSE 0
AfterDue(s, t)   == IF Due(s, t) THEN Settled(s, t) ELSE s

\* History: what a settlement or a stop leaves unpaid is given up.
GiveUp(amount) ==
  /\ waived' = waived + (IF Meters(stream) THEN Gross(stream, now) - amount ELSE 0)
  /\ chargedTo' = IF Meters(stream) THEN now ELSE chargedTo
------------------------------------------------------------------------------
(* The instructions. *)

Create(rate, maxRate, cap, interval) ==
  /\ stream.status = "Absent"
  /\ interval >= MinSettleInterval
  /\ rate > 0
  /\ rate <= maxRate
  /\ tokenEnabled
  /\ stream' = [status |-> "Active", rate |-> rate, maxRate |-> maxRate,
                lastSettled |-> now, total |-> 0, cap |-> cap,
                pausedAt |-> None, interval |-> interval]
  /\ chargedTo' = now
  /\ consentedMax' = maxRate
  /\ UNCHANGED <<now, chain, money, accrued, waived>>

Execute(who) ==
  /\ stream.status # "Absent"
  /\ ~paused
  /\ who \in {"keeper", "merchant", "subscriber"}
  /\ SettleSucceeds(stream, now)
  /\ Pay(SettledAmount(stream, now))
  /\ stream' = Settled(stream, now)
  /\ GiveUp(SettledAmount(stream, now))
  /\ UNCHANGED <<now, chain, accrued, consentedMax>>

IsParty(who) == who \in {"subscriber", "merchant"}

Pause(who) ==
  /\ stream.status = "Active"
  /\ ~paused
  /\ IsParty(who)
  /\ Elapsed(stream, now) >= 0
  /\ Due(stream, now) => SettleSucceeds(stream, now)
  /\ Pay(DueAmount(stream, now))
  /\ stream' = [AfterDue(stream, now) EXCEPT !.status = "Paused", !.pausedAt = now]
  /\ GiveUp(DueAmount(stream, now))
  /\ UNCHANGED <<now, chain, accrued, consentedMax>>

\* The clock must not be behind the pause; dropping this is a plausible slip.
ClockAnywhere(s, t)  == TRUE
ClockPastPause(s, t) == t - s.pausedAt >= 0

ResumedFromLastSettlement(s, t) ==
  [s EXCEPT !.pausedAt = None, !.status = "Active"]
Resumed(s, t) ==
  [s EXCEPT !.lastSettled = t, !.pausedAt = None, !.status = "Active"]

\* The one instruction that consults neither the pause switch nor the helper.
Resume(who) ==
  /\ stream.status = "Paused"
  /\ IsParty(who)
  /\ stream.pausedAt # None
  /\ ClockPastPause(stream, now)
  /\ stream' = Resumed(stream, now)
  /\ UNCHANGED <<now, chain, money, ghosts>>

Cancel(who) ==
  /\ stream.status \in {"Active", "Paused"}
  /\ ~paused
  /\ IsParty(who)
  /\ Elapsed(stream, now) >= 0
  /\ Due(stream, now) => SettleSucceeds(stream, now)
  /\ Pay(DueAmount(stream, now))
  /\ stream' = [AfterDue(stream, now) EXCEPT !.status = "Cancelled", !.pausedAt = None]
  /\ GiveUp(DueAmount(stream, now))
  /\ UNCHANGED <<now, chain, accrued, consentedMax>>

\* A new maximum, or a rate above the old one, takes the subscriber.
OnlyRateNeedsSubscriber(s, newRate, newMax) == newRate # None /\ newRate > s.maxRate
SubscriberRequired(s, newRate, newMax) ==
  newMax # None \/ (newRate # None /\ newRate > s.maxRate)

UpdateRate(who, newRate, newMax) ==
  LET rate    == IF newRate # None THEN newRate ELSE stream.rate
      maxRate == IF newMax # None THEN newMax ELSE stream.maxRate
      amount  == SettledAmount(stream, now)
  IN /\ stream.status = "Active"
     /\ ~paused
     /\ IsParty(who)
     /\ newRate # None \/ newMax # None
     /\ SubscriberRequired(stream, newRate, newMax) => who = "subscriber"
     /\ newRate # 0
     /\ SettleSucceeds(stream, now)
     /\ Pay(amount)
     /\ rate <= maxRate
     /\ amount <= U64Max \div 2          \* i64::try_from(settle_amount)
     /\ stream' = [Settled(stream, now) EXCEPT !.rate = rate, !.maxRate = maxRate]
     /\ GiveUp(amount)
     /\ consentedMax' = IF newMax # None /\ who = "subscriber" THEN newMax
                        ELSE consentedMax
     /\ UNCHANGED <<now, chain, accrued>>
------------------------------------------------------------------------------
(* The surroundings: wallets, the admin, the clock. *)

\* A wallet-owned source passes the hook as soon as the token is enabled.
Fund(amount) ==
  /\ tokenEnabled
  /\ escrow + received + amount <= MaxFunds
  /\ escrow' = escrow + amount
  /\ UNCHANGED <<now, chain, stream, received, ghosts>>

SetPaused(flag) ==
  /\ paused' = flag
  /\ UNCHANGED <<now, tokenEnabled, stream, money, ghosts>>

SetTokenEnabled(flag) ==
  /\ tokenEnabled' = flag
  /\ UNCHANGED <<now, paused, stream, money, ghosts>>

\* The meter follows the clock while the stream is Active.
ClockMovesTo(t) ==
  /\ now' = t
  /\ accrued' = accrued + (IF Meters(stream) THEN (t - now) * stream.rate ELSE 0)
  /\ UNCHANGED <<chain, stream, money, waived, chargedTo, consentedMax>>

Tick == now < MaxTime /\ ClockMovesTo(now + 1)

StepBack == ClockStepsBack /\ now > 0 /\ ClockMovesTo(now - 1)
------------------------------------------------------------------------------
Init ==
  /\ now = 0 /\ paused = FALSE /\ tokenEnabled = TRUE
  /\ stream = NoStream
  /\ escrow = 0 /\ received = 0
  /\ accrued = 0 /\ waived = 0 /\ chargedTo = 0 /\ consentedMax = 0

Next ==
  \/ \E rate, maxRate \in Rates, cap \in Caps, interval \in Intervals :
       Create(rate, maxRate, cap, interval)
  \/ \E who \in Signers : Execute(who) \/ Pause(who) \/ Resume(who) \/ Cancel(who)
  \/ \E who \in Signers, newRate, newMax \in Rates \cup {None} :
       UpdateRate(who, newRate, newMax)
  \/ \E amount \in Deposits : Fund(amount)
  \/ \E flag \in BOOLEAN : SetPaused(flag) \/ SetTokenEnabled(flag)
  \/ Tick
  \/ StepBack

Spec == Init /\ [][Next]_vars

\* The keeper keeps calling execute_stream; nobody else is obliged to act.
FairSpec == Spec /\ WF_vars(Execute("keeper"))
------------------------------------------------------------------------------
(* Properties. *)

StreamType ==
  [status : Statuses, rate : 0 .. U64Max, maxRate : 0 .. U64Max,
   lastSettled : 0 .. MaxTime, total : 0 .. U64Max,
   cap : (0 .. U64Max) \cup {None},
   pausedAt : (0 .. MaxTime) \cup {None}, interval : Nat]

\* Types, and the code's own bounds: totals fit a u64, a live stream has a
\* rate within its authorised maximum and an interval above the minimum.
TypeOK ==
  /\ now \in 0 .. MaxTime
  /\ paused \in BOOLEAN /\ tokenEnabled \in BOOLEAN
  /\ stream \in StreamType
  /\ escrow \in 0 .. U64Max /\ received \in Nat
  /\ accrued \in Int /\ waived \in Nat
  /\ chargedTo \in 0 .. MaxTime /\ consentedMax \in 0 .. U64Max

\* What the stream owes at this instant and no settlement has dealt with.
Outstanding == IF Meters(stream) THEN Gross(stream, now) ELSE 0

\* settle_accrued_in_place and its five callers (which settle, skip, or move
\* last_settled_ts without settling) never lose or invent a second of accrual:
\* the ideal meter is exactly what was paid, given up, or is still due.
NothingLostOrInvented == accrued = received + waived + Outstanding

\* total_streamed, written back after the transfer, is the tokens that really
\* moved, and they stay within max_streamed.
LedgerMatchesTokens ==
  /\ stream.total = received
  /\ stream.cap # None => received <= stream.cap

\* The program and the hook compute the limit separately, the hook from the
\* account before write-back.  They agree: whenever the helper can settle,
\* the hook lets through that amount and not one unit more.
HookAgreesWithSettlement ==
  Meters(stream) /\ SettleSucceeds(stream, now) =>
    \A amount \in 1 .. U64Max :
      HookAllowsStream(stream, now, amount) <=> amount <= Charge(stream, now)

\* No second is charged twice, even when the cluster clock steps back between
\* a pause and a resume: accrual never restarts before the instant already
\* dealt with.
NoSecondChargedTwice == Meters(stream) => stream.lastSettled >= chargedTo

\* The merchant can move the rate, but never above what the subscriber signed.
RateWithinConsent == stream.rate <= consentedMax

\* Time given up is bounded: a step writes off a whole interval's worth only
\* when the cap is what refused it.  Pausing or cancelling forfeits less than
\* one settlement interval.
ForfeitsLessThanAnInterval ==
  [][waived' - waived < stream.interval * stream.rate
     \/ waived' = waived
     \/ (stream.cap # None /\ stream'.total = stream.cap)]_vars

Phase == CASE stream.status = "Absent"    -> "unopened"
           [] stream.status = "Active"    -> "running"
           [] stream.status = "Paused"    -> "halted"
           [] stream.status = "Cancelled" -> "closed"

Ledger == INSTANCE StreamLedger
            WITH phase <- Phase, meter <- accrued, paid <- received,
                 forgiven <- waived

\* The instructions implement the abstract stream: nothing is paid or given up
\* outside a settlement that clears the whole debt, and Cancelled is final.
ImplementsLedger == Ledger!Spec

\* Everything the keeper needs: the stream runs, the protocol and the token
\* are not switched off, and the escrow covers what a settlement would take.
Serviceable ==
  Meters(stream) /\ ~paused /\ tokenEnabled /\ Charge(stream, now) <= escrow

\* A stream that stays serviceable is settled again and again: a capped-out or
\* a slow stream never leaves the keeper with a settlement it cannot finish.
KeeperKeepsUp ==
  <>[]Serviceable => []<>(Elapsed(stream, now) < stream.interval)
=============================================================================
