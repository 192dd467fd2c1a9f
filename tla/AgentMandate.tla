----------------------------- MODULE AgentMandate -----------------------------
(***************************************************************************)
(* One agent budget: the AgentMandate account, the wrapped tokens its      *)
(* address owns, the vault that backs them, and the instructions of        *)
(* instructions/agent_mandates/ with wrap and unwrap.                      *)
(*                                                                         *)
(* agent_pull creates its PullApproval, transfers and closes it in one     *)
(* transaction, so the approval the hook reads is always the one of the    *)
(* transfer itself and needs no variable.  Burning and minting do not run  *)
(* the hook: neither the pause switch nor the token switch reaches them.   *)
(* Accounts of the older layout load as current ones.  The clock does not  *)
(* go back.                                                                *)
(***************************************************************************)
EXTENDS Integers, FiniteSets, Totals

CONSTANTS
  Services,       \* the parties an agent may be allowed to pay
  ServiceLists,   \* service lists an authority may ask for, with daily limits
  Limits,         \* daily limits an authority may ask for
  LifetimeCaps,   \* lifetime caps an authority may ask for
  MinPulls,       \* minimum pull amounts an authority may ask for
  Cooldowns,      \* minimum pull intervals an authority may ask for
  Amounts,        \* what an agent may try to pull, and wallets to move
  MaxServices,    \* 8 in the code
  Window,         \* AGENT_DAILY_RESET_WINDOW_SECONDS, 86400 in the code
  Interrupts,     \* may the admin switches be thrown?
  MaxFunds,       \* bound: wrapped tokens in existence
  MaxTime         \* bound: the last instant of the clock

None == -1        \* Rust's Option::None for an adjustment

ASSUME ListsAssumption ==
  \A list \in ServiceLists : /\ DOMAIN list \subseteq Services
                             /\ list \in [DOMAIN list -> Nat]
ASSUME LimitsAssumption  == Limits \subseteq Nat /\ LifetimeCaps \subseteq Nat
ASSUME PacingAssumption  == MinPulls \subseteq Nat /\ Cooldowns \subseteq Nat
ASSUME AmountsAssumption == Amounts \subseteq Nat
ASSUME BoundsAssumption  == /\ MaxServices \in Nat
                            /\ Window \in Nat \ {0}
                            /\ Interrupts \in BOOLEAN
                            /\ MaxFunds \in Nat
                            /\ MaxTime \in Nat \ {0}

VARIABLES
  now,           \* Clock::unix_timestamp
  paused,        \* ProtocolConfig.paused
  tokenEnabled,  \* TokenConfig.enabled
  mandate,       \* the AgentMandate account, its service list apart
  services,      \* its service list: a function on the services listed
  budget,        \* wrapped tokens in the account the mandate's address owns
  outside,       \* wrapped tokens in every other account
  vault,         \* USDC in the wrapping vault
  \* History variables: no action's guard reads them.
  drawn,         \* what was pulled at each instant
  paidTo,        \* the same for each service, since it was last listed
  peak           \* the highest daily limit the mandate ever had

switches == <<paused, tokenEnabled>>
account  == <<mandate, services>>
tokens   == <<budget, outside, vault>>
history  == <<drawn, paidTo, peak>>
vars     == <<now, paused, tokenEnabled, mandate, services, budget, outside,
              vault, drawn, paidTo, peak>>

Times    == 1 .. MaxTime
Signers  == {"authority", "agent", "stranger"}
Statuses == {"Absent", "Active", "Paused", "Revoked"}

NoMandate ==
  [status |-> "Absent", dailyLimit |-> 0, dailySpent |-> 0, lastReset |-> 0,
   lifetimeCap |-> 0, totalSpent |-> 0, minPull |-> 0, cooldown |-> 0, lastPull |-> 0]

NotYet == [t \in Times |-> 0]

------------------------------------------------------------------------------
(* Daily windows. *)

DayOverLate(lastReset) == now - lastReset > Window
DayOver(lastReset)     == now - lastReset >= Window

\* reset_daily_if_needed; the service's entry has its own window.
RenewedKeepingReset(m) == IF DayOver(m.lastReset) THEN [m EXCEPT !.dailySpent = 0] ELSE m
Renewed(m) ==
  IF DayOver(m.lastReset) THEN [m EXCEPT !.dailySpent = 0, !.lastReset = now] ELSE m

ServiceRenewed(s) ==
  IF DayOver(s.lastReset) THEN [s EXCEPT !.spent = 0, !.lastReset = now] ELSE s

------------------------------------------------------------------------------
(* The instructions. *)

\* A list of distinct services, no longer than the account has room for.
ListFits(list) == Cardinality(DOMAIN list) <= MaxServices

Create(who, dailyLimit, lifetimeCap, minPull, cooldown, list, funding) ==
  /\ who = "authority"
  /\ mandate.status = "Absent"
  /\ ListFits(list)
  /\ budget + outside + funding <= MaxFunds          \* bound
  /\ mandate' = [status |-> "Active", dailyLimit |-> dailyLimit, dailySpent |-> 0,
                 lastReset |-> now, lifetimeCap |-> lifetimeCap, totalSpent |-> 0,
                 minPull |-> minPull, cooldown |-> cooldown, lastPull |-> 0]
  /\ services' = [s \in DOMAIN list |->
                    [limit |-> list[s], spent |-> 0, lastReset |-> now]]
  /\ budget' = budget + funding
  /\ vault' = vault + funding
  /\ peak' = dailyLimit
  /\ UNCHANGED <<now, switches, outside, drawn, paidTo>>

CapHoldsBefore(m, amount) == m.totalSpent <= m.lifetimeCap
CapHolds(m, amount)       == m.totalSpent + amount <= m.lifetimeCap

CooledDown(m) == m.lastPull > 0 /\ m.cooldown > 0 => now - m.lastPull >= m.cooldown

TransferIgnoringBalance(amount) == tokenEnabled
\* The hook accepts the approval the pull has just written for itself.
TransferSucceeds(amount) == tokenEnabled /\ amount <= budget

SpentForgettingService(s, amount) == s
Spent(s, amount) == [s EXCEPT !.spent = @ + amount]

AgentPull(who, to, amount) ==
  LET m == Renewed(mandate)
      s == ServiceRenewed(services[to])
  IN /\ who = "agent"
     /\ mandate.status = "Active"
     /\ ~paused
     /\ to \in DOMAIN services
     /\ s.spent + amount <= s.limit
     /\ m.dailySpent + amount <= m.dailyLimit
     /\ CapHolds(m, amount)
     /\ amount >= m.minPull
     /\ CooledDown(m)
     /\ TransferSucceeds(amount)
     /\ budget' = budget - amount
     /\ outside' = outside + amount
     /\ services' = [services EXCEPT ![to] = Spent(s, amount)]
     /\ mandate' = [m EXCEPT !.dailySpent = @ + amount, !.totalSpent = @ + amount,
                             !.lastPull = now]
     /\ drawn' = [drawn EXCEPT ![now] = @ + amount]
     /\ paidTo' = [paidTo EXCEPT ![to][now] = @ + amount]
     /\ UNCHANGED <<now, switches, vault, peak>>

\* A limit may not go below what is recorded as spent, even if that was
\* spent on an earlier day: nothing is renewed here.
AnyLimit(limit, spent)       == TRUE
LimitCovers(limit, spent)    == limit = None \/ limit >= spent
Or(choice, current)          == IF choice = None THEN current ELSE choice

\* A service that stays listed keeps its spending, a new one starts afresh.
Relisted(list) ==
  [s \in DOMAIN list |->
     IF s \in DOMAIN services THEN [services[s] EXCEPT !.limit = list[s]]
     ELSE [limit |-> list[s], spent |-> 0, lastReset |-> now]]

Adjust(who, dailyLimit, lifetimeCap, minPull, cooldown) ==
  /\ who = "authority"
  /\ mandate.status \in {"Active", "Paused"}
  /\ LimitCovers(dailyLimit, mandate.dailySpent)
  /\ LimitCovers(lifetimeCap, mandate.totalSpent)
  /\ mandate' = [mandate EXCEPT !.dailyLimit = Or(dailyLimit, @),
                                !.lifetimeCap = Or(lifetimeCap, @),
                                !.minPull = Or(minPull, @),
                                !.cooldown = Or(cooldown, @)]
  /\ peak' = IF dailyLimit > peak THEN dailyLimit ELSE peak
  /\ UNCHANGED <<now, switches, tokens, drawn>>

\* An adjustment names at least one field; the list is one of them.
AdjustLimits(who, dailyLimit, lifetimeCap, minPull, cooldown) ==
  /\ \E field \in {dailyLimit, lifetimeCap, minPull, cooldown} : field # None
  /\ Adjust(who, dailyLimit, lifetimeCap, minPull, cooldown)
  /\ UNCHANGED <<services, paidTo>>

AdjustServices(who, dailyLimit, lifetimeCap, minPull, cooldown, list) ==
  /\ Adjust(who, dailyLimit, lifetimeCap, minPull, cooldown)
  /\ ListFits(list)
  /\ \A s \in DOMAIN list \cap DOMAIN services : LimitCovers(list[s], services[s].spent)
  /\ services' = Relisted(list)
  /\ paidTo' = [s \in Services |->
                  IF s \in DOMAIN list \ DOMAIN services THEN NotYet ELSE paidTo[s]]

Pause(who) ==
  /\ who = "authority"
  /\ mandate.status = "Active"
  /\ mandate' = [mandate EXCEPT !.status = "Paused"]
  /\ UNCHANGED <<now, switches, services, tokens, history>>

Resume(who) ==
  /\ who = "authority"
  /\ mandate.status = "Paused"
  /\ mandate' = [mandate EXCEPT !.status = "Active"]
  /\ UNCHANGED <<now, switches, services, tokens, history>>

\* Everything left is burnt and the vault pays it back to the authority.
BurntOnly      == budget' = 0 /\ UNCHANGED <<outside, vault>>
ReclaimBudget  == budget' = 0 /\ vault' = vault - budget /\ UNCHANGED outside

Revoke(who) ==
  /\ who = "authority"
  /\ mandate.status \in {"Active", "Paused"}
  /\ ReclaimBudget
  /\ mandate' = [mandate EXCEPT !.status = "Revoked"]
  /\ UNCHANGED <<now, switches, services, history>>

\* Allowed in every status, a revoked mandate's included.
Drain(who) ==
  /\ who = "authority"
  /\ mandate.status # "Absent"
  /\ ReclaimBudget
  /\ UNCHANGED <<now, switches, account, history>>
------------------------------------------------------------------------------
(* The surroundings: wallets, the admin, the clock. *)

Wrap(toMandate, amount) ==
  /\ budget + outside + amount <= MaxFunds           \* bound
  /\ vault' = vault + amount
  /\ budget' = budget + (IF toMandate THEN amount ELSE 0)
  /\ outside' = outside + (IF toMandate THEN 0 ELSE amount)
  /\ UNCHANGED <<now, switches, account, history>>

\* The burn fails beyond the holder's balance.
Unwrap(amount) ==
  /\ amount <= outside
  /\ outside' = outside - amount
  /\ vault' = vault - amount
  /\ UNCHANGED <<now, switches, account, budget, history>>

\* A wallet-owned source passes the hook as soon as the token is enabled.
Send(amount) ==
  /\ tokenEnabled
  /\ amount <= outside
  /\ outside' = outside - amount
  /\ budget' = budget + amount
  /\ UNCHANGED <<now, switches, account, vault, history>>

SetPaused(flag) ==
  /\ Interrupts
  /\ paused' = flag
  /\ UNCHANGED <<now, tokenEnabled, account, tokens, history>>

SetTokenEnabled(flag) ==
  /\ Interrupts
  /\ tokenEnabled' = flag
  /\ UNCHANGED <<now, paused, account, tokens, history>>

Tick ==
  /\ now < MaxTime                                   \* bound
  /\ now' = now + 1
  /\ UNCHANGED <<switches, account, tokens, history>>
------------------------------------------------------------------------------
Init ==
  /\ now = 1 /\ paused = FALSE /\ tokenEnabled = TRUE
  /\ mandate = NoMandate /\ services = [s \in {} |-> NoMandate]
  /\ budget = 0 /\ outside = 0 /\ vault = 0
  /\ drawn = NotYet /\ paidTo = [s \in Services |-> NotYet] /\ peak = 0

Next ==
  \/ \E who \in Signers :
       \/ Pause(who) \/ Resume(who) \/ Revoke(who) \/ Drain(who)
       \/ \E to \in Services, amount \in Amounts : AgentPull(who, to, amount)
       \/ \E dailyLimit \in Limits, lifetimeCap \in LifetimeCaps,
             minPull \in MinPulls, cooldown \in Cooldowns,
             list \in ServiceLists, funding \in Amounts :
            Create(who, dailyLimit, lifetimeCap, minPull, cooldown, list, funding)
       \/ \E dailyLimit \in Limits \cup {None}, lifetimeCap \in LifetimeCaps \cup {None},
             minPull \in MinPulls \cup {None}, cooldown \in Cooldowns \cup {None} :
            \/ AdjustLimits(who, dailyLimit, lifetimeCap, minPull, cooldown)
            \/ \E list \in ServiceLists :
                 AdjustServices(who, dailyLimit, lifetimeCap, minPull, cooldown, list)
  \/ \E amount \in Amounts :
       Unwrap(amount) \/ Send(amount) \/ \E toMandate \in BOOLEAN : Wrap(toMandate, amount)
  \/ \E flag \in BOOLEAN : SetPaused(flag) \/ SetTokenEnabled(flag)
  \/ Tick

Spec == Init /\ [][Next]_vars

\* The agent keeps asking for payments and time passes; nobody else must act.
FairSpec ==
  /\ Spec
  /\ WF_vars(\E to \in Services, amount \in Amounts \ {0} : AgentPull("agent", to, amount))
  /\ WF_vars(Tick)
------------------------------------------------------------------------------
(* Properties. *)

MandateType ==
  [status : Statuses, dailyLimit : Nat, dailySpent : Nat, lastReset : 0 .. MaxTime,
   lifetimeCap : Nat, totalSpent : Nat, minPull : Nat, cooldown : Nat,
   lastPull : 0 .. MaxTime]

ServiceType == [limit : Nat, spent : Nat, lastReset : Times]

\* Types; the agent and the owner together never overdraw the account, nor
\* the holders of wrapped tokens the vault.
TypeOK ==
  /\ now \in Times
  /\ paused \in BOOLEAN /\ tokenEnabled \in BOOLEAN
  /\ mandate \in MandateType
  /\ DOMAIN services \subseteq Services
  /\ services \in [DOMAIN services -> ServiceType]
  /\ budget \in Nat /\ outside \in Nat /\ vault \in Nat
  /\ drawn \in [Times -> Nat] /\ paidTo \in [Services -> [Times -> Nat]]
  /\ peak \in Nat

\* adjust_agent_mandate and agent_pull check the three limits in different
\* handlers and windows: what is recorded as spent is always within the limit
\* of the moment, however limits and lists were changed in between.
WithinLimits ==
  /\ mandate.dailySpent <= mandate.dailyLimit
  /\ mandate.totalSpent <= mandate.lifetimeCap
  /\ \A s \in DOMAIN services : services[s].spent <= services[s].limit

\* wrap, unwrap, create, revoke and drain mint and burn on one token program
\* and move USDC on the other: every wrapped token is backed by the vault.
FullyBacked == vault = budget + outside

\* What was pulled from instant t until just before instant u.
Pulled(f, t, u) == Total(f, t .. u - 1)

\* The two windows are renewed lazily and separately (reset_daily_if_needed,
\* reset_service_daily_if_needed), and adjustments copy entries: the recorded
\* spending is still exactly what was pulled since the window began.
BooksMatch ==
  mandate.status # "Absent" =>
    /\ mandate.totalSpent = Pulled(drawn, 1, MaxTime + 1)
    /\ mandate.dailySpent = Pulled(drawn, mandate.lastReset, MaxTime + 1)
    /\ \A s \in DOMAIN services :
         services[s].spent = Pulled(paidTo[s], services[s].lastReset, MaxTime + 1)

\* A daily limit with windows that start at a pull lets at most two limits
\* through in any day, wherever the day is taken to begin.
DayEnd(t) == IF t + Window <= MaxTime THEN t + Window ELSE MaxTime + 1

AnyDayWithinTwoLimits == \A t \in Times : Pulled(drawn, t, DayEnd(t)) <= 2 * peak

Phase == CASE mandate.status = "Absent"  -> "unopened"
           [] mandate.status = "Active"  -> "open"
           [] mandate.status = "Paused"  -> "frozen"
           [] mandate.status = "Revoked" -> "over"

Allowance == INSTANCE SpendingAllowance WITH
  open <- Phase, ceiling <- mandate.lifetimeCap, spent <- mandate.totalSpent,
  pot <- budget

\* The instructions implement the owner's promise: the agent never spends more
\* than the lifetime cap, and nothing once revoked, and drain always empties.
ImplementsAllowance == Allowance!Spec

\* One more unit could be paid on a fresh day.
Usable ==
  /\ mandate.status = "Active" /\ ~paused /\ tokenEnabled /\ budget >= 1
  /\ mandate.totalSpent < mandate.lifetimeCap
  /\ mandate.dailyLimit >= 1 /\ mandate.minPull <= 1 /\ mandate.cooldown <= Window
  /\ \E s \in DOMAIN services : services[s].limit >= 1

\* An exhausted daily limit is not the end: with time left for the windows to
\* renew, an agent that keeps asking is paid again.
DaysRenew ==
  \A k \in 0 .. MaxFunds :
    (Usable /\ mandate.totalSpent = k /\ now + Window <= MaxTime)
      ~> (mandate.totalSpent > k \/ ~Usable)
==============================================================================
