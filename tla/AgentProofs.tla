----------------------------- MODULE AgentProofs -----------------------------
(***************************************************************************)
(* Theorems about AgentMandate, for every value of its constants: types,   *)
(* the three spending limits, the backing of the wrapped tokens, the       *)
(* refinement of SpendingAllowance, that what the account records as spent *)
(* is what was pulled in the window, and the bound this gives on any day.  *)
(***************************************************************************)
EXTENDS AgentMandate, TotalsProofs

\* Before create_agent_mandate there is nothing to spend and nothing spent.
NothingBefore == mandate.status = "Absent" => mandate = NoMandate

\* The inductive invariant.
AgentInv == TypeOK /\ WithinLimits /\ FullyBacked /\ NothingBefore

\* The limits split by the account they are kept in.
MandateLimits(m) == m.dailySpent <= m.dailyLimit /\ m.totalSpent <= m.lifetimeCap
ServiceLimits(f) == \A s \in DOMAIN f : f[s].spent <= f[s].limit

ServicesTyped(f) == DOMAIN f \subseteq Services /\ f \in [DOMAIN f -> ServiceType]
------------------------------------------------------------------------------
(* The helpers. *)

\* What TypeOK says of each field.
LEMMA FieldTypes ==
  ASSUME TypeOK
  PROVE  /\ now \in Nat /\ now >= 1 /\ now <= MaxTime /\ MaxTime \in Nat
         /\ now \in 0 .. MaxTime
         /\ mandate.status \in Statuses
         /\ mandate.dailyLimit \in Nat /\ mandate.dailySpent \in Nat
         /\ mandate.lifetimeCap \in Nat /\ mandate.totalSpent \in Nat
         /\ mandate.minPull \in Nat /\ mandate.cooldown \in Nat
         /\ mandate.lastReset \in 0 .. MaxTime /\ mandate.lastPull \in 0 .. MaxTime
  BY BoundsAssumption DEF TypeOK, MandateType, Times

\* An entry of the service list is well typed.
LEMMA EntryTypes ==
  ASSUME TypeOK, NEW s \in DOMAIN services
  PROVE  /\ s \in Services
         /\ services[s] \in ServiceType
         /\ services[s].limit \in Nat /\ services[s].spent \in Nat
         /\ services[s].lastReset \in Times
  BY DEF TypeOK, ServiceType

\* Renewing the daily window never raises what is recorded as spent.
LEMMA RenewedWithin ==
  ASSUME TypeOK, MandateLimits(mandate)
  PROVE  LET m == Renewed(mandate)
         IN  /\ m \in MandateType
             /\ MandateLimits(m)
             /\ m.status = mandate.status
             /\ m.totalSpent = mandate.totalSpent
             /\ m.lifetimeCap = mandate.lifetimeCap
<1>1. mandate \in MandateType
  BY DEF TypeOK
<1>2. CASE DayOver(mandate.lastReset)
  <2>1. Renewed(mandate) = [mandate EXCEPT !.dailySpent = 0, !.lastReset = now]
    BY <1>2 DEF Renewed
  <2>2. [mandate EXCEPT !.dailySpent = 0, !.lastReset = now] \in MandateType
    BY <1>1, FieldTypes DEF MandateType
  <2>3. 0 <= mandate.dailyLimit /\ mandate.totalSpent <= mandate.lifetimeCap
    BY FieldTypes DEF MandateLimits
  <2> QED
    BY <1>1, <2>1, <2>2, <2>3 DEF MandateType, MandateLimits
<1>3. CASE ~DayOver(mandate.lastReset)
  BY <1>1, <1>3 DEF Renewed
<1> QED
  BY <1>2, <1>3

\* The same for a service's own window.
LEMMA ServiceRenewedWithin ==
  ASSUME TypeOK, NEW s \in DOMAIN services, services[s].spent <= services[s].limit
  PROVE  LET r == ServiceRenewed(services[s])
         IN  r \in ServiceType /\ r.spent <= r.limit
<1>1. now \in Times /\ services[s] \in ServiceType
  BY EntryTypes DEF TypeOK
<1>2. CASE DayOver(services[s].lastReset)
  <2>1. ServiceRenewed(services[s]) = [services[s] EXCEPT !.spent = 0, !.lastReset = now]
    BY <1>2 DEF ServiceRenewed
  <2>2. [services[s] EXCEPT !.spent = 0, !.lastReset = now] \in ServiceType
    BY <1>1, EntryTypes DEF ServiceType
  <2>4. 0 <= services[s].limit
    BY EntryTypes
  <2>3. /\ [services[s] EXCEPT !.spent = 0, !.lastReset = now].spent = 0
        /\ [services[s] EXCEPT !.spent = 0, !.lastReset = now].limit = services[s].limit
    BY <1>1 DEF ServiceType
  <2> QED
    BY <2>1, <2>2, <2>3, <2>4
<1>3. CASE ~DayOver(services[s].lastReset)
  BY <1>1, <1>3 DEF ServiceRenewed
<1> QED
  BY <1>2, <1>3

\* An adjustment picks the new value or keeps the old one.
LEMMA ChoiceIsNat ==
  ASSUME NEW S, S \subseteq Nat, NEW choice \in S \cup {None}, NEW current \in Nat
  PROVE  Or(choice, current) \in Nat
  BY DEF Or, None

\* A limit that covers what was spent does so after the choice.
LEMMA ChoiceCovers ==
  ASSUME NEW S, S \subseteq Nat, NEW choice \in S \cup {None}, NEW current \in Nat,
         NEW spent \in Nat, spent <= current, LimitCovers(choice, spent)
  PROVE  spent <= Or(choice, current)
  BY DEF Or, None, LimitCovers

\* A relisted service keeps its spending, which its new limit covers.
LEMMA RelistedWithin ==
  ASSUME TypeOK, ServiceLimits(services), NEW list \in ServiceLists,
         \A s \in DOMAIN list \cap DOMAIN services : LimitCovers(list[s], services[s].spent)
  PROVE  ServicesTyped(Relisted(list)) /\ ServiceLimits(Relisted(list))
<1>1. DOMAIN list \subseteq Services /\ \A s \in DOMAIN list : list[s] \in Nat
  BY ListsAssumption
<1>2. DOMAIN Relisted(list) = DOMAIN list
  BY DEF Relisted
<1>3. ASSUME NEW s \in DOMAIN list
      PROVE  /\ Relisted(list)[s] \in ServiceType
             /\ Relisted(list)[s].spent <= Relisted(list)[s].limit
  <2>1. CASE s \in DOMAIN services
    <3>1. Relisted(list)[s] = [services[s] EXCEPT !.limit = list[s]]
      BY <2>1 DEF Relisted
    <3>2. services[s].spent <= list[s]
      BY <1>1, <2>1 DEF LimitCovers, None
    <3> QED
      BY <1>1, <2>1, <3>1, <3>2, EntryTypes DEF ServiceType
  <2>2. CASE s \notin DOMAIN services
    <3>1. Relisted(list)[s] = [limit |-> list[s], spent |-> 0, lastReset |-> now]
      BY <2>2 DEF Relisted
    <3> QED
      BY <1>1, <3>1 DEF ServiceType, TypeOK
  <2> QED
    BY <2>1, <2>2
<1>4. Relisted(list) \in [DOMAIN list -> ServiceType]
  BY <1>3 DEF Relisted
<1> QED
  BY <1>1, <1>2, <1>3, <1>4 DEF ServicesTyped, ServiceLimits
------------------------------------------------------------------------------
(* The invariant is inductive: one lemma for each instruction. *)

\* The invariant, in the parts an instruction changes.
LEMMA Parts ==
  AgentInv <=> /\ now \in Times
               /\ paused \in BOOLEAN /\ tokenEnabled \in BOOLEAN
               /\ mandate \in MandateType /\ MandateLimits(mandate) /\ NothingBefore
               /\ ServicesTyped(services) /\ ServiceLimits(services)
               /\ budget \in Nat /\ outside \in Nat /\ vault \in Nat
               /\ vault = budget + outside
               /\ drawn \in [Times -> Nat]
               /\ paidTo \in [Services -> [Times -> Nat]]
               /\ peak \in Nat
  BY DEF AgentInv, TypeOK, WithinLimits, FullyBacked, MandateLimits, ServiceLimits,
         ServicesTyped

\* The same parts after a step.
LEMMA Assembled ==
  ASSUME now' \in Times, paused' \in BOOLEAN, tokenEnabled' \in BOOLEAN,
         mandate' \in MandateType, MandateLimits(mandate)', NothingBefore',
         ServicesTyped(services)', ServiceLimits(services)',
         budget' \in Nat, outside' \in Nat, vault' \in Nat,
         vault' = budget' + outside',
         drawn' \in [Times -> Nat],
         paidTo' \in [Services -> [Times -> Nat]],
         peak' \in Nat
  PROVE  AgentInv'
  BY DEF AgentInv, TypeOK, WithinLimits, FullyBacked, MandateLimits, ServiceLimits,
         ServicesTyped

LEMMA CreateKeeps ==
  ASSUME AgentInv, NEW who, NEW dailyLimit \in Limits, NEW lifetimeCap \in LifetimeCaps,
         NEW minPull \in MinPulls, NEW cooldown \in Cooldowns,
         NEW list \in ServiceLists, NEW funding \in Amounts,
         Create(who, dailyLimit, lifetimeCap, minPull, cooldown, list, funding)
  PROVE  AgentInv'
<1>1. /\ dailyLimit \in Nat /\ lifetimeCap \in Nat /\ minPull \in Nat
      /\ cooldown \in Nat /\ funding \in Nat
  BY LimitsAssumption, PacingAssumption, AmountsAssumption
<1>2. /\ now \in Times /\ now \in 0 .. MaxTime /\ 0 \in 0 .. MaxTime
      /\ budget \in Nat /\ outside \in Nat /\ vault = budget + outside
  BY FieldTypes, BoundsAssumption DEF AgentInv, TypeOK, FullyBacked
<1>3. /\ mandate' \in MandateType /\ MandateLimits(mandate)' /\ NothingBefore'
  BY <1>1, <1>2 DEF Create, MandateType, MandateLimits, NothingBefore, Statuses
<1>4. ServicesTyped(services)' /\ ServiceLimits(services)'
  <2>1. DOMAIN list \subseteq Services /\ \A s \in DOMAIN list : list[s] \in Nat
    BY ListsAssumption
  <2>2. services' = [s \in DOMAIN list |->
                       [limit |-> list[s], spent |-> 0, lastReset |-> now]]
    BY DEF Create
  <2>3. DOMAIN services' = DOMAIN list
    BY <2>2
  <2>4. \A s \in DOMAIN list : /\ services'[s] \in ServiceType
                               /\ services'[s].spent <= services'[s].limit
    BY <1>2, <2>1, <2>2 DEF ServiceType
  <2>5. services' \in [DOMAIN list -> ServiceType]
    BY <2>2, <2>4
  <2> QED
    BY <2>1, <2>3, <2>4, <2>5 DEF ServicesTyped, ServiceLimits
<1>5. /\ budget' \in Nat /\ vault' \in Nat /\ vault' = budget' + outside'
      /\ peak' \in Nat
  BY <1>1, <1>2 DEF Create
<1> QED
  BY <1>2, <1>3, <1>4, <1>5, Parts, Assembled DEF Create, switches

LEMMA AgentPullKeeps ==
  ASSUME AgentInv, NEW who, NEW to \in Services, NEW amount \in Amounts,
         AgentPull(who, to, amount)
  PROVE  AgentInv'
<1> DEFINE m == Renewed(mandate)
           s == ServiceRenewed(services[to])
<1>1. amount \in Nat
  BY AmountsAssumption
<1>2. TypeOK /\ MandateLimits(mandate) /\ ServiceLimits(services)
      /\ ServicesTyped(services) /\ now \in Times /\ now \in 0 .. MaxTime
      /\ budget \in Nat /\ outside \in Nat /\ vault \in Nat /\ vault = budget + outside
  BY Parts, FieldTypes DEF AgentInv
<1>3. to \in DOMAIN services
  BY DEF AgentPull
<1>4. m \in MandateType /\ m.status = mandate.status
  BY <1>2, RenewedWithin
<1>5. s \in ServiceType
  BY <1>2, <1>3, ServiceRenewedWithin DEF ServiceLimits
<1>6. /\ mandate' \in MandateType /\ MandateLimits(mandate)' /\ NothingBefore'
  <2>1. /\ m.dailySpent + amount <= m.dailyLimit
        /\ m.totalSpent + amount <= m.lifetimeCap
        /\ mandate' = [m EXCEPT !.dailySpent = @ + amount, !.totalSpent = @ + amount,
                                !.lastPull = now]
        /\ mandate.status = "Active"
    BY DEF AgentPull, CapHolds
  <2>2. /\ m.dailySpent + amount \in Nat /\ m.totalSpent + amount \in Nat
        /\ now \in 0 .. MaxTime
    BY <1>1, <1>2, <1>4 DEF MandateType
  <2> HIDE DEF m
  <2>3. mandate' \in MandateType
    BY <1>4, <2>1, <2>2 DEF MandateType
  <2>4. MandateLimits(mandate)'
    BY <1>4, <2>1 DEF MandateType, MandateLimits
  <2>5. NothingBefore'
    <3>1. mandate'.status = "Active"
      BY <1>4, <2>1 DEF MandateType
    <3> QED
      BY <3>1 DEF NothingBefore
  <2> QED
    BY <2>3, <2>4, <2>5
<1>7. ServicesTyped(services)' /\ ServiceLimits(services)'
  <2>1. /\ s.spent + amount <= s.limit
        /\ services' = [services EXCEPT ![to] = Spent(s, amount)]
    BY DEF AgentPull
  <2> HIDE DEF s
  <2>2. Spent(s, amount) \in ServiceType /\ Spent(s, amount).spent <= Spent(s, amount).limit
    BY <1>1, <1>5, <2>1 DEF Spent, ServiceType
  <2> QED
    BY <1>2, <1>3, <2>1, <2>2 DEF ServicesTyped, ServiceLimits
<1>8. /\ budget' \in Nat /\ outside' \in Nat /\ vault' = vault
      /\ vault' = budget' + outside'
  BY <1>1, <1>2 DEF AgentPull, TransferSucceeds
<1>9. drawn' \in [Times -> Nat] /\ paidTo' \in [Services -> [Times -> Nat]]
  BY <1>1, <1>2 DEF AgentPull, TypeOK
<1> QED
  BY <1>2, <1>6, <1>7, <1>8, <1>9, Parts, Assembled DEF AgentPull, switches

\* The numbers of an adjustment, whether or not it brings a service list.
LEMMA AdjustedWithin ==
  ASSUME AgentInv, NEW who,
         NEW dailyLimit \in Limits \cup {None}, NEW lifetimeCap \in LifetimeCaps \cup {None},
         NEW minPull \in MinPulls \cup {None}, NEW cooldown \in Cooldowns \cup {None},
         Adjust(who, dailyLimit, lifetimeCap, minPull, cooldown)
  PROVE  /\ mandate' \in MandateType /\ MandateLimits(mandate)' /\ NothingBefore'
         /\ peak' \in Nat
<1>1. TypeOK /\ mandate \in MandateType /\ MandateLimits(mandate) /\ peak \in Nat
  BY Parts DEF AgentInv
<1> DEFINE limit == Or(dailyLimit, mandate.dailyLimit)
           cap   == Or(lifetimeCap, mandate.lifetimeCap)
           least == Or(minPull, mandate.minPull)
           pace  == Or(cooldown, mandate.cooldown)
<1>2. limit \in Nat /\ cap \in Nat /\ least \in Nat /\ pace \in Nat
  BY <1>1, FieldTypes, ChoiceIsNat, LimitsAssumption, PacingAssumption
<1>3. mandate.dailySpent <= limit /\ mandate.totalSpent <= cap
  BY <1>1, FieldTypes, ChoiceCovers, LimitsAssumption DEF Adjust, MandateLimits
<1>4. /\ mandate' = [mandate EXCEPT !.dailyLimit = limit, !.lifetimeCap = cap,
                                    !.minPull = least, !.cooldown = pace]
      /\ mandate.status \in {"Active", "Paused"}
  BY <1>1 DEF Adjust, MandateType
<1> HIDE DEF limit, cap, least, pace
<1>5. /\ mandate' \in MandateType /\ MandateLimits(mandate)' /\ NothingBefore'
  BY <1>1, <1>2, <1>3, <1>4 DEF MandateType, MandateLimits, NothingBefore
<1>6. peak' \in Nat
  BY <1>1, LimitsAssumption DEF Adjust, None
<1> QED
  BY <1>5, <1>6

LEMMA AdjustLimitsKeeps ==
  ASSUME AgentInv, NEW who,
         NEW dailyLimit \in Limits \cup {None}, NEW lifetimeCap \in LifetimeCaps \cup {None},
         NEW minPull \in MinPulls \cup {None}, NEW cooldown \in Cooldowns \cup {None},
         AdjustLimits(who, dailyLimit, lifetimeCap, minPull, cooldown)
  PROVE  AgentInv'
<1>1. Adjust(who, dailyLimit, lifetimeCap, minPull, cooldown)
  BY DEF AdjustLimits
<1>2. ServicesTyped(services)' /\ ServiceLimits(services)'
  BY Parts DEF AdjustLimits, ServicesTyped, ServiceLimits
<1> QED
  BY <1>1, <1>2, AdjustedWithin, Parts, Assembled DEF AdjustLimits, Adjust, switches, tokens

LEMMA AdjustServicesKeeps ==
  ASSUME AgentInv, NEW who,
         NEW dailyLimit \in Limits \cup {None}, NEW lifetimeCap \in LifetimeCaps \cup {None},
         NEW minPull \in MinPulls \cup {None}, NEW cooldown \in Cooldowns \cup {None},
         NEW list \in ServiceLists,
         AdjustServices(who, dailyLimit, lifetimeCap, minPull, cooldown, list)
  PROVE  AgentInv'
<1>1. Adjust(who, dailyLimit, lifetimeCap, minPull, cooldown)
  BY DEF AdjustServices
<1>2. ServicesTyped(services)' /\ ServiceLimits(services)'
  <2>1. services' = Relisted(list)
    BY DEF AdjustServices
  <2>2. ServicesTyped(Relisted(list)) /\ ServiceLimits(Relisted(list))
    BY Parts, RelistedWithin DEF AdjustServices, AgentInv
  <2> QED
    BY <2>1, <2>2 DEF ServicesTyped, ServiceLimits
<1>3. paidTo' \in [Services -> [Times -> Nat]]
  BY Parts DEF AdjustServices, NotYet
<1>4. /\ mandate' \in MandateType /\ MandateLimits(mandate)' /\ NothingBefore'
      /\ peak' \in Nat
  BY <1>1, AdjustedWithin
<1>5. UNCHANGED <<now, paused, tokenEnabled, budget, outside, vault, drawn>>
  BY <1>1 DEF Adjust, switches, tokens
<1> QED
  BY <1>2, <1>3, <1>4, <1>5, Parts, Assembled

\* Pause, resume and revoke write nothing but the status; all three and drain
\* may empty the account into the vault's payment.
LEMMA StatusKeeps ==
  ASSUME AgentInv, NEW status \in {"Active", "Paused", "Revoked"},
         mandate' = [mandate EXCEPT !.status = status],
         ReclaimBudget \/ UNCHANGED tokens,
         UNCHANGED <<now, switches, services, history>>
  PROVE  AgentInv'
<1>1. /\ mandate \in MandateType /\ MandateLimits(mandate)
      /\ budget \in Nat /\ outside \in Nat /\ vault = budget + outside
  BY Parts
<1>2. /\ mandate' \in MandateType /\ MandateLimits(mandate)' /\ NothingBefore'
  BY <1>1 DEF MandateType, MandateLimits, NothingBefore, Statuses
<1>3. /\ budget' \in Nat /\ outside' \in Nat /\ vault' \in Nat
      /\ vault' = budget' + outside'
  BY <1>1 DEF ReclaimBudget, tokens
<1>4. ServicesTyped(services)' /\ ServiceLimits(services)'
  BY Parts DEF ServicesTyped, ServiceLimits
<1> QED
  BY <1>2, <1>3, <1>4, Parts, Assembled DEF switches, history

\* Everything that leaves the account alone and keeps the tokens backed.
LEMMA SurroundingsKeep ==
  ASSUME AgentInv, UNCHANGED <<account, history>>,
         now' \in Times, paused' \in BOOLEAN, tokenEnabled' \in BOOLEAN,
         budget' \in Nat, outside' \in Nat, vault' \in Nat, vault' = budget' + outside'
  PROVE  AgentInv'
<1>1. ServicesTyped(services)' /\ ServiceLimits(services)' /\ MandateLimits(mandate)'
  BY Parts DEF ServicesTyped, ServiceLimits, MandateLimits, account
<1>2. NothingBefore'
  <2>1. NothingBefore /\ mandate' = mandate
    BY DEF AgentInv, account
  <2> QED
    BY <2>1 DEF NothingBefore
<1> QED
  BY <1>1, <1>2, Parts, Assembled DEF account, history

\* The instructions that mint, burn or send wrapped tokens.
LEMMA TokensKeep ==
  ASSUME AgentInv,
         \/ \E amount \in Amounts : \/ Unwrap(amount) \/ Send(amount)
                                    \/ \E toMandate \in BOOLEAN : Wrap(toMandate, amount)
         \/ \E who \in Signers : Drain(who)
  PROVE  AgentInv'
<1>1. /\ now \in Times /\ paused \in BOOLEAN /\ tokenEnabled \in BOOLEAN
      /\ budget \in Nat /\ outside \in Nat /\ vault = budget + outside
  BY Parts
<1>2. UNCHANGED <<now, paused, tokenEnabled, account, history>>
  BY DEF Unwrap, Send, Wrap, Drain, switches
<1>3. /\ budget' \in Nat /\ outside' \in Nat /\ vault' \in Nat
      /\ vault' = budget' + outside'
  <2>1. ASSUME NEW amount \in Amounts, Unwrap(amount) \/ Send(amount)
        PROVE  /\ budget' \in Nat /\ outside' \in Nat /\ vault' \in Nat
               /\ vault' = budget' + outside'
    BY <1>1, <2>1, AmountsAssumption DEF Unwrap, Send
  <2>2. ASSUME NEW amount \in Amounts, NEW toMandate \in BOOLEAN, Wrap(toMandate, amount)
        PROVE  /\ budget' \in Nat /\ outside' \in Nat /\ vault' \in Nat
               /\ vault' = budget' + outside'
    BY <1>1, <2>2, AmountsAssumption DEF Wrap
  <2>3. ASSUME NEW who \in Signers, Drain(who)
        PROVE  /\ budget' \in Nat /\ outside' \in Nat /\ vault' \in Nat
               /\ vault' = budget' + outside'
    BY <1>1, <2>3 DEF Drain, ReclaimBudget
  <2> QED
    BY <2>1, <2>2, <2>3
<1> QED
  BY <1>1, <1>2, <1>3, SurroundingsKeep

\* The admin's switches and the clock.
LEMMA SwitchesKeep ==
  ASSUME AgentInv,
         Tick \/ \E flag \in BOOLEAN : SetPaused(flag) \/ SetTokenEnabled(flag)
  PROVE  AgentInv'
<1>1. /\ now \in Times /\ paused \in BOOLEAN /\ tokenEnabled \in BOOLEAN
      /\ budget \in Nat /\ outside \in Nat /\ vault \in Nat /\ vault = budget + outside
  BY Parts
<1>2. UNCHANGED <<account, history, budget, outside, vault>>
  BY DEF Tick, SetPaused, SetTokenEnabled, tokens
<1>3. now' \in Times /\ paused' \in BOOLEAN /\ tokenEnabled' \in BOOLEAN
  BY <1>1, BoundsAssumption DEF Tick, SetPaused, SetTokenEnabled, switches, Times
<1> QED
  BY <1>1, <1>2, <1>3, SurroundingsKeep

LEMMA InitHolds == Init => AgentInv
<1> SUFFICES ASSUME Init PROVE AgentInv
  OBVIOUS
<1>1. mandate \in MandateType /\ MandateLimits(mandate) /\ NothingBefore
  BY BoundsAssumption DEF Init, NoMandate, MandateType, MandateLimits, NothingBefore, Statuses
<1>2. ServicesTyped(services) /\ ServiceLimits(services)
  BY DEF Init, ServicesTyped, ServiceLimits
<1>3. now \in Times /\ drawn \in [Times -> Nat] /\ paidTo \in [Services -> [Times -> Nat]]
  BY BoundsAssumption DEF Init, Times, NotYet
<1>4. paused \in BOOLEAN /\ tokenEnabled \in BOOLEAN
  BY Zenon DEF Init
<1>5. budget \in Nat /\ outside \in Nat /\ vault \in Nat /\ vault = budget + outside
      /\ peak \in Nat
  BY DEF Init
<1> QED
  BY <1>1, <1>2, <1>3, <1>4, <1>5, Parts

LEMMA NextKeeps == AgentInv /\ [Next]_vars => AgentInv'
<1> SUFFICES ASSUME AgentInv, [Next]_vars PROVE AgentInv'
  OBVIOUS
<1>1. ASSUME NEW who \in Signers, Pause(who) \/ Resume(who) \/ Revoke(who)
      PROVE  AgentInv'
  <2>1. CASE Pause(who)
    BY <2>1, StatusKeeps DEF Pause
  <2>2. CASE Resume(who)
    BY <2>2, StatusKeeps DEF Resume
  <2>3. CASE Revoke(who)
    BY <2>3, StatusKeeps DEF Revoke
  <2> QED
    BY <1>1, <2>1, <2>2, <2>3
<1>2. CASE UNCHANGED vars
  <2>1. /\ UNCHANGED <<account, history, budget, outside, vault>>
        /\ UNCHANGED <<now, paused, tokenEnabled>>
    BY <1>2 DEF vars, account, history
  <2> QED
    BY <2>1, Parts, SurroundingsKeep
<1> QED
  BY <1>1, <1>2, CreateKeeps, AgentPullKeeps, AdjustLimitsKeeps, AdjustServicesKeeps,
     TokensKeep, SwitchesKeep DEF Next
------------------------------------------------------------------------------
(* The theorems. *)

\* Every state the instructions reach satisfies the invariant: the checks of
\* create, pull, adjust, revoke and drain fit together.
THEOREM AgentInvariant == Spec => []AgentInv
<1>1. Init => AgentInv
  BY InitHolds
<1>2. AgentInv /\ [Next]_vars => AgentInv'
  BY NextKeeps
<1> QED
  BY <1>1, <1>2, PTL DEF Spec

\* No balance, spending or timestamp leaves its range: neither the account nor
\* the vault is ever overdrawn.
THEOREM AgentTypes == Spec => []TypeOK
<1>1. AgentInv => TypeOK
  BY DEF AgentInv
<1> QED
  BY <1>1, AgentInvariant, PTL

\* Daily, lifetime and service limits hold whatever was adjusted in between.
THEOREM LimitsHold == Spec => []WithinLimits
<1>1. AgentInv => WithinLimits
  BY DEF AgentInv
<1> QED
  BY <1>1, AgentInvariant, PTL

\* The vault always holds what every wrapped token is redeemable for.
THEOREM Backing == Spec => []FullyBacked
<1>1. AgentInv => FullyBacked
  BY DEF AgentInv
<1> QED
  BY <1>1, AgentInvariant, PTL
------------------------------------------------------------------------------
(* The refinement. *)

\* The status as the abstract allowance sees it.
LEMMA PhaseValues ==
  /\ mandate.status = "Absent"  => Phase = "unopened"
  /\ mandate.status = "Active"  => Phase = "open"
  /\ mandate.status = "Paused"  => Phase = "frozen"
  /\ mandate.status = "Revoked" => Phase = "over"
  BY DEF Phase

\* The same after a step.
LEMMA PhaseValuesNext ==
  /\ mandate'.status = "Absent"  => Phase' = "unopened"
  /\ mandate'.status = "Active"  => Phase' = "open"
  /\ mandate'.status = "Paused"  => Phase' = "frozen"
  /\ mandate'.status = "Revoked" => Phase' = "over"
  BY DEF Phase

\* A pull spends no more than the pot, and stays within the lifetime cap.
LEMMA PullRefines ==
  ASSUME AgentInv, NEW who, NEW to \in Services, NEW amount \in Amounts,
         AgentPull(who, to, amount)
  PROVE  Allowance!Spend
<1> DEFINE m == Renewed(mandate)
<1>1. /\ mandate.status = "Active" /\ amount \in Nat /\ budget \in Nat /\ amount <= budget
      /\ m.totalSpent + amount <= m.lifetimeCap
      /\ mandate' = [m EXCEPT !.dailySpent = @ + amount, !.totalSpent = @ + amount,
                              !.lastPull = now]
      /\ budget' = budget - amount
  BY AmountsAssumption, Parts DEF AgentPull, CapHolds, TransferSucceeds
<1>2. /\ m \in MandateType /\ m.status = mandate.status
      /\ m.totalSpent = mandate.totalSpent /\ m.lifetimeCap = mandate.lifetimeCap
  BY Parts, RenewedWithin DEF AgentInv
<1> HIDE DEF m
<1>3. /\ mandate'.status = "Active"
      /\ mandate'.totalSpent = mandate.totalSpent + amount
      /\ mandate'.lifetimeCap = mandate.lifetimeCap
  BY <1>1, <1>2 DEF MandateType
<1>4. amount \in 0 .. budget
  BY <1>1
<1>5. mandate'.totalSpent <= mandate.lifetimeCap
  BY <1>1, <1>2, <1>3
<1>6. Phase = "open" /\ Phase' = "open"
  BY <1>1, <1>3, PhaseValues, PhaseValuesNext
<1> QED
  BY <1>1, <1>3, <1>4, <1>5, <1>6 DEF Allowance!Spend

\* Every step of the instructions is a step of the abstract allowance or none.
LEMMA StepRefines ==
  ASSUME AgentInv, AgentInv', [Next]_vars
  PROVE  [Allowance!Next]_(Allowance!vars)
<1>0. /\ mandate \in MandateType /\ budget \in Nat /\ NothingBefore
      /\ MandateLimits(mandate)'
  BY Parts DEF AgentInv, WithinLimits, MandateLimits
<1>1. ASSUME NEW who, NEW dailyLimit \in Limits, NEW lifetimeCap \in LifetimeCaps,
             NEW minPull \in MinPulls, NEW cooldown \in Cooldowns,
             NEW list \in ServiceLists, NEW funding \in Amounts,
             Create(who, dailyLimit, lifetimeCap, minPull, cooldown, list, funding)
      PROVE  Allowance!Grant
  <2>1. /\ mandate.status = "Absent" /\ mandate'.status = "Active"
        /\ mandate'.totalSpent = 0 /\ mandate'.lifetimeCap = lifetimeCap
        /\ budget' = budget + funding
    BY <1>1 DEF Create
  <2>2. mandate.totalSpent = 0
    BY <1>0, <2>1 DEF NothingBefore, NoMandate
  <2>3. lifetimeCap >= 0 /\ budget + funding >= budget
    BY <1>0, LimitsAssumption, AmountsAssumption
  <2> QED
    BY <2>1, <2>2, <2>3, PhaseValues, PhaseValuesNext DEF Allowance!Grant
<1>2. ASSUME NEW who, NEW dailyLimit, NEW lifetimeCap, NEW minPull, NEW cooldown,
             Adjust(who, dailyLimit, lifetimeCap, minPull, cooldown)
      PROVE  Allowance!Revise
  <2>1. /\ mandate.status \in {"Active", "Paused"}
        /\ budget' = budget
        /\ mandate'.status = mandate.status
        /\ mandate'.totalSpent = mandate.totalSpent
    BY <1>0, <1>2 DEF Adjust, tokens, MandateType
  <2>2. mandate'.lifetimeCap >= mandate.totalSpent
    <3>1. mandate' \in MandateType
      BY Parts DEF AgentInv, TypeOK
    <3> QED
      BY <1>0, <2>1, <3>1 DEF MandateLimits, MandateType
  <2>3. Phase \in {"open", "frozen"} /\ Phase' = Phase
    BY <2>1, PhaseValues, PhaseValuesNext
  <2> QED
    BY <2>1, <2>2, <2>3 DEF Allowance!Revise
<1>3. ASSUME NEW who, Pause(who) \/ Resume(who) \/ Revoke(who) \/ Drain(who)
      PROVE  Allowance!Freeze \/ Allowance!Thaw \/ Allowance!Revoke \/ Allowance!Reclaim
  <2>1. CASE Pause(who)
    <3>1. /\ mandate.status = "Active" /\ mandate'.status = "Paused" /\ budget' = budget
          /\ mandate'.totalSpent = mandate.totalSpent
          /\ mandate'.lifetimeCap = mandate.lifetimeCap
      BY <1>0, <2>1 DEF Pause, tokens, MandateType
    <3> QED
      BY <3>1, PhaseValues, PhaseValuesNext DEF Allowance!Freeze
  <2>2. CASE Resume(who)
    <3>1. /\ mandate.status = "Paused" /\ mandate'.status = "Active" /\ budget' = budget
          /\ mandate'.totalSpent = mandate.totalSpent
          /\ mandate'.lifetimeCap = mandate.lifetimeCap
      BY <1>0, <2>2 DEF Resume, tokens, MandateType
    <3> QED
      BY <3>1, PhaseValues, PhaseValuesNext DEF Allowance!Thaw
  <2>3. CASE Revoke(who)
    <3>1. /\ mandate.status \in {"Active", "Paused"} /\ mandate'.status = "Revoked"
          /\ budget' = 0
          /\ mandate'.totalSpent = mandate.totalSpent
          /\ mandate'.lifetimeCap = mandate.lifetimeCap
      BY <1>0, <2>3 DEF Revoke, ReclaimBudget, MandateType
    <3> QED
      BY <3>1, PhaseValues, PhaseValuesNext DEF Allowance!Revoke
  <2>4. CASE Drain(who)
    <3>1. mandate.status # "Absent" /\ mandate' = mandate /\ budget' = 0
      BY <2>4 DEF Drain, ReclaimBudget, account
    <3>2. Phase # "unopened" /\ Phase' = Phase
      BY <1>0, <3>1, PhaseValues DEF MandateType, Statuses, Phase
    <3> QED
      BY <3>1, <3>2 DEF Allowance!Reclaim
  <2> QED
    BY <1>3, <2>1, <2>2, <2>3, <2>4
<1>4. ASSUME NEW amount \in Amounts, NEW toMandate \in BOOLEAN,
             Wrap(toMandate, amount) \/ Send(amount)
      PROVE  Allowance!TopUp
  <2>1. mandate' = mandate
    BY <1>4 DEF Wrap, Send, account
  <2>2. budget' >= budget
    BY <1>0, <1>4, AmountsAssumption DEF Wrap, Send
  <2> QED
    BY <2>1, <2>2 DEF Allowance!TopUp, Phase
<1>5. ASSUME \/ \E amount \in Amounts : Unwrap(amount)
             \/ \E flag \in BOOLEAN : SetPaused(flag) \/ SetTokenEnabled(flag)
             \/ Tick
             \/ UNCHANGED vars
      PROVE  UNCHANGED Allowance!vars
  BY <1>5 DEF Unwrap, SetPaused, SetTokenEnabled, Tick, account, tokens, vars,
              Allowance!vars, Phase
<1> QED
  BY <1>1, <1>2, <1>3, <1>4, <1>5, PullRefines
     DEF Next, AdjustLimits, AdjustServices, Allowance!Next

\* Whatever the order of pulls, adjustments, pauses, drains and top-ups, the
\* agent spends within the lifetime cap, and nothing after a revocation.
THEOREM AgentImplementsAllowance == Spec => ImplementsAllowance
<1>1. Init => Allowance!Init
  BY PhaseValues DEF Init, Allowance!Init, NoMandate
<1>2. AgentInv /\ AgentInv' /\ [Next]_vars => [Allowance!Next]_(Allowance!vars)
  BY StepRefines
<1> QED
  BY <1>1, <1>2, AgentInvariant, PTL DEF Spec, ImplementsAllowance, Allowance!Spec
------------------------------------------------------------------------------
(* The books.  drawn and paidTo say what was really pulled and when; the     *)
(* account only keeps sums and the beginning of a window.                    *)

\* A record of spending since a window began, at an instant: it is the sum of
\* what was pulled since, and nothing was pulled after that window's day.
Book(f, spent, start, at) ==
  /\ start \in 1 .. at
  /\ spent = Total(f, start .. MaxTime)
  /\ \A t \in Times : f[t] > 0 => t < start + Window

\* What a day that began before the window took before it did.
BeforeWithin(f, start, limit) ==
  \A t \in Times : t > start - Window => Total(f, t .. start - 1) <= limit

DaysWithin(f, limit) == \A t \in Times : Total(f, t .. DayEnd(t) - 1) <= 2 * limit

\* The inductive invariant of the books, of the account, its list, the two
\* histories, the highest limit and the clock.
Ledger(m, list, d, paid, top, at) ==
  /\ m.dailyLimit <= top
  /\ DaysWithin(d, top)
  /\ m.status = "Absent" => d = NotYet /\ paid = [s \in Services |-> NotYet]
  /\ m.status # "Absent" =>
       /\ m.totalSpent = Total(d, Times)
       /\ Book(d, m.dailySpent, m.lastReset, at)
       /\ BeforeWithin(d, m.lastReset, top)
       /\ \A s \in DOMAIN list : Book(paid[s], list[s].spent, list[s].lastReset, at)

LedgerInv == Ledger(mandate, services, drawn, paidTo, peak, now)

\* Sums over spans of the clock are numbers.
LEMMA SpanTotals ==
  ASSUME NEW f \in [Times -> Nat], NEW S, S \subseteq Times
  PROVE  Counts(f, S) /\ Total(f, S) \in Nat
<1>1. IsFiniteSet(Times)
  BY BoundsAssumption, FS_Interval DEF Times
<1>2. IsFiniteSet(S)
  BY <1>1, FS_Subset
<1> QED BY <1>2, TotalIsFinite DEF Counts

\* Nothing was pulled since the instant a window is renewed at.
LEMMA RenewedBook ==
  ASSUME NEW f \in [Times -> Nat], NEW spent, NEW start, NEW at \in Times,
         Book(f, spent, start, at), at - start >= Window
  PROVE  Book(f, 0, at, at)
<1>1. /\ start \in Nat /\ at \in Nat /\ at >= 1 /\ MaxTime \in Nat /\ Window \in Nat
      /\ Times = 1 .. MaxTime
      /\ \A t \in Times : f[t] > 0 => t < start + Window
  BY BoundsAssumption DEF Book, Times
<1>2. \A t \in at .. MaxTime : f[t] = 0
  BY <1>1
<1>3. Total(f, at .. MaxTime) = 0
  BY <1>2, TotalOfZeroes
<1>4. \A t \in Times : f[t] > 0 => t < at + Window
  BY <1>1
<1> QED BY <1>1, <1>3, <1>4 DEF Book

\* A pull within the day of the window adds to the record what it took.
LEMMA PulledBook ==
  ASSUME NEW f \in [Times -> Nat], NEW g \in [Times -> Nat],
         NEW spent, NEW start, NEW at \in Times, NEW n \in Nat,
         Book(f, spent, start, at), at - start < Window,
         g[at] = f[at] + n, \A t \in Times : t # at => g[t] = f[t]
  PROVE  Book(g, spent + n, start, at)
<1>1. /\ start \in 1 .. at /\ start \in Nat /\ at \in Nat /\ at <= MaxTime
      /\ MaxTime \in Nat /\ Window \in Nat /\ Times = 1 .. MaxTime
      /\ \A t \in Times : f[t] > 0 => t < start + Window
  BY BoundsAssumption DEF Book, Times
<1>2. at \in start .. MaxTime /\ start .. MaxTime \subseteq Times
  BY <1>1
<1>3. Total(g, start .. MaxTime) = Total(f, start .. MaxTime) + n
  <2> DEFINE S == start .. MaxTime
  <2>1. Counts(f, S) /\ Counts(g, S)
    BY <1>2, SpanTotals
  <2>2. at \in S /\ n \in Int /\ \A t \in S : t # at => g[t] = f[t]
    BY <1>2
  <2> HIDE DEF S
  <2>3. Total(g, S) = Total(f, S) + n
    BY <2>1, <2>2, TotalChangesBy
  <2> QED BY <2>3 DEF S
<1>4. \A t \in Times : g[t] > 0 => t < start + Window
  BY <1>1
<1> QED BY <1>1, <1>3, <1>4 DEF Book

\* Time passes over a record.
LEMMA LaterBook ==
  ASSUME NEW f, NEW spent, NEW start, NEW at \in Nat, NEW later \in Nat, at <= later,
         Book(f, spent, start, at)
  PROVE  Book(f, spent, start, later)
  BY DEF Book

\* No pull was made yet, and every window begins now.
LEMMA FirstBook ==
  ASSUME NEW at \in Times
  PROVE  /\ Book(NotYet, 0, at, at)
         /\ Total(NotYet, Times) = 0
         /\ \A top \in Nat : BeforeWithin(NotYet, at, top) /\ DaysWithin(NotYet, top)
<1>1. at \in 1 .. at /\ at \in Nat /\ at >= 1 /\ Times = 1 .. MaxTime
      /\ MaxTime \in Nat /\ Window \in Nat
  BY BoundsAssumption DEF Times
<1>2. NotYet \in [Times -> Nat] /\ \A t \in Times : NotYet[t] = 0
  BY DEF NotYet
<1>3. \A S \in SUBSET Times : Total(NotYet, S) = 0
  BY <1>2, TotalOfZeroes
<1>4. at .. MaxTime \subseteq Times
  BY <1>1
<1>5. Book(NotYet, 0, at, at)
  BY <1>1, <1>2, <1>3, <1>4 DEF Book
<1>6. \A t \in Times : t .. at - 1 \subseteq Times /\ t .. DayEnd(t) - 1 \subseteq Times
  BY <1>1 DEF DayEnd
<1>7. ASSUME NEW top \in Nat
      PROVE  BeforeWithin(NotYet, at, top) /\ DaysWithin(NotYet, top)
  <2>1. 0 <= top /\ 0 <= 2 * top
    OBVIOUS
  <2>2. \A t \in Times : /\ Total(NotYet, t .. at - 1) = 0
                        /\ Total(NotYet, t .. DayEnd(t) - 1) = 0
    BY <1>3, <1>6
  <2> QED BY <2>1, <2>2 DEF BeforeWithin, DaysWithin
<1> QED BY <1>3, <1>5, <1>7

\* What a renewal leaves of the days before the new window: they reach back
\* into the old window only, and that took no more than its limit.
LEMMA RenewedBefore ==
  ASSUME NEW f \in [Times -> Nat], NEW spent \in Nat, NEW start, NEW at \in Times,
         NEW top \in Nat, spent <= top,
         Book(f, spent, start, at), at - start >= Window
  PROVE  BeforeWithin(f, at, top)
<1>1. /\ start \in Nat /\ start >= 1 /\ at \in Nat /\ at <= MaxTime
      /\ MaxTime \in Nat /\ Window \in Nat /\ Times = 1 .. MaxTime
      /\ spent = Total(f, start .. MaxTime)
  BY BoundsAssumption DEF Book, Times
<1>2. start .. MaxTime \subseteq Times
  BY <1>1
<1>3. ASSUME NEW t \in Times, t > at - Window
      PROVE  Total(f, t .. at - 1) <= top
  <2>1. t .. at - 1 \subseteq start .. MaxTime
    BY <1>1, <1>3
  <2>2. Total(f, t .. at - 1) <= Total(f, start .. MaxTime)
    BY <1>2, <2>1, SpanTotals, TotalOfPart
  <2>3. Total(f, t .. at - 1) \in Nat
    BY <1>2, <2>1, SpanTotals
  <2> QED BY <1>1, <2>2, <2>3
<1> QED BY <1>3 DEF BeforeWithin

\* A day that a pull falls in spans the window and what came before it.
LEMMA DaysStayWithin ==
  ASSUME NEW f \in [Times -> Nat], NEW g \in [Times -> Nat], NEW at \in Times,
         \A t \in Times : t # at => g[t] = f[t],
         NEW spent \in Nat, NEW start, NEW top \in Nat, spent <= top,
         Book(g, spent, start, at), BeforeWithin(f, start, top), DaysWithin(f, top)
  PROVE  DaysWithin(g, top) /\ BeforeWithin(g, start, top)
<1>1. /\ start \in Nat /\ start >= 1 /\ start <= at /\ at \in Nat /\ at <= MaxTime
      /\ MaxTime \in Nat /\ Window \in Nat /\ Times = 1 .. MaxTime
      /\ spent = Total(g, start .. MaxTime)
  BY BoundsAssumption DEF Book, Times
<1>2. start .. MaxTime \subseteq Times
  BY <1>1
<1>3. ASSUME NEW S, S \subseteq 1 .. start - 1
      PROVE  Total(g, S) = Total(f, S)
  <2>1. \A t \in S : g[t] = f[t]
    BY <1>1, <1>3
  <2> QED BY <2>1, TotalAgrees
<1>4. BeforeWithin(g, start, top)
  <2>1. \A t \in Times : t .. start - 1 \subseteq 1 .. start - 1
    BY <1>1
  <2> QED BY <1>3, <2>1 DEF BeforeWithin
<1>5. ASSUME NEW t \in Times
      PROVE  Total(g, t .. DayEnd(t) - 1) <= 2 * top
  <2> DEFINE end == DayEnd(t)
             Day == t .. end - 1
             Old == t .. start - 1
             New == {u \in Day : u >= start}
  <2>1. /\ t \in Nat /\ t >= 1 /\ end \in Nat /\ end <= t + Window /\ end <= MaxTime + 1
    BY <1>1 DEF DayEnd
  <2>2. CASE end <= start
    <3>1. Day \subseteq 1 .. start - 1
      <4> HIDE DEF end
      <4> QED BY <1>1, <2>1, <2>2
    <3>2. Total(f, Day) <= 2 * top
      BY DEF DaysWithin
    <3> QED BY <1>3, <3>1, <3>2
  <2>3. CASE end > start
    <3> HIDE DEF end
    <3>1. t > start - Window
      BY <1>1, <2>1, <2>3
    <3>2. Day = Old \cup New /\ Old \cap New = {}
      BY <1>1, <2>1, <2>3
    <3>3. New \subseteq start .. MaxTime /\ Old \subseteq Times
      BY <1>1, <2>1
    <3>4. Total(g, Old) <= top
      BY <1>4, <3>1 DEF BeforeWithin
    <3> HIDE DEF Old, New, Day
    <3>5. Total(g, New) <= spent
      BY <1>1, <1>2, <3>3, SpanTotals, TotalOfPart
    <3>6. Counts(g, Old) /\ Counts(g, New) /\ Total(g, Old) \in Nat /\ Total(g, New) \in Nat
      BY <1>2, <3>3, SpanTotals
    <3>7. Total(g, Day) = Total(g, Old) + Total(g, New)
      BY <3>2, <3>6, TotalOfBoth
    <3> QED BY <3>4, <3>5, <3>6, <3>7 DEF Day, end
  <2> QED BY <1>1, <2>1, <2>2, <2>3
<1> QED BY <1>4, <1>5 DEF DaysWithin

\* A higher limit covers what a lower one did.
LEMMA HigherLimit ==
  ASSUME NEW f \in [Times -> Nat], NEW low \in Nat, NEW high \in Nat, low <= high
  PROVE  /\ DaysWithin(f, low) => DaysWithin(f, high)
         /\ \A start \in Times : BeforeWithin(f, start, low) => BeforeWithin(f, start, high)
<1>1. MaxTime \in Nat /\ Window \in Nat /\ Times = 1 .. MaxTime
  BY BoundsAssumption DEF Times
<1>2. \A t \in Times : Total(f, t .. DayEnd(t) - 1) \in Nat
  <2>1. \A t \in Times : t .. DayEnd(t) - 1 \subseteq Times
    BY <1>1 DEF DayEnd
  <2> QED BY <2>1, SpanTotals
<1>3. \A start \in Times : \A t \in Times : Total(f, t .. start - 1) \in Nat
  <2>1. \A start \in Times : \A t \in Times : t .. start - 1 \subseteq Times
    BY <1>1
  <2> QED BY <2>1, SpanTotals
<1>4. DaysWithin(f, low) => DaysWithin(f, high)
  <2>1. \A n \in Nat : n <= 2 * low => n <= 2 * high
    OBVIOUS
  <2> QED BY <1>2, <2>1 DEF DaysWithin
<1>5. \A start \in Times : BeforeWithin(f, start, low) => BeforeWithin(f, start, high)
  <2>1. \A n \in Nat : n <= low => n <= high
    OBVIOUS
  <2> QED BY <1>3, <2>1 DEF BeforeWithin
<1> QED BY <1>4, <1>5

\* What the invariant says of the account as a pull renews it.
LEMMA RenewedLedger ==
  ASSUME AgentInv, LedgerInv, mandate.status = "Active"
  PROVE  LET m == Renewed(mandate)
         IN  /\ m \in MandateType /\ m.status = "Active"
             /\ m.totalSpent = mandate.totalSpent /\ m.dailyLimit = mandate.dailyLimit
             /\ Book(drawn, m.dailySpent, m.lastReset, now)
             /\ now - m.lastReset < Window
             /\ BeforeWithin(drawn, m.lastReset, peak)
<1>1. /\ TypeOK /\ MandateLimits(mandate) /\ mandate \in MandateType
      /\ now \in Times /\ now \in Nat /\ drawn \in [Times -> Nat] /\ peak \in Nat
      /\ Window \in Nat /\ mandate.dailySpent \in Nat /\ mandate.dailyLimit \in Nat
  BY Parts, FieldTypes, BoundsAssumption DEF AgentInv
<1>2. /\ Book(drawn, mandate.dailySpent, mandate.lastReset, now)
      /\ BeforeWithin(drawn, mandate.lastReset, peak)
      /\ mandate.dailyLimit <= peak
  BY DEF LedgerInv, Ledger
<1>3. Renewed(mandate) \in MandateType
  BY <1>1, RenewedWithin
<1>4. CASE DayOver(mandate.lastReset)
  <2>1. Renewed(mandate) = [mandate EXCEPT !.dailySpent = 0, !.lastReset = now]
    BY <1>4 DEF Renewed
  <2>2. now - mandate.lastReset >= Window
    BY <1>4 DEF DayOver
  <2>3. mandate.dailySpent <= peak
    BY <1>1, <1>2 DEF MandateLimits
  <2>4. Book(drawn, 0, now, now) /\ BeforeWithin(drawn, now, peak)
    BY <1>1, <1>2, <2>2, <2>3, RenewedBook, RenewedBefore
  <2>5. now - now < Window
    BY <1>1, BoundsAssumption
  <2> QED BY <1>1, <1>3, <2>1, <2>4, <2>5 DEF MandateType
<1>5. CASE ~DayOver(mandate.lastReset)
  <2>1. Renewed(mandate) = mandate
    BY <1>5 DEF Renewed
  <2>2. now - mandate.lastReset < Window
    BY <1>1, <1>2, <1>5 DEF DayOver, Book
  <2> QED BY <1>1, <1>2, <2>1, <2>2
<1> QED BY <1>4, <1>5

\* The same of a service's entry.
LEMMA RenewedEntry ==
  ASSUME AgentInv, LedgerInv, mandate.status = "Active", NEW to \in DOMAIN services
  PROVE  LET s == ServiceRenewed(services[to])
         IN  /\ s \in ServiceType
             /\ Book(paidTo[to], s.spent, s.lastReset, now)
             /\ now - s.lastReset < Window
<1>1. /\ TypeOK /\ now \in Times /\ now \in Nat /\ Window \in Nat
      /\ to \in Services /\ services[to] \in ServiceType
      /\ paidTo[to] \in [Times -> Nat] /\ services[to].spent <= services[to].limit
  BY Parts, FieldTypes, EntryTypes, BoundsAssumption DEF AgentInv, ServiceLimits
<1>2. Book(paidTo[to], services[to].spent, services[to].lastReset, now)
  BY DEF LedgerInv, Ledger
<1>3. ServiceRenewed(services[to]) \in ServiceType
  BY <1>1, ServiceRenewedWithin
<1>4. CASE DayOver(services[to].lastReset)
  <2>1. ServiceRenewed(services[to]) = [services[to] EXCEPT !.spent = 0, !.lastReset = now]
    BY <1>4 DEF ServiceRenewed
  <2>2. now - services[to].lastReset >= Window
    BY <1>4 DEF DayOver
  <2>3. Book(paidTo[to], 0, now, now)
    BY <1>1, <1>2, <2>2, RenewedBook
  <2>4. now - now < Window
    BY <1>1, BoundsAssumption
  <2> QED BY <1>1, <1>3, <2>1, <2>3, <2>4 DEF ServiceType
<1>5. CASE ~DayOver(services[to].lastReset)
  <2>1. ServiceRenewed(services[to]) = services[to]
    BY <1>5 DEF ServiceRenewed
  <2>2. now - services[to].lastReset < Window
    BY <1>1, <1>2, <1>5 DEF DayOver, Book
  <2> QED BY <1>1, <1>2, <2>1, <2>2
<1> QED BY <1>4, <1>5

\* A pull enters both books, and stays within the day's limit and the two days'.
LEMMA PullLedger ==
  ASSUME AgentInv, LedgerInv, NEW who, NEW to \in Services, NEW amount \in Amounts,
         AgentPull(who, to, amount)
  PROVE  LedgerInv'
<1> DEFINE m == Renewed(mandate)
           s == ServiceRenewed(services[to])
<1>1. /\ amount \in Nat /\ now \in Times /\ peak \in Nat
      /\ drawn \in [Times -> Nat] /\ paidTo \in [Services -> [Times -> Nat]]
      /\ ServicesTyped(services)
  BY Parts, AmountsAssumption
<1>2. /\ mandate.status = "Active" /\ to \in DOMAIN services
      /\ now' = now /\ peak' = peak
      /\ m.dailySpent + amount <= m.dailyLimit
      /\ services' = [services EXCEPT ![to] = [s EXCEPT !.spent = @ + amount]]
      /\ mandate' = [m EXCEPT !.dailySpent = @ + amount, !.totalSpent = @ + amount,
                              !.lastPull = now]
      /\ drawn' = [drawn EXCEPT ![now] = @ + amount]
      /\ paidTo' = [paidTo EXCEPT ![to][now] = @ + amount]
  BY DEF AgentPull, Spent
<1>3. /\ m \in MandateType /\ m.status = "Active"
      /\ m.totalSpent = mandate.totalSpent /\ m.dailyLimit = mandate.dailyLimit
      /\ Book(drawn, m.dailySpent, m.lastReset, now)
      /\ now - m.lastReset < Window
      /\ BeforeWithin(drawn, m.lastReset, peak)
  BY <1>2, RenewedLedger
<1>4. /\ s \in ServiceType
      /\ Book(paidTo[to], s.spent, s.lastReset, now)
      /\ now - s.lastReset < Window
  BY <1>2, RenewedEntry
<1> HIDE DEF m, s
<1>5. /\ mandate.dailyLimit <= peak /\ DaysWithin(drawn, peak)
      /\ mandate.totalSpent = Total(drawn, Times)
      /\ \A x \in DOMAIN services :
           Book(paidTo[x], services[x].spent, services[x].lastReset, now)
  BY <1>2 DEF LedgerInv, Ledger
<1>6. /\ drawn' \in [Times -> Nat] /\ drawn'[now] = drawn[now] + amount
      /\ \A t \in Times : t # now => drawn'[t] = drawn[t]
      /\ paidTo'[to] \in [Times -> Nat] /\ paidTo'[to][now] = paidTo[to][now] + amount
      /\ \A t \in Times : t # now => paidTo'[to][t] = paidTo[to][t]
      /\ \A x \in Services : x # to => paidTo'[x] = paidTo[x]
  BY <1>1, <1>2
<1>7. /\ mandate'.status = "Active" /\ mandate'.dailyLimit = mandate.dailyLimit
      /\ mandate'.dailySpent = m.dailySpent + amount
      /\ mandate'.lastReset = m.lastReset
      /\ mandate'.totalSpent = mandate.totalSpent + amount
      /\ m.dailySpent \in Nat /\ mandate.dailyLimit \in Nat
  BY <1>2, <1>3 DEF MandateType
<1>8. Book(drawn', mandate'.dailySpent, mandate'.lastReset, now)
  BY <1>1, <1>3, <1>6, <1>7, PulledBook
<1>9. DaysWithin(drawn', peak) /\ BeforeWithin(drawn', mandate'.lastReset, peak)
  <2>1. mandate'.dailySpent \in Nat /\ mandate'.dailySpent <= peak
    BY <1>1, <1>2, <1>3, <1>5, <1>7
  <2> QED BY <1>1, <1>3, <1>5, <1>6, <1>7, <1>8, <2>1, DaysStayWithin
<1>10. mandate'.totalSpent = Total(drawn', Times)
  <2>1. Counts(drawn, Times) /\ Counts(drawn', Times) /\ amount \in Int
    BY <1>1, <1>6, SpanTotals
  <2>2. Total(drawn', Times) = Total(drawn, Times) + amount
    BY <1>1, <1>6, <2>1, TotalChangesBy
  <2> QED BY <1>5, <1>7, <2>2
<1>11. ASSUME NEW x \in DOMAIN services'
       PROVE  Book(paidTo'[x], services'[x].spent, services'[x].lastReset, now)
  <2>1. x \in DOMAIN services /\ x \in Services
    BY <1>1, <1>2 DEF ServicesTyped
  <2>2. CASE x = to
    <3>1. services'[x].spent = s.spent + amount /\ services'[x].lastReset = s.lastReset
      BY <1>2, <1>4, <2>1, <2>2 DEF ServiceType
    <3> QED BY <1>1, <1>4, <1>6, <2>2, <3>1, PulledBook
  <2>3. CASE x # to
    BY <1>2, <1>5, <1>6, <2>1, <2>3
  <2> QED BY <2>2, <2>3
<1> QED BY <1>2, <1>5, <1>7, <1>8, <1>9, <1>10, <1>11 DEF LedgerInv, Ledger

\* Creation opens all books at once, empty.
LEMMA CreateLedger ==
  ASSUME AgentInv, LedgerInv, NEW who, NEW dailyLimit \in Limits, NEW lifetimeCap,
         NEW minPull, NEW cooldown, NEW list \in ServiceLists, NEW funding,
         Create(who, dailyLimit, lifetimeCap, minPull, cooldown, list, funding)
  PROVE  LedgerInv'
<1>1. /\ now \in Times /\ dailyLimit \in Nat
      /\ DOMAIN list \subseteq Services
  BY Parts, LimitsAssumption, ListsAssumption
<1>2. /\ mandate.status = "Absent" /\ now' = now /\ peak' = dailyLimit
      /\ mandate'.status = "Active" /\ mandate'.dailyLimit = dailyLimit
      /\ mandate'.dailySpent = 0 /\ mandate'.lastReset = now /\ mandate'.totalSpent = 0
      /\ services' = [s \in DOMAIN list |->
                        [limit |-> list[s], spent |-> 0, lastReset |-> now]]
      /\ drawn' = drawn /\ paidTo' = paidTo
  BY DEF Create
<1>3. drawn = NotYet /\ paidTo = [s \in Services |-> NotYet]
  BY <1>2 DEF LedgerInv, Ledger
<1>4. /\ Book(NotYet, 0, now, now) /\ Total(NotYet, Times) = 0
      /\ BeforeWithin(NotYet, now, dailyLimit) /\ DaysWithin(NotYet, dailyLimit)
  BY <1>1, FirstBook
<1>5. ASSUME NEW s \in DOMAIN services'
      PROVE  Book(paidTo'[s], services'[s].spent, services'[s].lastReset, now)
  <2>1. s \in DOMAIN list /\ s \in Services
    BY <1>1, <1>2, <1>5
  <2>2. services'[s].spent = 0 /\ services'[s].lastReset = now
    BY <1>2, <2>1
  <2> QED BY <1>2, <1>3, <1>4, <2>1, <2>2
<1> QED BY <1>1, <1>2, <1>3, <1>4, <1>5 DEF LedgerInv, Ledger

\* What stays of the account's own book when an adjustment changes the limits.
LEMMA AdjustedLedger ==
  ASSUME AgentInv, LedgerInv, NEW who, NEW dailyLimit \in Limits \cup {None},
         NEW lifetimeCap, NEW minPull, NEW cooldown,
         Adjust(who, dailyLimit, lifetimeCap, minPull, cooldown),
         \A s \in DOMAIN services' :
           Book(paidTo'[s], services'[s].spent, services'[s].lastReset, now)
  PROVE  LedgerInv'
<1>1. /\ mandate \in MandateType /\ peak \in Nat /\ drawn \in [Times -> Nat]
      /\ now \in Times /\ mandate.dailyLimit \in Nat
  BY Parts DEF MandateType
<1>2. /\ mandate.status \in {"Active", "Paused"} /\ mandate'.status = mandate.status
      /\ mandate'.dailyLimit = Or(dailyLimit, mandate.dailyLimit)
      /\ mandate'.dailySpent = mandate.dailySpent
      /\ mandate'.lastReset = mandate.lastReset
      /\ mandate'.totalSpent = mandate.totalSpent
      /\ peak' = (IF dailyLimit > peak THEN dailyLimit ELSE peak)
      /\ now' = now /\ drawn' = drawn
  BY <1>1 DEF Adjust, MandateType
<1>3. /\ mandate.dailyLimit <= peak /\ DaysWithin(drawn, peak)
      /\ mandate.totalSpent = Total(drawn, Times)
      /\ Book(drawn, mandate.dailySpent, mandate.lastReset, now)
      /\ BeforeWithin(drawn, mandate.lastReset, peak)
  BY <1>2 DEF LedgerInv, Ledger
<1>4. peak' \in Nat /\ peak <= peak' /\ mandate'.dailyLimit <= peak'
  <2>1. dailyLimit \in Nat \/ dailyLimit = -1
    BY LimitsAssumption DEF None
  <2> QED BY <1>1, <1>2, <1>3, <2>1 DEF Or, None
<1>5. mandate.lastReset \in Times
  BY <1>1, <1>3, BoundsAssumption DEF Book, Times
<1>6. DaysWithin(drawn, peak') /\ BeforeWithin(drawn, mandate.lastReset, peak')
  BY <1>1, <1>3, <1>4, <1>5, HigherLimit
<1> QED BY <1>2, <1>3, <1>4, <1>6 DEF LedgerInv, Ledger

\* adjust_agent_mandate without a list.
LEMMA AdjustLimitsLedger ==
  ASSUME AgentInv, LedgerInv, NEW who, NEW dailyLimit \in Limits \cup {None},
         NEW lifetimeCap, NEW minPull, NEW cooldown,
         AdjustLimits(who, dailyLimit, lifetimeCap, minPull, cooldown)
  PROVE  LedgerInv'
<1>1. /\ Adjust(who, dailyLimit, lifetimeCap, minPull, cooldown)
      /\ services' = services /\ paidTo' = paidTo
      /\ mandate.status \in {"Active", "Paused"}
  BY DEF AdjustLimits, Adjust
<1>2. \A s \in DOMAIN services' :
        Book(paidTo'[s], services'[s].spent, services'[s].lastReset, now)
  BY <1>1 DEF LedgerInv, Ledger
<1> QED BY <1>1, <1>2, AdjustedLedger

\* And with one: an entry that stays keeps its book, a new one opens a book.
LEMMA AdjustServicesLedger ==
  ASSUME AgentInv, LedgerInv, NEW who, NEW dailyLimit \in Limits \cup {None},
         NEW lifetimeCap, NEW minPull, NEW cooldown, NEW list \in ServiceLists,
         AdjustServices(who, dailyLimit, lifetimeCap, minPull, cooldown, list)
  PROVE  LedgerInv'
<1>1. /\ Adjust(who, dailyLimit, lifetimeCap, minPull, cooldown)
      /\ services' = Relisted(list)
      /\ paidTo' = [s \in Services |->
                      IF s \in DOMAIN list \ DOMAIN services THEN NotYet ELSE paidTo[s]]
      /\ mandate.status \in {"Active", "Paused"}
  BY DEF AdjustServices, Adjust
<1>2. /\ now \in Times /\ ServicesTyped(services) /\ DOMAIN list \subseteq Services
  BY Parts, ListsAssumption
<1>3. ASSUME NEW s \in DOMAIN services'
      PROVE  Book(paidTo'[s], services'[s].spent, services'[s].lastReset, now)
  <2>1. s \in DOMAIN list /\ s \in Services
    BY <1>1, <1>2, <1>3 DEF Relisted
  <2>2. CASE s \in DOMAIN services
    <3>1. paidTo'[s] = paidTo[s]
      BY <1>1, <2>1, <2>2
    <3>2. services'[s] = [services[s] EXCEPT !.limit = list[s]]
      BY <1>1, <2>1, <2>2 DEF Relisted
    <3>3. services[s] \in ServiceType
      BY <1>2, <2>2 DEF ServicesTyped
    <3>4. services'[s].spent = services[s].spent
          /\ services'[s].lastReset = services[s].lastReset
      BY <3>2, <3>3 DEF ServiceType
    <3> QED BY <1>1, <2>2, <3>1, <3>4 DEF LedgerInv, Ledger
  <2>3. CASE s \notin DOMAIN services
    <3>1. paidTo'[s] = NotYet
      BY <1>1, <2>1, <2>3
    <3>2. services'[s].spent = 0 /\ services'[s].lastReset = now
      BY <1>1, <2>1, <2>3 DEF Relisted
    <3> QED BY <1>2, <3>1, <3>2, FirstBook
  <2> QED BY <2>2, <2>3
<1> QED BY <1>1, <1>3, AdjustedLedger

\* Everything else leaves the books alone; the clock may advance.
LEMMA CalmLedger ==
  ASSUME AgentInv, LedgerInv,
         mandate'.status = "Absent" <=> mandate.status = "Absent",
         mandate'.dailyLimit = mandate.dailyLimit,
         mandate'.dailySpent = mandate.dailySpent,
         mandate'.lastReset = mandate.lastReset,
         mandate'.totalSpent = mandate.totalSpent,
         UNCHANGED <<services, history>>, now' \in Nat, now <= now'
  PROVE  LedgerInv'
<1>1. now \in Nat
  BY Parts, BoundsAssumption DEF Times
<1>2. services' = services /\ drawn' = drawn /\ paidTo' = paidTo /\ peak' = peak
  BY DEF history
<1>3. \A f, spent, start : Book(f, spent, start, now) => Book(f, spent, start, now')
  BY <1>1, LaterBook
<1> QED BY <1>2, <1>3 DEF LedgerInv, Ledger

LEMMA InitLedger == Init => LedgerInv
<1> SUFFICES ASSUME Init PROVE LedgerInv
  OBVIOUS
<1>1. /\ mandate.status = "Absent" /\ mandate.dailyLimit = 0 /\ peak = 0
      /\ drawn = NotYet /\ paidTo = [s \in Services |-> NotYet] /\ now \in Times
  BY BoundsAssumption DEF Init, NoMandate, Times
<1>2. DaysWithin(NotYet, 0)
  BY <1>1, FirstBook
<1> QED BY <1>1, <1>2 DEF LedgerInv, Ledger

LEMMA NextLedger == AgentInv /\ LedgerInv /\ [Next]_vars => LedgerInv'
<1> SUFFICES ASSUME AgentInv, LedgerInv, [Next]_vars PROVE LedgerInv'
  OBVIOUS
<1>1. now \in Nat /\ mandate \in MandateType
  BY Parts, BoundsAssumption DEF Times
<1>2. ASSUME NEW who \in Signers, Pause(who) \/ Resume(who) \/ Revoke(who) \/ Drain(who)
      PROVE  LedgerInv'
  <2>1. /\ mandate' = mandate \/ \E status \in {"Active", "Paused", "Revoked"} :
                                    mandate' = [mandate EXCEPT !.status = status]
        /\ mandate.status # "Absent"
        /\ now' = now /\ UNCHANGED <<services, history>>
    BY <1>2 DEF Pause, Resume, Revoke, Drain, account
  <2>2. /\ mandate'.status # "Absent"
        /\ mandate'.dailyLimit = mandate.dailyLimit
        /\ mandate'.dailySpent = mandate.dailySpent
        /\ mandate'.lastReset = mandate.lastReset
        /\ mandate'.totalSpent = mandate.totalSpent
    BY <1>1, <2>1 DEF MandateType
  <2> QED BY <1>1, <2>1, <2>2, CalmLedger
<1>3. ASSUME \/ \E amount \in Amounts :
                  \/ Unwrap(amount) \/ Send(amount)
                  \/ \E toMandate \in BOOLEAN : Wrap(toMandate, amount)
             \/ \E flag \in BOOLEAN : SetPaused(flag) \/ SetTokenEnabled(flag)
             \/ Tick
             \/ UNCHANGED vars
      PROVE  LedgerInv'
  <2>1. mandate' = mandate /\ UNCHANGED <<services, history>>
    BY <1>3 DEF Unwrap, Send, Wrap, SetPaused, SetTokenEnabled, Tick, vars, account, history
  <2>2. now' = now \/ now' = now + 1
    BY <1>3 DEF Unwrap, Send, Wrap, SetPaused, SetTokenEnabled, Tick, vars
  <2> QED BY <1>1, <2>1, <2>2, CalmLedger
<1> QED
  BY <1>2, <1>3, PullLedger, CreateLedger, AdjustLimitsLedger, AdjustServicesLedger DEF Next

\* The books are kept in every reachable state.
LEMMA LedgerHolds == Spec => [](AgentInv /\ LedgerInv)
<1>1. Init => LedgerInv
  BY InitLedger
<1>2. AgentInv /\ LedgerInv /\ [Next]_vars => LedgerInv'
  BY NextLedger
<1> QED BY <1>1, <1>2, AgentInvariant, PTL DEF Spec

\* The account's and every listed service's recorded spending is what was pulled
\* since its window began, however lazily it was renewed and whatever list and
\* limits were adjusted in between.
THEOREM BooksAreTrue == Spec => []BooksMatch
<1>1. AgentInv /\ LedgerInv => BooksMatch
  <2> SUFFICES ASSUME AgentInv, LedgerInv, mandate.status # "Absent"
               PROVE  /\ mandate.totalSpent = Pulled(drawn, 1, MaxTime + 1)
                      /\ mandate.dailySpent = Pulled(drawn, mandate.lastReset, MaxTime + 1)
                      /\ \A s \in DOMAIN services :
                           services[s].spent
                             = Pulled(paidTo[s], services[s].lastReset, MaxTime + 1)
    BY DEF BooksMatch
  <2>1. \A t : t .. (MaxTime + 1) - 1 = t .. MaxTime
    <3>1. (MaxTime + 1) - 1 = MaxTime
      BY BoundsAssumption
    <3> QED BY <3>1
  <2>2. \A f, t : Pulled(f, t, MaxTime + 1) = Total(f, t .. MaxTime)
    BY <2>1, Zenon DEF Pulled
  <2> QED BY <2>2 DEF LedgerInv, Ledger, Book, Times
<1> QED BY <1>1, LedgerHolds, PTL

\* In any day, wherever it is taken to begin, no more than two of the highest
\* daily limits leave the budget: a day spans at most two windows.
THEOREM TwoLimitsADay == Spec => []AnyDayWithinTwoLimits
<1>1. LedgerInv => AnyDayWithinTwoLimits
  BY DEF LedgerInv, Ledger, DaysWithin, AnyDayWithinTwoLimits, Pulled
<1> QED BY <1>1, LedgerHolds, PTL
==============================================================================
