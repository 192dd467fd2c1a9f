-------------------------- MODULE DeploymentProofs --------------------------
(***************************************************************************)
(* Proofs about Deployment, for every set of mints, holders and keepers.   *)
(* Each action touches two or three accounts, so the invariant is proved   *)
(* part by part: types first, then DeploymentInv on top of them, then the  *)
(* balances: every wrapped token is backed.                                *)
(***************************************************************************)
EXTENDS Deployment, TotalsProofs

\* An account not yet created is blank; there is one wrapped mint and the
\* configuration names it; a mint not yet created has no list, and nobody
\* holds a token of it.
Blank == config.layout = "Absent" => config = NoConfig
OneMint ==
  /\ config.mint # None => config.mint \in minted
  /\ \A w \in minted : w = config.mint
NothingBeforeTheMint ==
  \A w \in WrappedMints \ minted :
    /\ lists[w].size = "Absent"
    /\ \A h \in Holders : wrapped[w][h] = 0

DeploymentInv ==
  /\ TypeOK
  /\ Blank
  /\ OneMint
  /\ NothingBeforeTheMint
  /\ ListsNameTheVault
  /\ AsTheAdminLeftIt

TokenType == [layout : {"Absent", "Current"}, enabled : BOOLEAN, rail : Rails]
ListType  == [size : {"Absent", "Short", "Full"}, vault : SplMints \cup {None}]

USE DEF Layouts

\* What the constants are: a wrapped mint is no SPL mint and has an entry in
\* the tables of mints, as an SPL mint has; wallets and escrows hold tokens.
LEMMA ConstantFacts ==
  /\ WrappedMints \subseteq AllMints /\ SplMints \subseteq AllMints
  /\ \A w \in WrappedMints : w \notin SplMints /\ w # None
  /\ None \notin SplMints
  /\ SixDecimals \subseteq SplMints
  /\ Wallets \subseteq Holders
  /\ \A m \in AllMints : m \in WrappedMints \/ m \in SplMints
  BY DeploymentAssumption DEF AllMints, Holders

\* TypeOK by variable.
LEMMA TypesByVariable ==
  TypeOK <=>
    /\ config \in [layout : Layouts, mint : WrappedMints \cup {None},
                   vault : SplMints \cup {None}, paused : BOOLEAN]
    /\ keeper \in [layout : Layouts, authority : Keepers \cup {None}]
    /\ tokens \in [AllMints -> TokenType]
    /\ lists \in [AllMints -> ListType]
    /\ minted \subseteq WrappedMints
    /\ wrapped \in [WrappedMints -> [Holders -> Nat]]
    /\ vault \in [SplMints -> Nat]
    /\ told \in [paused : BOOLEAN, mint : WrappedMints \cup {None},
                 keeper : Keepers \cup {None}]
  BY DEF TypeOK, TokenType, ListType

\* Where a deployment starts, new or of an older release, all of it holds.
LEMMA DeploymentStarts == ASSUME Init PROVE DeploymentInv
<1>1. tokens \in [AllMints -> TokenType]
  BY DEF Init, NoToken, TokenType, Rails
<1>2. keeper \in [layout : Layouts, authority : Keepers \cup {None}]
  <2>1. keeper = NoKeeper \/ \E k \in Keepers : keeper = [layout |-> "Legacy", authority |-> k]
    BY DEF Init, InitNew, InitOld
  <2> QED BY <2>1 DEF NoKeeper
<1>3. config \in [layout : Layouts, mint : WrappedMints \cup {None},
                 vault : SplMints \cup {None}, paused : BOOLEAN]
      => /\ AsTheAdminLeftIt
         /\ told \in [paused : BOOLEAN, mint : WrappedMints \cup {None},
                      keeper : Keepers \cup {None}]
  BY <1>2 DEF Init, AsTheAdminLeftIt
<1>4. NoList \in ListType /\ NoList.size = "Absent"
  BY DEF NoList, ListType
<1>5. ASSUME NEW p \in BOOLEAN, NEW l \in Layouts,
             config = [layout |-> l, mint |-> None, vault |-> None, paused |-> p],
             l = "Absent" => p = FALSE,
             minted = {},
             wrapped = [w \in WrappedMints |-> [h \in Holders |-> 0]],
             vault = [s \in SplMints |-> 0],
             lists = [m \in AllMints |-> NoList]
      PROVE  DeploymentInv
  <2>1. lists \in [AllMints -> ListType] /\ \A m \in AllMints : lists[m].size = "Absent"
    BY <1>4, <1>5
  <2>2. TypeOK
    BY <1>1, <1>2, <1>3, <1>5, <2>1, TypesByVariable
  <2>3. OneMint /\ NothingBeforeTheMint /\ ListsNameTheVault
    BY <1>5, <2>1, ConstantFacts DEF OneMint, NothingBeforeTheMint, ListsNameTheVault
  <2>4. Blank
    BY <1>5 DEF Blank, NoConfig
  <2> QED BY <1>3, <1>5, <2>2, <2>3, <2>4 DEF DeploymentInv
<1>6. ASSUME NEW p \in BOOLEAN, NEW w \in WrappedMints, NEW s \in SixDecimals,
             NEW holder \in Holders, NEW size \in {"Absent", "Short"},
             config = [layout |-> "Legacy", mint |-> w, vault |-> s, paused |-> p],
             minted = {w},
             wrapped = [x \in WrappedMints |-> [h \in Holders |->
                          IF x = w /\ h = holder THEN 1 ELSE 0]],
             vault = [t \in SplMints |-> IF t = s THEN 1 ELSE 0],
             lists = [m \in AllMints |->
                        IF m = w THEN [NoList EXCEPT !.size = size] ELSE NoList]
      PROVE  DeploymentInv
  <2>1. [NoList EXCEPT !.size = size] \in ListType
        /\ [NoList EXCEPT !.size = size].size # "Full"
    BY DEF NoList, ListType
  <2>2. /\ lists \in [AllMints -> ListType]
        /\ \A m \in AllMints : lists[m].size # "Full"
        /\ \A m \in AllMints : m # w => lists[m].size = "Absent"
    BY <1>4, <1>6, <2>1
  <2>3. wrapped \in [WrappedMints -> [Holders -> Nat]] /\ vault \in [SplMints -> Nat]
    BY <1>6
  <2>4. config \in [layout : Layouts, mint : WrappedMints \cup {None},
                   vault : SplMints \cup {None}, paused : BOOLEAN]
    BY <1>6, ConstantFacts
  <2>5. TypeOK
    BY <1>1, <1>2, <1>3, <1>6, <2>2, <2>3, <2>4, TypesByVariable
  <2>6. OneMint /\ ListsNameTheVault /\ Blank
    BY <1>6, <2>2, ConstantFacts DEF OneMint, ListsNameTheVault, Blank
  <2>7. NothingBeforeTheMint
    BY <1>6, <2>2, ConstantFacts DEF NothingBeforeTheMint
  <2> QED BY <1>3, <2>4, <2>5, <2>6, <2>7 DEF DeploymentInv
<1>7. CASE InitNew
  BY <1>5, <1>7 DEF InitNew, NoConfig
<1>8. CASE InitOld
  <2>1. ASSUME NEW p \in BOOLEAN,
               config = [NoConfig EXCEPT !.layout = "Legacy", !.paused = p]
        PROVE  config = [layout |-> "Legacy", mint |-> None, vault |-> None, paused |-> p]
    BY <2>1 DEF NoConfig
  <2>2. PICK p \in BOOLEAN :
          \/ /\ config = [NoConfig EXCEPT !.layout = "Legacy", !.paused = p]
             /\ minted = {}
             /\ wrapped = [w \in WrappedMints |-> [h \in Holders |-> 0]]
             /\ vault = [s \in SplMints |-> 0]
             /\ lists = [m \in AllMints |-> NoList]
          \/ \E w \in WrappedMints, s \in SixDecimals, holder \in Holders :
             /\ config = [layout |-> "Legacy", mint |-> w, vault |-> s, paused |-> p]
             /\ minted = {w}
             /\ wrapped = [x \in WrappedMints |-> [h \in Holders |->
                             IF x = w /\ h = holder THEN 1 ELSE 0]]
             /\ vault = [t \in SplMints |-> IF t = s THEN 1 ELSE 0]
             /\ \E size \in {"Absent", "Short"} :
                  lists = [m \in AllMints |->
                             IF m = w THEN [NoList EXCEPT !.size = size] ELSE NoList]
    BY <1>8 DEF InitOld
  <2>3. CASE config = [NoConfig EXCEPT !.layout = "Legacy", !.paused = p]
    BY <1>5, <2>1, <2>2, <2>3, ConstantFacts
  <2>4. CASE config # [NoConfig EXCEPT !.layout = "Legacy", !.paused = p]
    BY <1>6, <2>2, <2>4
  <2> QED BY <2>3, <2>4
<1> QED BY <1>7, <1>8 DEF Init

\* Bringing the configuration to the current layout keeps every setting in it.
LEMMA UpgradeKeepsSettings ==
  ASSUME TypeOK
  PROVE  /\ InCurrentLayout(config) \in [layout : Layouts, mint : WrappedMints \cup {None},
                                         vault : SplMints \cup {None}, paused : BOOLEAN]
         /\ InCurrentLayout(config).layout = "Current"
         /\ InCurrentLayout(config).mint = config.mint
         /\ InCurrentLayout(config).vault = config.vault
         /\ InCurrentLayout(config).paused = config.paused
  BY DEF TypeOK, InCurrentLayout

\* An instruction that rewrites ProtocolConfig and leaves the mint in place.
LEMMA ConfigSteps ==
  ASSUME DeploymentInv,
         InitConfig \/ UpdateConfig \/ PauseProtocol \/ UnpauseProtocol
  PROVE  DeploymentInv'
<1> USE DEF DeploymentInv
<1>1. CASE InitConfig
  <2>1. config' = [layout |-> "Current", mint |-> None, vault |-> None, paused |-> FALSE]
    BY <1>1 DEF InitConfig, NoConfig
  <2>2. config = NoConfig
    BY <1>1 DEF InitConfig, Blank
  <2>3. UNCHANGED <<keeper, tokens, lists, minted, wrapped, vault, told>>
    BY <1>1 DEF InitConfig
  <2>4. TypeOK' /\ AsTheAdminLeftIt'
    BY <2>1, <2>2, <2>3 DEF TypeOK, AsTheAdminLeftIt, NoConfig
  <2> QED
    BY <2>1, <2>2, <2>3, <2>4 DEF Blank, OneMint, NothingBeforeTheMint,
       ListsNameTheVault, NoConfig
<1>2. CASE UpdateConfig
  <2>1. config' = InCurrentLayout(config)
        /\ UNCHANGED <<keeper, tokens, lists, minted, wrapped, vault, told>>
    BY <1>2 DEF UpdateConfig
  <2>2. TypeOK' /\ AsTheAdminLeftIt'
    BY <2>1, UpgradeKeepsSettings DEF TypeOK, AsTheAdminLeftIt
  <2> QED
    BY <2>1, <2>2, UpgradeKeepsSettings DEF Blank, OneMint, NothingBeforeTheMint,
       ListsNameTheVault
<1>3. ASSUME NEW to \in BOOLEAN, SetPaused(to) PROVE DeploymentInv'
  <2>1. config' = [InCurrentLayout(config) EXCEPT !.paused = to]
        /\ told' = [told EXCEPT !.paused = to]
        /\ UNCHANGED <<keeper, tokens, lists, minted, wrapped, vault>>
    BY <1>3 DEF SetPaused
  <2>2. /\ config' \in [layout : Layouts, mint : WrappedMints \cup {None},
                        vault : SplMints \cup {None}, paused : BOOLEAN]
        /\ config'.layout = "Current" /\ config'.paused = to
        /\ config'.mint = config.mint /\ config'.vault = config.vault
    BY <2>1, UpgradeKeepsSettings
  <2>3. TypeOK' /\ AsTheAdminLeftIt'
    BY <2>1, <2>2 DEF TypeOK, AsTheAdminLeftIt
  <2> QED
    BY <2>1, <2>2, <2>3 DEF Blank, OneMint, NothingBeforeTheMint, ListsNameTheVault
<1> QED BY <1>1, <1>2, <1>3 DEF PauseProtocol, UnpauseProtocol

\* The wrapped mint is created once, before any list or token of it.
LEMMA MintStep ==
  ASSUME DeploymentInv, NEW w \in WrappedMints, NEW spl \in SplMints,
         InitWrappedMint(w, spl)
  PROVE  DeploymentInv'
<1> USE DEF DeploymentInv
<1>1. /\ config.mint = None /\ w \in WrappedMints \ minted
      /\ minted' = minted \cup {w}
      /\ config' = [InCurrentLayout(config) EXCEPT !.mint = w, !.vault = spl]
      /\ told' = [told EXCEPT !.mint = w]
      /\ UNCHANGED <<keeper, tokens, lists, wrapped, vault>>
  BY DEF InitWrappedMint, MayInitMint
<1>2. minted = {}
  BY <1>1, ConstantFacts DEF OneMint, TypeOK
<1>3. /\ config' \in [layout : Layouts, mint : WrappedMints \cup {None},
                      vault : SplMints \cup {None}, paused : BOOLEAN]
      /\ config'.layout = "Current" /\ config'.mint = w
      /\ config'.paused = config.paused
  BY <1>1, UpgradeKeepsSettings
<1>4. TypeOK' /\ AsTheAdminLeftIt'
  BY <1>1, <1>3 DEF TypeOK, AsTheAdminLeftIt
<1>5. OneMint' /\ Blank'
  BY <1>1, <1>2, <1>3 DEF OneMint, Blank
<1>6. NothingBeforeTheMint' /\ ListsNameTheVault'
  BY <1>1, <1>2 DEF NothingBeforeTheMint, ListsNameTheVault
<1> QED BY <1>4, <1>5, <1>6

\* KeeperConfig and TokenConfig hang on nothing else.
LEMMA KeeperAndTokenSteps ==
  ASSUME DeploymentInv,
         \/ \E k \in Keepers : InitKeeperConfig(k)
         \/ \E k \in Keepers \cup {None} : UpdateKeeperConfig(k)
         \/ \E m \in AllMints, rail \in Rails : InitTokenConfig(m, rail)
         \/ \E m \in AllMints, enabled \in BOOLEAN : UpdateTokenConfig(m, enabled)
  PROVE  DeploymentInv'
<1> USE DEF DeploymentInv
<1>1. UNCHANGED <<config, lists, minted, wrapped, vault>>
  BY DEF InitKeeperConfig, UpdateKeeperConfig, InitTokenConfig, UpdateTokenConfig
<1>2. Blank' /\ OneMint' /\ NothingBeforeTheMint' /\ ListsNameTheVault'
  BY <1>1 DEF Blank, OneMint, NothingBeforeTheMint, ListsNameTheVault
<1>3. TypeOK' /\ AsTheAdminLeftIt'
  <2>1. CASE \E k \in Keepers : InitKeeperConfig(k)
    BY <1>1, <2>1 DEF InitKeeperConfig, TypeOK, AsTheAdminLeftIt
  <2>2. CASE \E k \in Keepers \cup {None} : UpdateKeeperConfig(k)
    <3>1. PICK k \in Keepers \cup {None} : UpdateKeeperConfig(k) BY <2>2
    <3>2. CASE k = None
      BY <1>1, <3>1, <3>2 DEF UpdateKeeperConfig, TypeOK, AsTheAdminLeftIt
    <3>3. CASE k # None
      BY <1>1, <3>1, <3>3 DEF UpdateKeeperConfig, TypeOK, AsTheAdminLeftIt
    <3> QED BY <3>2, <3>3
  <2>3. CASE \E m \in AllMints, rail \in Rails : InitTokenConfig(m, rail)
    <3>1. PICK m \in AllMints, rail \in Rails : InitTokenConfig(m, rail) BY <2>3
    <3>2. [layout |-> "Current", enabled |-> TRUE, rail |-> rail] \in TokenType
      BY DEF TokenType
    <3>3. tokens' \in [AllMints -> TokenType] /\ UNCHANGED <<keeper, told>>
      BY <3>1, <3>2, TypesByVariable DEF InitTokenConfig
    <3> QED BY <1>1, <3>3 DEF TypeOK, TokenType, AsTheAdminLeftIt
  <2>4. CASE \E m \in AllMints, enabled \in BOOLEAN : UpdateTokenConfig(m, enabled)
    <3>1. PICK m \in AllMints, enabled \in BOOLEAN : UpdateTokenConfig(m, enabled) BY <2>4
    <3>2. tokens[m] \in TokenType
      BY TypesByVariable
    <3>3. [tokens[m] EXCEPT !.enabled = enabled] \in TokenType
      BY <3>2 DEF TokenType
    <3>4. tokens' = [tokens EXCEPT ![m] = [tokens[m] EXCEPT !.enabled = enabled]]
          /\ UNCHANGED <<keeper, told>>
      BY <3>1 DEF UpdateTokenConfig
    <3>5. tokens' \in [AllMints -> TokenType]
      BY <3>3, <3>4, TypesByVariable
    <3> QED BY <1>1, <3>4, <3>5 DEF TypeOK, TokenType, AsTheAdminLeftIt
  <2> QED BY <2>1, <2>2, <2>3, <2>4
<1> QED BY <1>2, <1>3

\* A list completed for a mint that exists copies the vault of today, which for
\* the wrapped mint is the vault of ever after.
LEMMA ListSteps ==
  ASSUME DeploymentInv, NEW m \in AllMints,
         InitExtraAccountMetaList(m) \/ UpdateExtraAccountMetaList(m)
  PROVE  DeploymentInv'
<1> USE DEF DeploymentInv
<1>1. /\ lists' = [lists EXCEPT ![m] = [size |-> "Full", vault |-> config.vault]]
      /\ UNCHANGED <<config, keeper, tokens, minted, wrapped, vault, told>>
  BY DEF InitExtraAccountMetaList, UpdateExtraAccountMetaList, CompleteList
<1>2. m \in minted \cup SplMints
  BY ConstantFacts DEF InitExtraAccountMetaList, UpdateExtraAccountMetaList, ListableMint,
     Exists, NothingBeforeTheMint
<1>3. config.vault \in SplMints \cup {None}
  BY DEF TypeOK
<1>4. [size |-> "Full", vault |-> config.vault] \in ListType
  BY <1>3 DEF ListType
<1>5. /\ lists' \in [AllMints -> ListType]
      /\ lists'[m] = [size |-> "Full", vault |-> config.vault]
      /\ \A n \in AllMints : n # m => lists'[n] = lists[n]
  BY <1>1, <1>4, TypesByVariable
<1>6. TypeOK' /\ AsTheAdminLeftIt'
  BY <1>1, <1>5 DEF TypeOK, ListType, AsTheAdminLeftIt
<1>7. m \in minted => m = config.mint
  BY DEF OneMint
<1>8. NothingBeforeTheMint'
  BY <1>1, <1>2, <1>5, ConstantFacts DEF NothingBeforeTheMint
<1>9. ListsNameTheVault'
  BY <1>1, <1>5, <1>7, ConstantFacts DEF TypeOK, ListsNameTheVault
<1> QED BY <1>1, <1>6, <1>8, <1>9 DEF Blank, OneMint

\* Tokens of the one wrapped mint are all that moves.
LEMMA TokenSteps ==
  ASSUME DeploymentInv,
         \/ \E h \in Holders : Wrap(h)
         \/ \E u \in Wallets : Unwrap(u)
         \/ \E w \in WrappedMints, from, to \in Holders : Transfer(w, from, to)
  PROVE  DeploymentInv'
<1> USE DEF DeploymentInv
<1>1. UNCHANGED <<config, keeper, tokens, lists, minted, told>>
  BY DEF Wrap, Unwrap, Transfer
<1>2. /\ wrapped' \in [WrappedMints -> [Holders -> Nat]] /\ vault' \in [SplMints -> Nat]
      /\ \A w \in WrappedMints \ minted, h \in Holders : wrapped'[w][h] = 0
  <2>1. CASE \E h \in Holders : Wrap(h)
    <3>1. PICK h \in Holders : Wrap(h) BY <2>1
    <3>2. config.mint \in WrappedMints /\ config.mint \in minted /\ config.vault \in SplMints
      BY <3>1, ConstantFacts DEF Wrap, OneMint, TypeOK
    <3>3. vault' = [vault EXCEPT ![config.vault] = vault[config.vault] + 1]
          /\ wrapped' = [wrapped EXCEPT ![config.mint] =
               [wrapped[config.mint] EXCEPT ![h] = wrapped[config.mint][h] + 1]]
      BY <3>1 DEF Wrap
    <3> QED BY <3>2, <3>3 DEF TypeOK, NothingBeforeTheMint
  <2>2. CASE \E u \in Wallets : Unwrap(u)
    <3>1. PICK u \in Wallets : Unwrap(u) BY <2>2
    <3>2. /\ config.mint \in minted /\ u \in Holders
          /\ wrapped[config.mint][u] > 0 /\ vault[config.vault] > 0
          /\ wrapped' = [wrapped EXCEPT ![config.mint] =
               [wrapped[config.mint] EXCEPT ![u] = wrapped[config.mint][u] - 1]]
          /\ vault' = [vault EXCEPT ![config.vault] = vault[config.vault] - 1]
      BY <3>1, ConstantFacts DEF Unwrap, Holds
    <3>3. wrapped' \in [WrappedMints -> [Holders -> Nat]]
      BY <3>2 DEF TypeOK
    <3>4. vault' \in [SplMints -> Nat]
      <4>1. CASE config.vault \in SplMints
        BY <3>2, <4>1 DEF TypeOK
      <4>2. CASE config.vault \notin SplMints
        BY <3>2, <4>2 DEF TypeOK
      <4> QED BY <4>1, <4>2
    <3>5. \A w \in WrappedMints \ minted, h \in Holders : wrapped'[w][h] = 0
      BY <3>2 DEF TypeOK, NothingBeforeTheMint
    <3> QED BY <3>3, <3>4, <3>5
  <2>3. CASE \E w \in WrappedMints, from, to \in Holders : Transfer(w, from, to)
    <3>1. PICK w \in WrappedMints, from \in Holders, to \in Holders : Transfer(w, from, to)
      BY <2>3
    <3>2. /\ from # to /\ wrapped[w][from] > 0 /\ vault' = vault
          /\ wrapped' = [wrapped EXCEPT ![w] = [wrapped[w] EXCEPT ![from] = @ - 1, ![to] = @ + 1]]
      BY <3>1 DEF Transfer, Holds
    <3>3. w \in minted
      BY <3>2 DEF NothingBeforeTheMint
    <3>4. wrapped[w] \in [Holders -> Nat]
      BY DEF TypeOK
    <3>5. wrapped' = [wrapped EXCEPT ![w] = [wrapped[w] EXCEPT ![from] = wrapped[w][from] - 1,
                                                               ![to] = wrapped[w][to] + 1]]
      <4>1. \A f \in [Holders -> Nat] :
              [f EXCEPT ![from] = @ - 1, ![to] = @ + 1]
                = [f EXCEPT ![from] = f[from] - 1, ![to] = f[to] + 1]
        BY <3>2
      <4>2. [wrapped[w] EXCEPT ![from] = @ - 1, ![to] = @ + 1]
              = [wrapped[w] EXCEPT ![from] = wrapped[w][from] - 1, ![to] = wrapped[w][to] + 1]
        BY <3>4, <4>1
      <4>3. wrapped' = [wrapped EXCEPT ![w] =
                          [wrapped[w] EXCEPT ![from] = @ - 1, ![to] = @ + 1]]
        BY <3>2
      <4> QED BY <4>2, <4>3
    <3>6. [wrapped[w] EXCEPT ![from] = wrapped[w][from] - 1, ![to] = wrapped[w][to] + 1]
            \in [Holders -> Nat]
      BY <3>2, <3>4
    <3>7. wrapped' \in [WrappedMints -> [Holders -> Nat]]
      BY <3>5, <3>6 DEF TypeOK
    <3>8. \A x \in WrappedMints \ minted, h \in Holders : wrapped'[x][h] = 0
      BY <3>3, <3>5 DEF TypeOK, NothingBeforeTheMint
    <3> QED BY <3>2, <3>7, <3>8 DEF TypeOK
  <2> QED BY <2>1, <2>2, <2>3
<1>3. TypeOK' /\ NothingBeforeTheMint'
  BY <1>1, <1>2 DEF TypeOK, NothingBeforeTheMint
<1> QED BY <1>1, <1>3 DEF Blank, OneMint, ListsNameTheVault, AsTheAdminLeftIt

\* Every state of every deployment satisfies the invariant.
THEOREM DeploymentHolds == Spec => []DeploymentInv
<1>1. Init => DeploymentInv
  BY DeploymentStarts
<1>2. DeploymentInv /\ [Next]_vars => DeploymentInv'
  <2> SUFFICES ASSUME DeploymentInv, [Next]_vars PROVE DeploymentInv'
    OBVIOUS
  <2>1. CASE UNCHANGED vars
    BY <2>1 DEF vars, DeploymentInv, TypeOK, Blank, OneMint, NothingBeforeTheMint,
                ListsNameTheVault, AsTheAdminLeftIt
  <2>2. CASE Next
    BY <2>2, ConfigSteps, MintStep, KeeperAndTokenSteps, ListSteps, TokenSteps DEF Next
  <2> QED BY <2>1, <2>2
<1> QED BY <1>1, <1>2, PTL DEF Spec

\* Types, for every deployment.
THEOREM DeploymentTypes == Spec => []TypeOK
  BY DeploymentHolds, PTL DEF DeploymentInv

\* No list of the wrapped mint, once complete, names another vault than the
\* configuration: the hook never closes on the wrapped token for good.
THEOREM ListsAgree == Spec => []ListsNameTheVault
  BY DeploymentHolds, PTL DEF DeploymentInv

\* No layout upgrade loses the stop switch, the wrapped mint or the keeper.
THEOREM NothingLostInUpgrades == Spec => []AsTheAdminLeftIt
  BY DeploymentHolds, PTL DEF DeploymentInv

------------------------------------------------------------------------------
(* The vault covers the supply.  Every step but a wrap, an unwrap and a     *)
(* transfer leaves both alone; a transfer moves a token between two holders *)
(* and the other two change supply and vault by one.                        *)

\* The holders of a mint can be counted.
LEMMA HoldersCount ==
  ASSUME TypeOK, NEW w \in WrappedMints
  PROVE  Counts(wrapped[w], Holders) /\ Supply(w) \in Nat
<1>1. Counts(wrapped[w], Holders)
  BY DeploymentAssumption DEF TypeOK, Counts, Holders
<1> QED BY <1>1, TotalIsFinite DEF Supply

\* The one token an older release may have handed out is in its vault.
LEMMA RedeemableAtFirst == ASSUME Init PROVE AlwaysRedeemable
<1>1. DeploymentInv
  BY DeploymentStarts
<1>2. ASSUME NEW w \in WrappedMints, \A h \in Holders : wrapped[w][h] = 0
      PROVE  Supply(w) = 0
  BY <1>2, TotalOfZeroes DEF Supply
<1>3. CASE \A w \in WrappedMints, h \in Holders : wrapped[w][h] = 0
  BY <1>2, <1>3 DEF AlwaysRedeemable
<1>4. ASSUME NEW w \in WrappedMints, NEW s \in SixDecimals, NEW holder \in Holders,
             config.mint = w, config.vault = s,
             wrapped = [x \in WrappedMints |-> [h \in Holders |->
                          IF x = w /\ h = holder THEN 1 ELSE 0]],
             vault = [t \in SplMints |-> IF t = s THEN 1 ELSE 0]
      PROVE  AlwaysRedeemable
  <2>1. \A x \in WrappedMints : x # w => Supply(x) = 0
    BY <1>2, <1>4
  <2>2. Supply(w) = Total(wrapped[w], Holders \ {holder}) + wrapped[w][holder]
    BY <1>1, HoldersCount, TotalSplits DEF DeploymentInv, Supply
  <2>3. Total(wrapped[w], Holders \ {holder}) = 0
    BY <1>4, TotalOfZeroes
  <2>4. Supply(w) = 1
    BY <1>4, <2>2, <2>3
  <2> QED BY <1>4, <2>1, <2>4, ConstantFacts DEF AlwaysRedeemable
<1>5. CASE InitNew
  BY <1>3, <1>5 DEF InitNew
<1>6. CASE InitOld
  <2>1. PICK p \in BOOLEAN :
          \/ wrapped = [w \in WrappedMints |-> [h \in Holders |-> 0]]
          \/ \E w \in WrappedMints, s \in SixDecimals, holder \in Holders :
             /\ config = [layout |-> "Legacy", mint |-> w, vault |-> s, paused |-> p]
             /\ wrapped = [x \in WrappedMints |-> [h \in Holders |->
                             IF x = w /\ h = holder THEN 1 ELSE 0]]
             /\ vault = [t \in SplMints |-> IF t = s THEN 1 ELSE 0]
    BY <1>6 DEF InitOld
  <2>2. CASE wrapped = [w \in WrappedMints |-> [h \in Holders |-> 0]]
    BY <1>3, <2>2
  <2>3. CASE wrapped # [w \in WrappedMints |-> [h \in Holders |-> 0]]
    BY <1>4, <2>1, <2>3
  <2> QED BY <2>2, <2>3
<1> QED BY <1>5, <1>6 DEF Init

\* A wrap makes the token it takes the backing of.
LEMMA WrapIsBacked ==
  ASSUME DeploymentInv, DeploymentInv', AlwaysRedeemable, NEW h \in Holders, Wrap(h)
  PROVE  AlwaysRedeemable'
<1> DEFINE m == config.mint
<1>1. /\ m \in WrappedMints /\ config.vault \in SplMints
      /\ vault' = [vault EXCEPT ![config.vault] = vault[config.vault] + 1]
      /\ wrapped' = [wrapped EXCEPT ![m] = [wrapped[m] EXCEPT ![h] = wrapped[m][h] + 1]]
      /\ config' = config
  BY ConstantFacts DEF Wrap, DeploymentInv, TypeOK
<1>2. \A w \in WrappedMints : w # m => wrapped'[w] = wrapped[w]
  BY <1>1 DEF DeploymentInv, TypeOK
<1>3. /\ wrapped'[m][h] = wrapped[m][h] + 1
      /\ \A x \in Holders : x # h => wrapped'[m][x] = wrapped[m][x]
  BY <1>1 DEF DeploymentInv, TypeOK
<1>4. Counts(wrapped[m], Holders) /\ Counts(wrapped'[m], Holders)
  <2>1. Counts(wrapped[m], Holders)
    BY <1>1, HoldersCount DEF DeploymentInv
  <2>2. \A x \in Holders : wrapped'[m][x] \in Nat
    BY <1>1 DEF DeploymentInv, TypeOK
  <2> QED BY <2>1, <2>2 DEF Counts
<1>5. Total(wrapped'[m], Holders)
        = Total(wrapped[m], Holders) - wrapped[m][h] + wrapped'[m][h]
  BY <1>3, <1>4, TotalOneApart
<1>6. Total(wrapped[m], Holders) \in Nat /\ wrapped[m][h] \in Nat
  BY <1>1, HoldersCount DEF DeploymentInv, Supply, TypeOK
<1>7. Total(wrapped'[m], Holders) = Total(wrapped[m], Holders) + 1
  BY <1>3, <1>5, <1>6
<1>8. vault[config.vault] \in Nat /\ vault'[config.vault] = vault[config.vault] + 1
  BY <1>1 DEF DeploymentInv, TypeOK
<1>9. Total(wrapped[m], Holders) <= vault[config.vault]
  BY <1>1, <1>6, <1>8 DEF AlwaysRedeemable, Supply
<1> QED
  BY <1>1, <1>2, <1>6, <1>7, <1>8, <1>9 DEF AlwaysRedeemable, Supply

\* An unwrap burns the token it pays for.
LEMMA UnwrapIsPaid ==
  ASSUME DeploymentInv, DeploymentInv', AlwaysRedeemable, NEW u \in Wallets, Unwrap(u)
  PROVE  AlwaysRedeemable'
<1> DEFINE m == config.mint
<1>0. u \in Holders
  BY ConstantFacts
<1>1. /\ m \in WrappedMints
      /\ wrapped[m][u] > 0
      /\ vault' = [vault EXCEPT ![config.vault] = vault[config.vault] - 1]
      /\ wrapped' = [wrapped EXCEPT ![m] = [wrapped[m] EXCEPT ![u] = wrapped[m][u] - 1]]
      /\ config' = config
  BY ConstantFacts DEF Unwrap, Holds, DeploymentInv, TypeOK
<1>2. \A w \in WrappedMints : w # m => wrapped'[w] = wrapped[w]
  BY <1>1 DEF DeploymentInv, TypeOK
<1>3. /\ wrapped'[m][u] = wrapped[m][u] - 1
      /\ \A x \in Holders : x # u => wrapped'[m][x] = wrapped[m][x]
  BY <1>0, <1>1 DEF DeploymentInv, TypeOK
<1>4. Counts(wrapped[m], Holders) /\ Counts(wrapped'[m], Holders)
  <2>1. Counts(wrapped[m], Holders)
    BY <1>1, HoldersCount DEF DeploymentInv
  <2>2. \A x \in Holders : wrapped'[m][x] \in Nat
    BY <1>0, <1>1 DEF DeploymentInv, TypeOK
  <2> QED BY <2>1, <2>2 DEF Counts
<1>5. Total(wrapped'[m], Holders)
        = Total(wrapped[m], Holders) - wrapped[m][u] + wrapped'[m][u]
  BY <1>0, <1>3, <1>4, TotalOneApart
<1>6. /\ Total(wrapped[m], Holders) \in Nat /\ wrapped[m][u] \in Nat
      /\ wrapped[m][u] <= Total(wrapped[m], Holders)
  BY <1>0, <1>1, <1>4, HoldersCount, TotalCoversEach DEF DeploymentInv, Supply, Counts
<1>7. Total(wrapped'[m], Holders) = Total(wrapped[m], Holders) - 1
  BY <1>3, <1>5, <1>6
<1>8. /\ config.vault \in SplMints
      /\ Total(wrapped[m], Holders) <= vault[config.vault]
  BY <1>1, <1>6 DEF AlwaysRedeemable, Supply
<1>9. vault[config.vault] \in Nat /\ vault'[config.vault] = vault[config.vault] - 1
  BY <1>1, <1>8 DEF DeploymentInv, TypeOK
<1> QED
  BY <1>1, <1>2, <1>6, <1>7, <1>8, <1>9 DEF AlwaysRedeemable, Supply

\* A transfer leaves the supply as it is.
LEMMA TransferKeepsSupply ==
  ASSUME DeploymentInv, DeploymentInv',
         NEW w \in WrappedMints, NEW from \in Holders, NEW to \in Holders,
         Transfer(w, from, to)
  PROVE  \A x \in WrappedMints : Supply(x)' = Supply(x)
<1> DEFINE before == wrapped[w]
           paid   == [before EXCEPT ![from] = before[from] - 1]
           after  == [paid EXCEPT ![to] = paid[to] + 1]
<1>1. before \in [Holders -> Nat] /\ IsFiniteSet(Holders)
  BY DeploymentAssumption DEF DeploymentInv, TypeOK, Holders
<1>2. from # to /\ before[from] > 0
  BY DEF Transfer, Holds
<1>3. paid \in [Holders -> Nat] /\ after \in [Holders -> Nat]
  BY <1>1, <1>2
<1>4. wrapped' = [wrapped EXCEPT ![w] = after]
  <2>1. wrapped' = [wrapped EXCEPT ![w] = [before EXCEPT ![from] = @ - 1, ![to] = @ + 1]]
    BY DEF Transfer
  <2>2. [before EXCEPT ![from] = @ - 1, ![to] = @ + 1] = after
    BY <1>1, <1>2
  <2> QED BY <2>1, <2>2
<1>5. wrapped'[w] = after /\ \A x \in WrappedMints : x # w => wrapped'[x] = wrapped[x]
  BY <1>4 DEF DeploymentInv, TypeOK
<1>6. Counts(before, Holders) /\ Counts(paid, Holders) /\ Counts(after, Holders)
  BY <1>1, <1>3 DEF Counts
<1>7. Total(paid, Holders) = Total(before, Holders) - before[from] + paid[from]
  BY <1>1, <1>6, TotalOneApart
<1>8. Total(after, Holders) = Total(paid, Holders) - paid[to] + after[to]
  BY <1>1, <1>3, <1>6, TotalOneApart
<1>9. /\ paid[from] = before[from] - 1 /\ after[to] = paid[to] + 1
      /\ before[from] \in Nat /\ paid[to] \in Nat
  BY <1>1, <1>3
<1>10. Total(before, Holders) \in Nat /\ Total(paid, Holders) \in Nat
  BY <1>6, TotalIsFinite
<1>11. Total(after, Holders) = Total(before, Holders)
  BY <1>7, <1>8, <1>9, <1>10
<1> QED BY <1>5, <1>11 DEF Supply

\* Every wrapped token is of the configured mint, and the vault the
\* configuration names covers the supply, whatever the admin rewrites: wrap,
\* unwrap and the transfers between them never leave a token without backing.
THEOREM WrappedIsBacked == Spec => []AlwaysRedeemable
<1>1. Init => AlwaysRedeemable
  BY RedeemableAtFirst
<1>2. DeploymentInv /\ DeploymentInv' /\ AlwaysRedeemable /\ [Next]_vars => AlwaysRedeemable'
  <2> SUFFICES ASSUME DeploymentInv, DeploymentInv', AlwaysRedeemable, [Next]_vars
               PROVE  AlwaysRedeemable'
    OBVIOUS
  <2>1. ASSUME config'.mint = config.mint, config'.vault = config.vault,
               UNCHANGED <<wrapped, vault>>
        PROVE  AlwaysRedeemable'
    BY <2>1 DEF AlwaysRedeemable, Supply
  <2>2. CASE UNCHANGED vars
    BY <2>1, <2>2 DEF vars
  <2>3. CASE InitConfig
    BY <2>1, <2>3 DEF InitConfig, NoConfig, DeploymentInv, Blank
  <2>4. CASE UpdateConfig
    BY <2>1, <2>4, UpgradeKeepsSettings DEF UpdateConfig, DeploymentInv
  <2>5. ASSUME NEW to \in BOOLEAN, SetPaused(to) PROVE AlwaysRedeemable'
    <3>1. [InCurrentLayout(config) EXCEPT !.paused = to].mint = config.mint
          /\ [InCurrentLayout(config) EXCEPT !.paused = to].vault = config.vault
      BY UpgradeKeepsSettings DEF DeploymentInv
    <3> QED BY <2>1, <2>5, <3>1 DEF SetPaused
  <2>6. ASSUME NEW w \in WrappedMints, NEW s \in SplMints, InitWrappedMint(w, s)
        PROVE  AlwaysRedeemable'
    <3>1. minted = {} /\ wrapped' = wrapped
      BY <2>6, ConstantFacts
         DEF InitWrappedMint, MayInitMint, DeploymentInv, OneMint, TypeOK
    <3>2. \A x \in WrappedMints : Supply(x)' = 0
      BY <3>1, TotalOfZeroes DEF DeploymentInv, NothingBeforeTheMint, Supply
    <3> QED BY <3>2 DEF AlwaysRedeemable
  <2>7. CASE \/ \E k \in Keepers : InitKeeperConfig(k)
             \/ \E k \in Keepers \cup {None} : UpdateKeeperConfig(k)
             \/ \E m \in AllMints, rail \in Rails : InitTokenConfig(m, rail)
             \/ \E m \in AllMints, enabled \in BOOLEAN : UpdateTokenConfig(m, enabled)
             \/ \E m \in AllMints : InitExtraAccountMetaList(m) \/ UpdateExtraAccountMetaList(m)
    BY <2>1, <2>7 DEF InitKeeperConfig, UpdateKeeperConfig, InitTokenConfig,
       UpdateTokenConfig, InitExtraAccountMetaList, UpdateExtraAccountMetaList, CompleteList
  <2>8. ASSUME NEW w \in WrappedMints, NEW from \in Holders, NEW to \in Holders,
               Transfer(w, from, to)
        PROVE  AlwaysRedeemable'
    BY <2>8, TransferKeepsSupply DEF Transfer, AlwaysRedeemable
  <2> QED
    BY <2>2, <2>3, <2>4, <2>5, <2>6, <2>7, <2>8, WrapIsBacked, UnwrapIsPaid
       DEF Next, PauseProtocol, UnpauseProtocol
<1> QED BY <1>1, <1>2, DeploymentHolds, PTL DEF Spec
==============================================================================
