----------------------------- MODULE Deployment -----------------------------
(***************************************************************************)
(* One deployment of the two programs: the accounts its admin sets up and  *)
(* the wrapped token its users hold.  ProtocolConfig names the wrapped     *)
(* mint and the vault that backs it; KeeperConfig names the keeper; each   *)
(* mint has a TokenConfig and, for the transfer hook, the list of accounts *)
(* Token-2022 passes along.  The main program reads both layouts of        *)
(* ProtocolConfig and upgrades it as it goes; the hook program reads only  *)
(* the current one, and a list once complete is never rewritten.           *)
(*                                                                         *)
(* Simplifications.  Every instruction but wrap, unwrap and a transfer     *)
(* asks for the admin's signature, given here.  The cluster, the endpoint, *)
(* the oracle, the admin and the keeper's mode are left out.  A transfer   *)
(* out of an account the program owns needs, besides what is asked here,   *)
(* an approval or a stream's terms (MandateBilling, AgentMandate,          *)
(* StreamMandate).  A stop of the protocol is only recorded here: they     *)
(* read it.  SPL tokens come from anywhere, up to a bound.                 *)
(***************************************************************************)
EXTENDS Integers, FiniteSets, Totals

CONSTANTS
  WrappedMints,       \* keys a wrapped mint may be created at
  SplMints,           \* mints of the SPL token program
  SixDecimals,        \* the ones with as many decimals as USDC
  Wallets,            \* accounts whose owner signs
  Escrows,            \* accounts of mandates and streams
  Keepers,            \* keeper authorities
  None,               \* Pubkey::default()
  MaxSupply           \* bound: wrapped tokens

ASSUME DeploymentAssumption ==
  /\ SixDecimals \subseteq SplMints
  /\ None \notin WrappedMints \cup SplMints \cup Keepers
  /\ WrappedMints \cap SplMints = {}
  /\ Wallets \cap Escrows = {}
  /\ IsFiniteSet(Wallets \cup Escrows)
  /\ MaxSupply \in Nat

AllMints == WrappedMints \cup SplMints
Holders  == Wallets \cup Escrows
Rails    == {"TransferHook", "TokenDelegate"}

VARIABLES
  config,        \* ProtocolConfig
  keeper,        \* KeeperConfig
  tokens,        \* TokenConfig by mint
  lists,         \* the hook's ExtraAccountMetaList by mint
  minted,        \* wrapped mints that exist
  wrapped,       \* wrapped tokens by mint and holder
  vault,         \* SPL tokens in the vault of each SPL mint
  told           \* history: what the admin last asked for

vars == <<config, keeper, tokens, lists, minted, wrapped, vault, told>>

NoConfig  == [layout |-> "Absent", mint |-> None, vault |-> None, paused |-> FALSE]
NoKeeper  == [layout |-> "Absent", authority |-> None]
NoToken   == [layout |-> "Absent", enabled |-> FALSE, rail |-> "TransferHook"]
NoList    == [size |-> "Absent", vault |-> None]
Exists(m) == m \in minted \cup SplMints
------------------------------------------------------------------------------
(* ProtocolConfig. *)

\* into_current and upgrade_protocol_config.
InCurrentLayoutUnpaused(c) == [c EXCEPT !.layout = "Current", !.paused = FALSE]
InCurrentLayout(c) == [c EXCEPT !.layout = "Current"]

InitConfig ==
  /\ config.layout = "Absent"
  /\ config' = [NoConfig EXCEPT !.layout = "Current"]
  /\ UNCHANGED <<keeper, tokens, lists, minted, wrapped, vault, told>>

\* Only the cluster changes.
UpdateConfig ==
  /\ config.layout # "Absent"
  /\ config' = InCurrentLayout(config)
  /\ UNCHANGED <<keeper, tokens, lists, minted, wrapped, vault, told>>

SetPaused(to) ==
  /\ config.layout # "Absent"
  /\ config' = [InCurrentLayout(config) EXCEPT !.paused = to]
  /\ told' = [told EXCEPT !.paused = to]
  /\ UNCHANGED <<keeper, tokens, lists, minted, wrapped, vault>>

PauseProtocol   == SetPaused(TRUE)
UnpauseProtocol == SetPaused(FALSE)

\* The check that there is no wrapped mint yet.
MayInitAgain == TRUE
MayInitMint  == config.mint = None

\* The mint is a new account; the vault is the token account of the mint
\* authority for any SPL mint the admin names, new or not.
InitWrappedMint(w, spl) ==
  /\ config.layout # "Absent"
  /\ MayInitMint
  /\ w \in WrappedMints \ minted
  /\ minted' = minted \cup {w}
  /\ config' = [InCurrentLayout(config) EXCEPT !.mint = w, !.vault = spl]
  /\ told' = [told EXCEPT !.mint = w]
  /\ UNCHANGED <<keeper, tokens, lists, wrapped, vault>>
------------------------------------------------------------------------------
(* KeeperConfig and TokenConfig. *)

InitKeeperConfig(k) ==
  /\ config.layout # "Absent"
  /\ keeper.layout = "Absent"
  /\ keeper' = [layout |-> "Current", authority |-> k]
  /\ told' = [told EXCEPT !.keeper = k]
  /\ UNCHANGED <<config, tokens, lists, minted, wrapped, vault>>

\* k is None where the caller leaves the authority as it is.
UpdateKeeperConfig(k) ==
  /\ config.layout # "Absent"
  /\ keeper.layout # "Absent"
  /\ keeper' = [layout |-> "Current", authority |-> IF k = None THEN keeper.authority ELSE k]
  /\ told' = IF k = None THEN told ELSE [told EXCEPT !.keeper = k]
  /\ UNCHANGED <<config, tokens, lists, minted, wrapped, vault>>

InitTokenConfig(m, rail) ==
  /\ config.layout # "Absent"
  /\ Exists(m)
  /\ tokens[m].layout = "Absent"
  /\ tokens' = [tokens EXCEPT ![m] = [layout |-> "Current", enabled |-> TRUE, rail |-> rail]]
  /\ UNCHANGED <<config, keeper, lists, minted, wrapped, vault, told>>

UpdateTokenConfig(m, enabled) ==
  /\ config.layout # "Absent"
  /\ tokens[m].layout = "Current"
  /\ tokens' = [tokens EXCEPT ![m].enabled = enabled]
  /\ UNCHANGED <<config, keeper, lists, minted, wrapped, vault, told>>
------------------------------------------------------------------------------
(* The transfer hook's program. *)

\* Its own load_protocol_config: the current layout or nothing.
HookLoads == config.layout = "Current"

AnyMint(m)    == TRUE
ListableMint(m) == Exists(m)

\* The list keeps the vault that ProtocolConfig names now.
CompleteList(m) ==
  /\ lists' = [lists EXCEPT ![m] = [size |-> "Full", vault |-> config.vault]]
  /\ UNCHANGED <<config, keeper, tokens, minted, wrapped, vault, told>>

InitExtraAccountMetaList(m) ==
  /\ HookLoads
  /\ ListableMint(m)
  /\ lists[m].size = "Absent"
  /\ CompleteList(m)

\* For the shorter lists of an older release, once.
UpdateExtraAccountMetaList(m) ==
  /\ HookLoads
  /\ lists[m].size = "Short"
  /\ CompleteList(m)

\* What the hook asks of every transfer of a mint.
HookAccepts(m) ==
  /\ HookLoads
  /\ lists[m].size = "Full"
  /\ tokens[m].layout = "Current" /\ tokens[m].enabled
  /\ tokens[m].rail = "TransferHook"
  /\ m = config.mint => lists[m].vault = config.vault
------------------------------------------------------------------------------
(* The wrapped token, in whole tokens. *)

Supply(w) == Total(wrapped[w], Holders)

\* Either layout will do.  The transfer of the deposit checks its decimals.
Wrap(h) ==
  /\ config.layout # "Absent"
  /\ config.mint # None
  /\ config.vault \in SixDecimals
  /\ Supply(config.mint) < MaxSupply                        \* bound
  /\ vault' = [vault EXCEPT ![config.vault] = @ + 1]
  /\ wrapped' = [wrapped EXCEPT ![config.mint][h] = @ + 1]
  /\ UNCHANGED <<config, keeper, tokens, lists, minted, told>>

\* The burn and the transfer fail without the tokens.
SomebodyHolds(w, h) == Supply(w) > 0
Holds(w, h) == wrapped[w][h] > 0

Unwrap(u) ==
  /\ config.layout # "Absent"
  /\ config.mint \in minted
  /\ Holds(config.mint, u)
  /\ vault[config.vault] > 0
  /\ wrapped' = [wrapped EXCEPT ![config.mint][u] = @ - 1]
  /\ vault' = [vault EXCEPT ![config.vault] = @ - 1]
  /\ UNCHANGED <<config, keeper, tokens, lists, minted, told>>

Transfer(w, from, to) ==
  /\ from # to
  /\ Holds(w, from)
  /\ HookAccepts(w)
  /\ wrapped' = [wrapped EXCEPT ![w] = [wrapped[w] EXCEPT ![from] = @ - 1, ![to] = @ + 1]]
  /\ UNCHANGED <<config, keeper, tokens, lists, minted, vault, told>>
------------------------------------------------------------------------------
(* A new deployment, or one of an older release: no TokenConfig yet, short  *)
(* lists, configurations in the older layout, perhaps stopped, perhaps with *)
(* a wrapped mint that somebody holds a token of.                           *)

InitNew ==
  /\ config = NoConfig
  /\ keeper = NoKeeper
  /\ minted = {}
  /\ wrapped = [w \in WrappedMints |-> [h \in Holders |-> 0]]
  /\ vault = [s \in SplMints |-> 0]
  /\ lists = [m \in AllMints |-> NoList]

InitOld ==
  /\ \E p \in BOOLEAN :
       \/ /\ config = [NoConfig EXCEPT !.layout = "Legacy", !.paused = p]
          /\ minted = {}
          /\ wrapped = [w \in WrappedMints |-> [h \in Holders |-> 0]]
          /\ vault = [s \in SplMints |-> 0]
          /\ lists = [m \in AllMints |-> NoList]
       \/ \E w \in WrappedMints, s \in SixDecimals, holder \in Holders :
          /\ config = [layout |-> "Legacy", mint |-> w, vault |-> s, paused |-> p]
          /\ minted = {w}
          /\ wrapped = [x \in WrappedMints |-> [h \in Holders |->
                          IF x = w /\ h = holder THEN 1 ELSE 0]]
          /\ vault = [t \in SplMints |-> IF t = s THEN 1 ELSE 0]
          /\ \E size \in {"Absent", "Short"} :
               lists = [m \in AllMints |->
                          IF m = w THEN [NoList EXCEPT !.size = size] ELSE NoList]
  /\ \/ keeper = NoKeeper
     \/ \E k \in Keepers : keeper = [layout |-> "Legacy", authority |-> k]

Init ==
  /\ InitNew \/ InitOld
  /\ tokens = [m \in AllMints |-> NoToken]
  /\ told = [paused |-> config.paused, mint |-> config.mint, keeper |-> keeper.authority]

Next ==
  \/ InitConfig \/ UpdateConfig \/ PauseProtocol \/ UnpauseProtocol
  \/ \E w \in WrappedMints, s \in SplMints : InitWrappedMint(w, s)
  \/ \E k \in Keepers : InitKeeperConfig(k)
  \/ \E k \in Keepers \cup {None} : UpdateKeeperConfig(k)
  \/ \E m \in AllMints :
       \/ \E rail \in Rails : InitTokenConfig(m, rail)
       \/ \E enabled \in BOOLEAN : UpdateTokenConfig(m, enabled)
       \/ InitExtraAccountMetaList(m) \/ UpdateExtraAccountMetaList(m)
  \/ \E h \in Holders : Wrap(h)
  \/ \E u \in Wallets : Unwrap(u)
  \/ \E w \in WrappedMints, from, to \in Holders : Transfer(w, from, to)

Spec == Init /\ [][Next]_vars
------------------------------------------------------------------------------
(* Properties. *)

Layouts == {"Absent", "Legacy", "Current"}

\* Types; nobody holds less than nothing, and no vault either.
TypeOK ==
  /\ config \in [layout : Layouts, mint : WrappedMints \cup {None},
                 vault : SplMints \cup {None}, paused : BOOLEAN]
  /\ keeper \in [layout : Layouts, authority : Keepers \cup {None}]
  /\ tokens \in [AllMints -> [layout : {"Absent", "Current"}, enabled : BOOLEAN, rail : Rails]]
  /\ lists \in [AllMints -> [size : {"Absent", "Short", "Full"}, vault : SplMints \cup {None}]]
  /\ minted \subseteq WrappedMints
  /\ wrapped \in [WrappedMints -> [Holders -> Nat]]
  /\ vault \in [SplMints -> Nat]
  /\ told \in [paused : BOOLEAN, mint : WrappedMints \cup {None}, keeper : Keepers \cup {None}]

\* wrap takes into one vault and unwrap pays out of it, both named by a
\* configuration that six instructions rewrite: every wrapped token there is
\* is one of the configured mint, and the vault named today covers it.
AlwaysRedeemable ==
  \A w \in WrappedMints :
    Supply(w) > 0 => /\ w = config.mint
                     /\ config.vault \in SplMints
                     /\ Supply(w) <= vault[config.vault]

\* init and update_extra_account_meta_list copy the vault, each once: a list
\* copied too early would close the hook to the wrapped token for good.  No
\* list of the wrapped mint names another vault than the configuration.
ListsNameTheVault ==
  \A m \in minted :
    lists[m].size = "Full" => m = config.mint /\ lists[m].vault = config.vault

\* A layout upgrade rides along with whichever instruction comes first: the
\* stop switch, the wrapped mint and the keeper are still as the admin last set
\* them, in whichever layout.
AsTheAdminLeftIt ==
  /\ config.paused = told.paused
  /\ config.mint = told.mint
  /\ keeper.authority = told.keeper
==============================================================================
