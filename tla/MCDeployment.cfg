SPECIFICATION Spec
CONSTANTS
  mint1 = mint1
  mint2 = mint2
  usdc = usdc
  other = other
  alice = alice
  escrow = escrow
  keeper1 = keeper1
  keeper2 = keeper2
  None = None
  WrappedMints = {mint1, mint2}
  SplMints = {usdc, other}
  SixDecimals = {usdc}
  Wallets = {alice}
  Escrows = {escrow}
  Keepers = {keeper1, keeper2}
  MaxSupply = 3
SYMMETRY Alike
INVARIANT TypeOK
INVARIANT AlwaysRedeemable
INVARIANT ListsNameTheVault
INVARIANT AsTheAdminLeftIt
