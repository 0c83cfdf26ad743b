\* Any amount, any option, any wallet.
SPECIFICATION Spec
CONSTANTS
  Accounts = {a1, a2}
  Keys = {k1, k2}
  TotalKey = TotalKey
  Amounts <- SignedAmounts
  MaxCoins = 2
  MaxLooped = 1
INVARIANTS
  TotalIsSum
  CoinsConserved
  HistoryExplainsWallet
  NoOverdraft
SYMMETRY Symmetry
