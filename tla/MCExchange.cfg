\* One book, three references, pools that hold them all; an order of three shares can
\* be filled in part twice and still rest.
SPECIFICATION ExchangeSpec
CONSTANTS
  Locates = {1}
  BadLocate = 9
  Refs = {r1, r2, r3}
  Clients = {strategy}
  Prices = {1, 2}
  MaxPrice = 3
  Quantities = {1, 3}
  PoolSize = 3
  NoOrder = NoOrder
  Word = 16
SYMMETRY ExchangeSymmetry
INVARIANTS MirrorsMarket RegistryExact TradesAreRouted FillsTold
