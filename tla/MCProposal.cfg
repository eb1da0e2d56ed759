SPECIFICATION Spec
CONSTANTS
  Coin <- MCCoin
  OutputWeight <- MCOutputWeight
  Originals <- MCOriginals
  Replacements <- MCReplacements
  OtherProposals <- MCOtherProposals
  Overhead = 1
  BareWeight = 1
  Scale = 2
  Word = 1024
  Payee = "r1"
  MixedWeight = 2
  OwnScripts = {"r1", "r2", "r3", "r4"}
  ReceiverCoins = {"x", "y"}
  Rates = {0, 2}
  BroadcastMin = 1
  MaxFees = {1, 4}
  Signals = {"rbf", "max"}
  Headers = {"h", "other"}
  MaxContributions = 1
  None = None
INVARIANTS
  SenderOutputsKept
  SenderInputsKept
  ContributionPaysInputs
  OfferCovered
  TermsAccepted
  ReceiverFeeBounded
CHECK_DEADLOCK FALSE
