SPECIFICATION FairSpec
CONSTANTS
  i1 = i1
  i2 = i2
  i3 = i3
  phone = phone
  tablet = tablet
  Prompts = {i1, i2, i3}
  Addresses = {phone, tablet}
  AddressOf <- MCAddressOf
  NoPrompt = NoPrompt
INVARIANT NewOneWins
CHECK_DEADLOCK FALSE
