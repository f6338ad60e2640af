SPECIFICATION MCSpec
CONSTANTS
  i1 = i1
  i2 = i2
  i3 = i3
  phone = phone
  tablet = tablet
  c1 = c1
  c2 = c2
  Prompts = {i1, i2, i3}
  Addresses = {phone, tablet}
  AddressOf <- MCAddressOf
  NoPrompt = NoPrompt
  Callers = {c1, c2}
INVARIANTS BtTypeOK MapInStep AcceptedByClient EventIsFresh
PROPERTIES AllEnd
CHECK_DEADLOCK FALSE
