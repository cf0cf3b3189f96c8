SPECIFICATION Spec
CONSTANTS
  None = None
  q1 = q1
  q2 = q2
  q3 = q3
  Items = {q1, q2, q3}
  Fields = {"Name", "Magnitude"}
  Value <- MCValue
  HasNeutralSort = FALSE
  Years = {"1998", "1999"}
  Features <- MCFeatures
  PageFields = {"Name", "Magnitude"}
  MaxQueries = 2
  MaxRows = 3
INVARIANTS
  TypeOK
  SelectionIsShownAndTold
  PopupIsOfTheSelectedQuake
  SortIsShown
