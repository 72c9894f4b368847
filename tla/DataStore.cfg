SPECIFICATION Spec
CONSTANTS
  Name = {"Inp"}
  Child = {"key", "[7]"}
  Elem <- MCElem
  ChildOf <- MCChildOf
  Unparsable = "unparsable"
  Value <- MCValue
  NoAtom = ""
  MaxDepth = 2
  MaxWrites = 3
INVARIANT TypeOK
INVARIANT AnswersFollowWrites
