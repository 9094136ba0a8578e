\* Every text of up to six characters, and small files with and without a
\* header; two failing transactions, two edits by others.
SPECIFICATION FairSpec
CONSTANTS
  ann = ann
  e1 = e1
  e2 = e2
  upper = upper
  NameWord = NameWord
  EmailWord = EmailWord
  Space = Space
  Addresses = {e1, e2, upper}
  Lower <- Lowercase
  Texts <- Uploads
  Present <- Registered
  MaxFaults = 2
  MaxEdits = 2
INVARIANTS
  ParsedAsWritten
  EveryRowAnswered
  ReportedByNumber
  NobodyForgotten
PROPERTY
  Answered
\* The request ends with its answer.
CHECK_DEADLOCK FALSE
