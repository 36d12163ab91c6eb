\* Every name and payload of up to two of ten characters.  One of them is a letter;
\* "n" and "u" mean something after a backslash.
SPECIFICATION Spec
CONSTANTS
  Letters = {"a"}
  MaxLength = 2
INVARIANTS
  PacketArrives
  PlainTransactionArrives
  LineReadsBack
