\* The ledger file of a run, without failing appends.
SPECIFICATION Spec
CONSTANTS
  Id = {"a", "b", "c"}
  Replies <- MCReplies
  Stored <- MCStored
  Lane = {0, 1}
  MaxFault = 0
INVARIANT RunLedgerIsAChain
CHECK_DEADLOCK FALSE
