\* Another event appended between reading the status and signing the receipt.
SPECIFICATION Spec
CONSTANTS
  Process = {p1, p2}
  MaxAttempts = 2
  Nobody = Nobody
  NoReceipt = NoReceipt
PROPERTY
  ReceiptFollowsDecision
