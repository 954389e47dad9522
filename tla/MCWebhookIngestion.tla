------------------------- MODULE MCWebhookIngestion -------------------------
(* Instances of WebhookIngestion for TLC. *)
EXTENDS WebhookIngestion

CONSTANTS i1, i2, h1

IngestInput(type, reason, amount, merchant) ==
    [signed |-> TRUE, type |-> type, reason |-> reason, amount |-> amount, merchant |-> merchant,
     currency |-> "INR", segment |-> "subscription"]

\* An eligible failure and a payment.
Ingested ==
    {IngestInput("PAYMENT_FAILED", "INSUFFICIENT_FUNDS", 5000, "known"),
     IngestInput("PAYMENT_RECOVERED", "none", 5000, "known")}

\* A capture and a failure for the first case.
Webhooks == {[signed |-> TRUE, type |-> t, case |-> 1] : t \in {"captured", "failed"}}
=============================================================================
