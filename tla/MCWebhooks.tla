----------------------------- MODULE MCWebhooks -----------------------------
EXTENDS Webhooks

CONSTANTS e1, e2, h1

MCDeliveries == Events \X Hooks
MCEventful == {e1} \X Hooks
=============================================================================
