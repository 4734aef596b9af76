----------------------------- MODULE MCModelGateway -----------------------------
EXTENDS ModelGateway, TLC

CONSTANTS helper, turn, request

\* A turn in a request, and in the turn that of an agent it calls: all have a budget.
Nested == helper :> turn @@ turn :> request @@ request :> request
Budgets == helper :> 1 @@ turn :> 1 @@ request :> 2
=============================================================================
