----------------------------- MODULE MCRequests -----------------------------
EXTENDS Requests, TLC

AllKinds == Routes
=============================================================================
