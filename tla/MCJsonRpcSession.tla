------------------------- MODULE MCJsonRpcSession --------------------------
EXTENDS JsonRpcSession
=============================================================================
