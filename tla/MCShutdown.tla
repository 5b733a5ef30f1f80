----------------------------- MODULE MCShutdown ------------------------------
(* Checks the request path inside the server that starts and stops around    *)
(* it, with the constants of MCGateway.                                      *)
EXTENDS MCGateway, Shutdown
=============================================================================
