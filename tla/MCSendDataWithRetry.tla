------------------------ MODULE MCSendDataWithRetry ------------------------
(* One call with the constants the leader uses for workers and reputers:  *)
(* five retries and random delays of 0 to 2 seconds.                       *)
EXTENDS SendDataWithRetry
=============================================================================
