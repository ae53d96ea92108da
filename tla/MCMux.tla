-------------------------------- MODULE MCMux --------------------------------
EXTENDS Mux

Both == {"client", "server"}
Client == {"client"}
Server == {"server"}
=============================================================================
