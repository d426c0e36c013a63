-------------------------------- MODULE MCStore --------------------------------
(***************************************************************************)
(* A store of two slots: two servers, one of them pairing three times.     *)
(***************************************************************************)
EXTENDS RecordStore

MCPsks == {<<"a", 1>>, <<"a", 2>>, <<"a", 3>>, <<"b", 1>>}
MCLeft == {<<"a", 1>>, <<"a", 2>>}
MCStoreSpec == StoreSpec /\ StoreFairness
=============================================================================
