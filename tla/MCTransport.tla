---------------------------- MODULE MCTransport ----------------------------
(* XloaderTransport with the bounds of the .cfg files.                      *)
EXTENDS XloaderTransport
=============================================================================
