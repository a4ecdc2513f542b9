---------------------------- MODULE MCCdpBrowser ----------------------------
(***************************************************************************)
(* Instance of CdpBrowser for TLC.                                         *)
(***************************************************************************)
EXTENDS CdpBrowser, TLC

=============================================================================
