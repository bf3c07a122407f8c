------------------------------ MODULE MCBridge ------------------------------
(***************************************************************************)
(* An instance of RedditBridge for TLC.                                    *)
(***************************************************************************)
EXTENDS RedditBridge

CONSTANTS a, b
=============================================================================
