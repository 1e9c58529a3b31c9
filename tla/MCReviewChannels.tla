--------------------------- MODULE MCReviewChannels ---------------------------
(***************************************************************************)
(* Two replicas behind one Redis, as the deployment guide allows.          *)
(***************************************************************************)
EXTENDS ReviewChannels
=============================================================================
