------------------------ MODULE MCObservationArchive ------------------------
(***************************************************************************)
(* A small instance of ObservationArchive for TLC: two backfill pages of   *)
(* different hours, and an envelope of a version this code does not know,  *)
(* which has the identity of the second page and another payload.          *)
(***************************************************************************)
EXTENDS ObservationArchive

Observed(version, id, text) ==
    [version |-> version, id |-> id, uuidVersion |-> 7, kind |-> "http_backfill",
     observedAt |-> id, provenance |-> TRUE,
     payload |-> [text |-> text, spelling |-> "received"]]

MCEnvelopes == {Observed("v1", 1, 1), Observed("v1", 2, 1), Observed("v2", 2, 2)}
=============================================================================
