---------------------------- MODULE MCReceivePath -----------------------------
(***************************************************************************)
(* Small instances of ReceivePath.  recv() returns up to 100 bytes, so that *)
(* it can return less than a header and more than two PDUs; the buffer has *)
(* room for one PDU and one such chunk.                                    *)
(***************************************************************************)
EXTENDS ReceivePath

MCSizes == {48, 52}

\* An initiator that waits for each answer, and one that pipelines.
MCDepths == {1, 4}

===============================================================================
