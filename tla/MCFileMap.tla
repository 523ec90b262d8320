----------------------------- MODULE MCFileMap ------------------------------
(* Instances of FileMap for TLC: clusters of three two-byte sectors, files *)
(* of one byte to four clusters, on every chain of five clusters.          *)
EXTENDS FileMap

MCCluster == 2 .. 6
MCFileSize == 1 .. 24
=============================================================================
