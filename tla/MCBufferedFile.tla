--------------------------- MODULE MCBufferedFile ---------------------------
(***************************************************************************)
(* Small instances of BufferedFile.  The bytes of the file are distinct, so *)
(* that a byte from the wrong place, or the zero of an unused cell, shows. *)
(***************************************************************************)
EXTENDS BufferedFile

MCFile == <<1, 2, 3, 4, 5, 6, 7>>

\* A ring twice, less than twice and more than twice as long as nRewind, and
\* one without any rewind.
MCConfigs == {<<4, 2>>, <<3, 2>>, <<5, 1>>, <<2, 0>>}
OneConfig == {<<4, 1>>}
=============================================================================
