----------------------- MODULE MCDirectoryPublication -----------------------
(* Instances of DirectoryPublication for TLC.                              *)
EXTENDS DirectoryPublication, FiniteSetsExt

CONSTANTS a, b, c, v, w, d1, d2, d3

(* d3 is three times as long as other artifacts and the manifest.          *)
Length(file) == CASE file = NoFile -> 0 [] file = d3 -> 3 [] OTHER -> 1
TotalLength(d) == MapThenSumSet(LAMBDA f : Length(d[f]), Files)
=============================================================================
