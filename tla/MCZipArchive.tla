---------------------------- MODULE MCZipArchive ----------------------------
(* The instances of ZipArchive that TLC checks: a file, a link and a       *)
(* directory with one file in it.                                          *)
EXTENDS ZipArchive

AFile == "a"
ALink == "l"
ADir == "d"
Inside == "b"

DirContents == ADir :> <<Inside>>
InputLists == {<<AFile>>, <<ADir, AFile>>, <<ALink>>}
LinkPaths == {ALink}
OldFiles == {<<AFile, 1>>}
LooseLinks == {<<AFile, 2>>, <<ALink, 1>>}
=============================================================================
