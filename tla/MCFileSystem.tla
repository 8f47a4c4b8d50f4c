--------------------------- MODULE MCFileSystem ---------------------------
(* Small instances of FileSystem for TLC.                                  *)
EXTENDS FileSystem

MCMountPoints == {"tmp"}
MCNames == {"tmp", "a", "b"}

\* Two processes sharing a directory and its files in /tmp.
SharedPaths == {<<"tmp", "a">>, <<"tmp", "a", "b">>}

\* A directory with an entry, and a file beside it, on the disk.
DiskPaths == {<<"a">>, <<"a", "b">>, <<"b">>}

ReadWrite == {{"O_RDONLY", "O_WRONLY", "O_CREAT"}, {"O_WRONLY", "O_TRUNC"}}
WriteOnly == {{"O_WRONLY", "O_CREAT"}, {"O_WRONLY", "O_TRUNC"}}
=============================================================================
