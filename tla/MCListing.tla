----------------------------- MODULE MCListing -----------------------------
(***************************************************************************)
(* Two uses of the file system that need instances of their own, ls in     *)
(* /tmp while other calls change the directory and calls on a disk that    *)
(* may fail to take a write, and the arguments a program such as ls gets.  *)
(* In one behaviour one of the three moves.                                *)
(***************************************************************************)
EXTENDS Listing, ExecArgs

VARIABLES part, dnodes, dfd_table, ddisk, dlive, dphase

diskVars == <<dnodes, dfd_table, ddisk, dlive, dphase>>

\* Listing: three directories in /tmp, one of them hidden.
\* Files differ from them only in the type that ls prints.
MCNames == {"tmp", "a", "b", ".c"}
MCPaths == {<<"tmp", "a">>, <<"tmp", "b">>, <<"tmp", ".c">>}
MCListPaths == {<<"tmp">>}

\* The failing disk: a directory with an entry, and a file beside it.
DiskNames == {"tmp", "a", "b"}
DiskPaths == {<<"a">>, <<"a", "b">>, <<"b">>}
WriteOnly == {{"O_WRONLY", "O_CREAT"}, {"O_WRONLY", "O_TRUNC"}}

D == INSTANCE FileSystem WITH
        Pids <- {shell}, FS_MAX_NODES <- 4, Names <- DiskNames, Paths <- DiskPaths,
        OpenFlags <- WriteOnly, Bytes <- {1}, DeviceErrors <- TRUE,
        nodes <- dnodes, fd_table <- dfd_table, disk <- ddisk, live <- dlive,
        phase <- dphase

\* ExecArgs: words shorter and longer than a row.
MCWords == {<<"a">>, <<"b", "a", "a">>}

CallsInit ==
    /\ part \in {"ls", "disk", "args"}
    /\ ListInit /\ D!Init /\ ArgsInit
    /\ part # "args" => name[1] # None                     \* any one will do

CallsNext ==
    /\ UNCHANGED part
    /\ \/ part = "ls" /\ ListNext /\ UNCHANGED <<diskVars, argsVars>>
       \/ part = "disk" /\ D!Next /\ UNCHANGED <<listVars, argsVars>>
       \/ part = "args" /\ ArgsNext /\ UNCHANGED <<listVars, diskVars>>

CallsSpec == CallsInit /\ [][CallsNext]_<<part, listVars, diskVars, argsVars>>

-----------------------------------------------------------------------------
(* The properties of the file system on a failing disk.                    *)

\* However a write fails, memory holds a tree, and no descriptor names a free
\* node or a directory: the change stays though the call returns -1 (pfs_sync,
\* open_create, open_truncate).
SoundOnErrors == D!TreeSound /\ D!OpenNodeIsFile
=============================================================================
