------------------------------- MODULE Listing -------------------------------
(***************************************************************************)
(* ls (user/apps/ls/main.c) on top of the file system.  It asks readdir    *)
(* for entry 0, 1, 2, ... of a directory until there is none; each call    *)
(* counts the entries anew, and between two calls any other process may    *)
(* create or remove some of them.                                          *)
(*                                                                         *)
(* Of an entry only the name matters.  The options decide whether hidden   *)
(* names are shown; the layout of the output is left out.                  *)
(***************************************************************************)
EXTENDS FileSystem, FiniteSets

CONSTANTS ListPaths,    \* directories that are listed
          Hidden        \* names that start with a dot

ASSUME HiddenAssumption == Hidden \subseteq Names /\ ListPaths \subseteq Seq(Names)

VARIABLES
    ls,        \* the running or last ls: its variables and its output
    during     \* history: the names there all the time, and whether any came or went

listVars == <<nodes, fd_table, disk, live, phase, ls, during>>

NoLs == [state |-> "none", pid |-> shell, path |-> <<>>, all_print |-> FALSE,
         i |-> 0, printed |-> <<>>]
Nothing == [stayed |-> {}, came |-> FALSE, went |-> FALSE]

-----------------------------------------------------------------------------
\* The nodes whose parent is the directory; none if the path is not one.
Entries(path) ==
    LET N == nodes[vfs_resolve_mount(path)] IN
    {n \in Nodes : \E dir \in Nodes :
        /\ N[n].used /\ N[n].parent = dir
        /\ N[dir].type = "DIR"
        /\ nodefs_resolve_path(N, subpath(path), dir)}

EntryNames(path) == {nodes[vfs_resolve_mount(path)][n].name : n \in Entries(path)}

nodefs_readdir_FirstTwice(path, index, n) ==
    n \in Entries(path)
      /\ Cardinality({k \in Entries(path) : k < n}) = (IF index = 0 THEN 0 ELSE index - 1)

\* Entry number index in the order of the node table is node n.
nodefs_readdir(path, index, n) ==
    n \in Entries(path) /\ Cardinality({k \in Entries(path) : k < n}) = index

-----------------------------------------------------------------------------
\* A child of the shell runs ls.
Start(p, path, all_print) ==
    /\ ls.state # "run"
    /\ Up /\ p \in live \ {shell}
    /\ ls' = [NoLs EXCEPT !.state = "run", !.pid = p, !.path = path, !.all_print = all_print]
    /\ during' = [Nothing EXCEPT !.stayed = EntryNames(path)]
    /\ UNCHANGED vars

Shown(name) == ls.all_print \/ name \notin Hidden

\* One round of the loop; a hidden entry is passed over.
ls_entry ==
    /\ ls.state = "run"
    /\ \E n \in Nodes :
        /\ nodefs_readdir(ls.path, ls.i, n)
        /\ LET name == nodes[vfs_resolve_mount(ls.path)][n].name IN
           ls' = [ls EXCEPT !.i = @ + 1,
                            !.printed = IF Shown(name) THEN Append(@, name) ELSE @]
    /\ UNCHANGED <<vars, during>>

\* No such entry, or no such directory any more.
ls_end ==
    /\ ls.state = "run"
    /\ ~\E n \in Nodes : nodefs_readdir(ls.path, ls.i, n)
    /\ ls' = [ls EXCEPT !.state = "done"]
    /\ UNCHANGED <<vars, during>>

\* A call of another process, seen from the directory; ls may be killed, and
\* what a finished one has printed is forgotten.
Others ==
    /\ Next
    /\ IF ls.state = "run" /\ ls.pid \in live'
         THEN LET before == EntryNames(ls.path)
                  after == EntryNames(ls.path)' IN
              /\ UNCHANGED ls
              /\ during' = [stayed |-> during.stayed \cap after,
                            came |-> during.came \/ ~(after \subseteq before),
                            went |-> during.went \/ ~(before \subseteq after)]
         ELSE ls' = NoLs /\ during' = Nothing

ListInit == Init /\ ls = NoLs /\ during = Nothing

ListNext ==
    \/ \E p \in Pids, path \in ListPaths, all_print \in BOOLEAN : Start(p, path, all_print)
    \/ ls_entry
    \/ ls_end
    \/ Others

ListSpec == ListInit /\ [][ListNext]_listVars

-----------------------------------------------------------------------------
\* The index has its bound, so that ls ends however fast files are created:
\* after one round per node of the table at most (ls/main.c 52-86).
ListTypeOK ==
    /\ ls.state \in {"none", "run", "done"}
    /\ ls.i \in 0 .. FS_MAX_NODES - 1
    /\ Len(ls.printed) <= ls.i
    /\ during.stayed \subseteq Names

\* Files removed behind ls's back make it print nothing twice; only one that
\* is created in a free node below those printed does (nodefs_readdir).
ListedOnce ==
    ls.state # "none" /\ ~during.came =>
        \A j, k \in DOMAIN ls.printed : ls.printed[j] = ls.printed[k] => j = k

\* Files created behind ls's back do not make it miss one that was there all
\* the time; only one that is removed does (nodefs_readdir).
ListedAll ==
    ls.state = "done" /\ ~during.went =>
        \A name \in during.stayed : Shown(name) => \E j \in DOMAIN ls.printed : ls.printed[j] = name

\* Together: what ls prints is what was there, up to what changed meanwhile.
ListingRight == ListTypeOK /\ ListedOnce /\ ListedAll
=============================================================================
