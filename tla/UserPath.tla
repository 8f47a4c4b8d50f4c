------------------------------ MODULE UserPath ------------------------------
(***************************************************************************)
(* Working directories: cd, mkdir, rmdir and the other programs that take  *)
(* a path pass it through user_path_resolve (user/runtime/user_path.c),    *)
(* which makes it absolute with getcwd and removes . and .., before the    *)
(* system call; chdir stores the result, the base of the next one.         *)
(*                                                                         *)
(* Paths are sequences of characters, as the code takes them apart; the    *)
(* reference works on names.  Directories stand for the nodes of the file  *)
(* system (module FileSystem).                                             *)
(***************************************************************************)
EXTENDS Integers, FiniteSets, Sequences, SequencesExt

CONSTANTS FS_PATH_MAX, FS_NAME_MAX,    \* sizes of a path and a name, with the NUL
          Args,                        \* the arguments given, no empty one
          DirsMax                      \* directories at a time: a bound of the model

Char == {"/", "."} \cup UNION {Range(arg) : arg \in Args}
CStr == Seq(Char)

ASSUME PathSizes == {FS_PATH_MAX, FS_NAME_MAX, DirsMax} \subseteq Nat \ {0, 1}
ASSUME ArgsAssumption == Args \subseteq CStr \ {<<>>}

Root == <<"/">>
Failed == <<>>

VARIABLES
    dirs,         \* the paths of the directories
    cwd_path,
    last          \* history: the argument resolved last, and its meaning

pathVars == <<dirs, cwd_path, last>>

-----------------------------------------------------------------------------
(* The reference: a path is a list of names.                               *)

\* The names between the slashes of s: one begins behind each slash that
\* another character follows.
Names[s \in CStr] ==
    IF s = <<>> THEN <<>>
    ELSE LET names == Names[Front(s)]
             begins == Len(s) = 1 \/ s[Len(s) - 1] = "/"
         IN CASE Last(s) = "/" -> names
              [] Last(s) # "/" /\ begins -> Append(names, <<Last(s)>>)
              [] OTHER -> [names EXCEPT ![Len(names)] = Append(@, Last(s))]

\* . stays, .. goes up, and / is its own parent.
Go(at, n) ==
    CASE n = <<".">> -> at
      [] n = <<".", ".">> -> IF at = <<>> THEN at ELSE Front(at)
      [] OTHER -> Append(at, n)

Walk(at, names) ==
    LET walk[ns \in Seq(CStr)] == IF ns = <<>> THEN at ELSE Go(walk[Front(ns)], Last(ns))
    IN walk[names]

\* The path of a list of names.
Joined[ns \in Seq(CStr)] ==
    IF ns = <<>> THEN <<>> ELSE Joined[Front(ns)] \o <<"/">> \o Last(ns)
Plain(names) == IF names = <<>> THEN Root ELSE Joined[names]

Meant(cwd, arg) == Walk(IF Head(arg) = "/" THEN <<>> ELSE Names[cwd], Names[arg])

\* The argument and the directory together fit a path, and every name a name.
Fits(cwd, arg) ==
    /\ \A i \in DOMAIN Names[arg] : Len(Names[arg][i]) < FS_NAME_MAX
    /\ Len(arg) + (IF Head(arg) = "/" THEN 0 ELSE IF cwd = Root THEN 1 ELSE Len(cwd) + 1)
          < FS_PATH_MAX

-----------------------------------------------------------------------------
(* user_path_resolve.                                                      *)

\* Copies are cut without a word.
strcpy_s(n, s) == SubSeq(s, 1, IF Len(s) < n - 1 THEN Len(s) ELSE n - 1)
strcat_s(s, n, t) == strcpy_s(n, s \o t)

Absolute(cwd, arg) ==
    IF Head(arg) = "/" THEN strcpy_s(FS_PATH_MAX, arg)
    ELSE LET base == strcpy_s(FS_PATH_MAX, cwd) IN
         strcat_s(IF base = Root THEN base ELSE strcat_s(base, FS_PATH_MAX, <<"/">>),
                  FS_PATH_MAX, arg)

LastSlash(s) == CHOOSE i \in DOMAIN s : s[i] = "/" /\ \A j \in i + 1 .. Len(s) : s[j] # "/"

pop_component(norm) == IF LastSlash(norm) = 1 THEN Root ELSE SubSeq(norm, 1, LastSlash(norm) - 1)

push_component_Root(norm, token) ==
    IF Len(norm) + Len(token) >= FS_PATH_MAX THEN Failed ELSE norm \o token

push_component(norm, token) ==
    LET longer == (IF Len(norm) > 1 THEN Append(norm, "/") ELSE norm) \o token IN
    IF Len(longer) >= FS_PATH_MAX THEN Failed ELSE longer

Component(norm, token) ==
    CASE norm = Failed \/ token \in {<<>>, <<".">>} -> norm
      [] norm # Failed /\ token = <<".", ".">> -> pop_component(norm)
      [] OTHER -> push_component(norm, token)

\* One character of the absolute path; a long name is cut as it is read.
Character(st, c) ==
    IF c = "/"
      THEN [norm |-> Component(st.norm, st.token), token |-> <<>>]
      ELSE [st EXCEPT !.token = strcpy_s(FS_NAME_MAX, Append(@, c))]

Scan[s \in CStr] ==
    IF s = <<>> THEN [norm |-> Root, token |-> <<>>] ELSE Character(Scan[Front(s)], Last(s))

user_path_resolve(cwd, arg) ==
    LET st == Scan[Absolute(cwd, arg)] IN Component(st.norm, st.token)

-----------------------------------------------------------------------------
Resolved(arg) == user_path_resolve(cwd_path, arg)

Record(arg) ==
    last' = [got |-> Resolved(arg), meant |-> Meant(cwd_path, arg), fits |-> Fits(cwd_path, arg)]

PathInit ==
    /\ dirs = {Root}
    /\ cwd_path = Root
    /\ last = [got |-> Root, meant |-> <<>>, fits |-> TRUE]

\* Only a directory that exists becomes the working directory.
chdir(arg) ==
    /\ Record(arg)
    /\ cwd_path' = IF Resolved(arg) \in dirs THEN strcpy_s(FS_PATH_MAX, Resolved(arg)) ELSE cwd_path
    /\ UNCHANGED dirs

mkdir(arg) ==
    LET path == Resolved(arg) IN
    /\ Record(arg)
    /\ Cardinality(dirs) < DirsMax
    /\ dirs' = IF path \notin dirs \cup {Failed} /\ pop_component(path) \in dirs
               THEN dirs \cup {path} ELSE dirs
    /\ UNCHANGED cwd_path

\* The working directory is not protected, / and directories in use are.
rmdir(arg) ==
    LET path == Resolved(arg) IN
    /\ Record(arg)
    /\ dirs' = IF path # Root /\ \A d \in dirs \ {Root} : pop_component(d) # path
               THEN dirs \ {path} ELSE dirs
    /\ UNCHANGED cwd_path

PathNext == \E arg \in Args : chdir(arg) \/ mkdir(arg) \/ rmdir(arg)

PathSpec == PathInit /\ [][PathNext]_pathVars

-----------------------------------------------------------------------------
\* A path fits the array it is kept in, and resolution never fails: its limit
\* on the result is behind its limit on the absolute path.
PathTypeOK ==
    /\ Cardinality(dirs) <= DirsMax
    /\ Len(cwd_path) \in 1 .. FS_PATH_MAX - 1
    /\ last.got # Failed

\* After any number of cds the working directory is the plain path of names,
\* without ., .., doubled or trailing slashes: what pwd prints and /proc shows.
CwdCanonical == cwd_path = Plain(Names[cwd_path])

\* A path that fits is resolved to the file its names lead to from the working
\* directory, whatever ., .. and slashes it has (user_path_resolve).
ResolvesAsMeant == last.fits => Names[last.got] = last.meant

\* Together: the paths of a session lead where they say (user_path_resolve, cd).
PathsLeadRight == PathTypeOK /\ CwdCanonical /\ ResolvesAsMeant
=============================================================================
