---------------------------- MODULE MCFileSystem ----------------------------
(* Instances of FileSystem for TLC.                                        *)
EXTENDS FileSystem

CONSTANTS p1, p2

Abs(el) == [abs |-> TRUE, el |-> el]
Rel(el) == [abs |-> FALSE, el |-> el]

MCNames    == {"d", "f"}
MCPrograms == <<"f">>

mkdir(path)  == [call |-> "mkdir", path |-> path, major |-> 0]
mknod(path, major) == [call |-> "mknod", path |-> path, major |-> major]
unlinks(path) == [call |-> "unlink", path |-> path]
links(old, new) == [call |-> "link", path |-> old, new |-> new]
chdirs(path) == [call |-> "chdir", path |-> path]
opens(path, mode) == [call |-> "open", path |-> path, mode |-> mode]
creates(path) == [call |-> "create", path |-> path, mode |-> "rw", major |-> 0]
onfd(call, fd) == [call |-> call, fd |-> fd, n |-> 2]

call(name) == [call |-> name]

root == Abs(<<>>)
d    == Abs(<<"d">>)
f    == Abs(<<"f">>)
dd   == Abs(<<"d", "d">>)
df   == Abs(<<"d", "f">>)
here == Rel(<<"f">>)
up   == Rel(<<"..", "f">>)

\* Two processes use names in a directory that one of them is in: they make, link
\* and remove the same name, remove the directory when it is empty, and make
\* another one below it.
Inside(some) == [max |-> 2,
    script |-> <<<<p1, mkdir(d)>>, <<p1, call("fork")>>, <<p2, chdirs(d)>>>>,
    calls |-> some]

Naming  == Inside({unlinks(here), links(f, df), creates(here)})
Linking == Inside({unlinks(d), unlinks(here), links(f, df)})
Making  == Inside({unlinks(d), mkdir(dd), creates(here)})

\* One process removes two nested directories; the other one is in the inner one,
\* and goes up from it.
Removing == [max |-> 2,
    script |-> <<<<p1, mkdir(d)>>, <<p1, mkdir(dd)>>, <<p1, call("fork")>>, <<p2, chdirs(dd)>>>>,
    calls |-> {unlinks(dd), unlinks(d), opens(up, "r"), mkdir(d)}]

\* Two processes share an open file, which one of them may unlink.
Sharing == [max |-> 2,
    script |-> <<<<p1, creates(f)>>, <<p1, call("fork")>>>>,
    calls |-> {onfd("write", 0), onfd("read", 0), onfd("fstat", 0), onfd("close", 0), onfd("dup", 0),
               unlinks(f), creates(f), call("exit")}]

\* One process: devices, pipes, full tables, and names that are not there, are
\* there already or are of the wrong type.
Refusing == [max |-> 3,
    script |-> <<<<p1, mkdir(d)>>>>,
    calls |-> {mknod(df, 2), opens(df, "rw"), opens(d, "rw"), opens(root, "r"),
               creates(d), mkdir(root), mkdir(f), chdirs(f), chdirs(d), chdirs(Rel(<<"..">>)),
               opens(Abs(<<"f", "f">>), "r"), opens(up, "r"), unlinks(Abs(<<"d", "..">>)), unlinks(df),
               links(d, df), links(f, f), links(f, df), links(f, root), call("pipe"), onfd("dup", 0),
               onfd("write", 0), onfd("read", 0), onfd("close", 0)}]

\* Two processes share the console, which one of them may unlink while the other
\* waits in it, and a file that is not open for writing.
Waiting == [max |-> 2,
    script |-> <<<<p1, mknod(d, CONSOLE)>>, <<p1, opens(d, "rw")>>, <<p1, opens(f, "r")>>, <<p1, call("fork")>>>>,
    calls |-> {onfd("write", 0), onfd("read", 0), onfd("write", 1), onfd("close", 0), unlinks(d), opens(d, "w")}]

MCWorkloads == {Naming, Linking, Making, Removing, Sharing, Refusing, Waiting}
=============================================================================
