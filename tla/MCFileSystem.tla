---------------------------- MODULE MCFileSystem ----------------------------
EXTENDS FileSystem

Abs(names) == [abs |-> TRUE, names |-> names]
Rel(names) == [abs |-> FALSE, names |-> names]
A   == Abs(<<"a">>)
B   == Abs(<<"b">>)
AA  == Abs(<<"a", "a">>)
Dot == Abs(<<"a", ".">>)
Up  == Rel(<<"..">>)
Write == [writable |-> TRUE, create |-> TRUE]
Read  == [writable |-> FALSE, create |-> FALSE]
Run(calls, paths) == [calls |-> calls, paths |-> paths, links |-> {}, boot |-> TRUE,
                      modes |-> {Write}]

\* A file is made, unlinked while it is open, and made again.
Files == <<Run({"open", "write", "close"}, {A}), Run({"open", "unlink", "close"}, {A})>>

\* Two processes use one open file, with two descriptors each.
Share == <<Run({"open", "write", "fork", "dup"}, {A}),
           [Run({"write", "read", "exit", "unlink"}, {A}) EXCEPT !.boot = FALSE]>>

\* Links come and go while the file is opened by one name.
Links == <<[Run({"open", "close", "unlink"}, {A}) EXCEPT !.modes = {Write, Read}],
           [Run({"link", "unlink"}, {A, B}) EXCEPT !.links = {<<A, B>>, <<B, A>>}]>>

\* Directories are removed under a process that changes into them.
Dirs == <<Run({"mkdir", "unlink"}, {A, AA}),
          Run({"chdir"}, {Up, AA})>>

\* Names for what is there already, of another kind or with another entry.
Clash == <<Run({"mkdir", "mknod", "unlink"}, {A}),
           [Run({"open", "link", "close"}, {A}) EXCEPT !.links = {<<B, A>>, <<A, Dot>>}]>>

AllPrograms == {Files, Share, Links, Dirs, Clash}
LinkPrograms == {Files, Links}
DirPrograms == {Dirs}
=============================================================================
