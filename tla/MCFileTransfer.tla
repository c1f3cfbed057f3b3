--------------------------- MODULE MCFileTransfer ---------------------------
EXTENDS FileTransfer

\* d/a/x, d/b/y, and an empty folder d/b/e; d, d/b/e
\* or the file d/a/x is sent.
FolderPaths == {<<"d">>, <<"d", "a">>, <<"d", "b">>, <<"d", "b", "e">>}
X == <<"d", "a", "x">>
Y == <<"d", "b", "y">>
FilePaths == {X, Y}
RootPaths == {<<"d">>, <<"d", "b", "e">>, X}

\* With segments of 5 and names of 1 the first segment of a file holds 2
\* bytes and the others 4: files that are empty, of one segment, of exactly
\* one, of more, and of exactly two.
Sizes == {<<7, 0>>, <<2, 1>>, <<6, 0>>}
SomeSizes == {[f \in FilePaths |-> IF f = X THEN s[1] ELSE s[2]] : s \in Sizes}
=============================================================================
