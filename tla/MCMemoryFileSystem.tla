------------------------- MODULE MCMemoryFileSystem -------------------------
(***************************************************************************)
(* Instances of MemoryFileSystem for TLC.                                  *)
(***************************************************************************)
EXTENDS MemoryFileSystem

MCNames == {"", "a", "b"}

\* "/", "/a", "/b", "/a/", "/a/b", "/b/a", "/a//b"
MCTreePaths ==
  {<<"">>, <<"a">>, <<"b">>, <<"a", "">>, <<"a", "b">>, <<"b", "a">>, <<"a", "", "b">>}

\* "/a", "/b", "/a/b"
MCRefinementPaths == {<<"a">>, <<"b">>, <<"a", "b">>}

\* "/a", "/b", "/a/b"
MCFilePaths == {<<"a">>, <<"b">>, <<"a", "b">>}

MCRefinementBuffers == {<<"x">>}
MCBuffers == {<<"x">>, <<"x", "y">>}
=============================================================================
