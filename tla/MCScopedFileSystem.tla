------------------------- MODULE MCScopedFileSystem -------------------------
(***************************************************************************)
(* Instances of ScopedFileSystem for TLC.                                  *)
(***************************************************************************)
EXTENDS ScopedFileSystem

MCNames == {"", "a", "b", ".", "C:"}

\* "/a", "/a/b", "/b"
MCPaths == {<<"a">>, <<"a", "b">>, <<"b">>}

\* "/", "/a", "/a/", "a", "/a//"
MCRoots == {<<"", "">>, <<"", "a">>, <<"", "a", "">>, <<"a">>, <<"", "a", "", "">>}

\* "/", "b", "/a/", "//b/a", "a/b", "./a", "C:/b"
MCArguments ==
  {<<"", "">>, <<"b">>, <<"", "a", "">>, <<"", "", "b", "a">>, <<"a", "b">>,
   <<".", "a">>, <<"C:", "b">>}
=============================================================================
