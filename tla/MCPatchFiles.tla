---------------------------- MODULE MCPatchFiles ----------------------------
(* Two files, one of them sensitive, and three lines, one of which is not  *)
(* ASCII.  A diff updates the first file with one hunk or with two, and    *)
(* then adds, updates or deletes the second, or does not parse, or names   *)
(* a file twice.                                                           *)
EXTENDS PatchFiles

CONSTANTS f, g, a, b, u

MCFiles == {f, g}
MCLines == {a, b, u}
MCSensitive == {g}
MCAscii == [l \in MCLines |-> IF l = u THEN b ELSE l]
MCContents == {Missing, <<a>>, <<a, a>>, <<a, b, a>>}

H(start, old, new) == [start |-> start, old |-> old, new |-> new]

MCHunks == { H(0, << >>, <<b>>), H(0, << >>, <<b, a>>), H(1, <<a>>, <<a, b>>), H(1, <<a>>, << >>),
             H(2, <<a>>, <<b>>), H(2, <<b>>, << >>), H(3, <<a>>, <<u>>) }

Update(x, hs) == [path |-> x, op |-> "update", hunks |-> hs]

MCUpdates == { <<h>> : h \in MCHunks } \cup { <<h, k>> : h, k \in MCHunks }
MCOthers == { [path |-> g, op |-> "add", hunks |-> <<H(0, << >>, <<a, b>>)>>],
              [path |-> g, op |-> "delete", hunks |-> <<H(1, <<a>>, << >>)>>],
              Update(g, <<H(1, <<a>>, <<u>>)>>), Update(g, <<H(1, <<a>>, <<b>>)>>) }

MCDiffs ==
  { <<Update(f, hs), o>> : hs \in MCUpdates, o \in MCOthers }
    \cup { << >>, <<Update(f, <<H(1, <<a>>, <<b>>)>>), Update(f, <<H(1, <<a>>, <<u>>)>>)>> }
=============================================================================
