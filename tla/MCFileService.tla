--------------------------- MODULE MCFileService ---------------------------
(***************************************************************************)
(* FileService on disks of a few names: a root /r with a directory, files  *)
(* in every encoding, links that lead inside, outside, nowhere and in a    *)
(* circle, names that begin or end with a blank or are one, and the        *)
(* changes between them.                                                   *)
(***************************************************************************)
EXTENDS FileService, TLC

Sound   == {"r", "x", "a", "b", "c", "..", "."}
MCLead  == [n \in Sound |-> n] @@ (" a" :> "a") @@ ("a " :> "a ") @@ (" " :> "")
MCTrail == [n \in Sound \cup {""} |-> n] @@ (" a" :> " a") @@ ("a " :> "a") @@ (" " :> "")
MCRank  == [n \in {"r", "x", "a", "b", "c", " a", "a ", " "} |->
              CASE n = " " -> 0 [] n = " a" -> 1 [] n = "a" -> 2 [] n = "a " -> 3
                [] n = "b" -> 4 [] n = "c" -> 5 [] OTHER -> 6]

Dir        == [kind |-> "dir"]
To(p)      == [kind |-> "link", to |-> p]
File       == [kind |-> "file", mark |-> "none", nul |-> FALSE, size |-> 1]
Utf8(c)    == File @@ [written |-> "utf-8", as |-> ("utf-8" :> c) @@ ("shift_jis" :> {"bad"})]
Sjis       == File @@ [written |-> "shift_jis", as |-> "shift_jis" :> {"wide"}]
Both       == File @@ [written |-> "shift_jis",  \* the bytes C2 B1
                       as |-> ("utf-8" :> {"other"}) @@ ("shift_jis" :> {"wide"})]
Marked(m, n) ==
  [File EXCEPT !.mark = m, !.nul = n] @@ [written |-> m, as |-> m :> {"ascii", "wide"}]
Cut        == File @@ [written |-> "none", as |-> "shift_jis" :> {"other"}]  \* UTF-8, cut short
Binary     == [File EXCEPT !.nul = TRUE] @@ [written |-> "none", as |-> "utf-8" :> {"ascii", "nul"}]
Large      == [Utf8({"ascii"}) EXCEPT !.size = 3]

Top == (<<>> :> Dir) @@ (<<"r">> :> Dir) @@ (<<"x">> :> Utf8({"ascii"}))
R   == <<"r">>
A   == <<"r", "a">>
B   == <<"r", "b">>
C   == <<"r", "c">>
AB  == <<"r", "a", "b">>

MCDisk == {
  \* a directory, a link into it and one that leads outside
  Top @@ (A :> Dir) @@ (AB :> Sjis) @@ (B :> To(AB)) @@ (C :> To(<<"x">>)),
  \* the directory gave way to a file, what the link led to is gone
  Top @@ (A :> Marked("utf-16le", TRUE)) @@ (B :> To(AB)) @@ (C :> Large),
  \* another directory of the same name, and a name like it
  Top @@ (A :> Dir) @@ (AB :> Dir) @@ (B :> Marked("utf-8", FALSE))
      @@ (<<"r", " a">> :> Cut) @@ (<<"r", "a", "a ">> :> Both) @@ (C :> To(A)),
  \* a circle
  Top @@ (A :> Dir) @@ (AB :> Binary) @@ (B :> To(C)) @@ (C :> To(B)),
  \* the root itself gave way to a link
  (<<>> :> Dir) @@ (R :> To(<<"x">>)) @@ (<<"x">> :> Dir)
      @@ (<<"x", "a">> :> Utf8({"wide", "ctl"})),
  \* a link beside the root that leads back into it, and a directory only a link leads to
  (<<>> :> Dir) @@ (R :> Dir) @@ (<<"x">> :> To(R)) @@ (A :> Both) @@ (<<"r", "a ">> :> Dir)
      @@ (<<"r", " a">> :> Dir) @@ (<<"r", " a", "b">> :> Dir) @@ (<<"r", " ">> :> Dir)
      @@ (C :> To(<<"r", " a">>)),
  \* nothing left
  (<<>> :> Dir)}

Root(id, p) == [id |-> id, path |-> p, blank |-> {}]
MCConfig == {
  [roots |-> <<>>, max |-> 0],
  [roots |-> <<Root("R", R), Root("A", A)>>, max |-> 2],
  [roots |-> <<Root("R", R), Root("R", A)>>, max |-> 2],
  [roots |-> <<[Root("R", R) EXCEPT !.blank = {"name"}]>>, max |-> 2],
  [roots |-> <<Root("R", R)>>, max |-> -1]}

Abs(p) == [abs |-> TRUE, path |-> p]
Relative(p) == [abs |-> FALSE, path |-> p]
MCCwd  == {Abs(R), Abs(C), Abs(AB), Abs(<<"r", "a ">>), Relative(<<"a">>)}
MCPath == {Relative(<<>>), Relative(<<"..", "..", "r">>), Relative(<<"a">>), Relative(<<"b">>),
           Relative(<<"c">>), Abs(A), Abs(<<"x">>), Relative(<<"a", "b">>),
           Relative(<<"a", "..", "..", "x">>), Abs(<<"r", " a">>), Abs(<<"r", "a ">>),
           Relative(<<"a", "a ">>), Relative(<<" a", "a ">>), Relative(<<" ", "..", "a">>)}
=============================================================================
