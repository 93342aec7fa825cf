-------------------------- MODULE MCLibraryStorage --------------------------
(* What a session of LibraryStorage may find, for TLC.                     *)
EXTENDS LibraryStorage

CONSTANTS job, flow

Holding(first, second, version) ==
  [record |-> [k \in Keys |-> IF k = job THEN first ELSE second], version |-> version]
Empty(version) == Holding(Missing, Missing, version)
Found(where, there, beside) == [backend |-> where, disk |-> there, local |-> beside]

MCStarts ==
  {Found("workspace", there, Empty("none")) : there \in
     {Holding(Stored("old"), Stored("new"), "old"),
      Holding(Stored("old"), Odd, "none"),
      Holding(Stored("new"), Odd, "current")}}
  \union
  {Found("workspace", Empty("none"), beside) : beside \in
     {Holding(InBrowser("old"), InBrowser("old"), "old"),
      Holding(InBrowser("old"), Missing, "none")}}
  \union
  {Found("workspace", Holding(Stored("new"), Missing, "current"),
         Holding(Missing, InBrowser("old"), "old"))}
  \union
  {Found("browser", there, Empty("none")) : there \in
     {Empty("none"),
      Holding(Stored("old"), Stored("old"), "old"),
      Holding(Stored("old"), Odd, "none"),
      Holding(Stored("new"), Stored("new"), "current")}}

OldBrowser == {Found("browser", Holding(Stored("old"), Stored("old"), "old"), Empty("none"))}
=============================================================================
