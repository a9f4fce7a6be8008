------------------------------ MODULE MCInode ------------------------------
(***************************************************************************)
(* Inode with two processes, for TLC.                                      *)
(***************************************************************************)
EXTENDS Inode, TLC

I(type, nlink) == [type |-> type, nlink |-> nlink]
Entries(self, parent, named) == named @@ ("." :> self) @@ (".." :> parent) @@ NoEnts

\* The root with an empty directory d and a file a.
Plain ==
  [di   |-> <<I("dir", 2), I("dir", 1), I("file", 1), I("free", 0), I("free", 0)>>,
   ents |-> <<Entries(1, 1, "d" :> 2 @@ "a" :> 3), Entries(2, 1, << >>),
              NoEnts, NoEnts, NoEnts>>]

\* The root with files a and b; the current directory has been removed, as has
\* its parent, which was inode 4.
Removed ==
  [di   |-> <<I("dir", 1), I("dir", 0), I("file", 1), I("free", 0), I("file", 1)>>,
   ents |-> <<Entries(1, 1, "a" :> 3 @@ "b" :> 5), Entries(2, 4, << >>),
              NoEnts, NoEnts, NoEnts>>]

MCStarts ==
  {[di |-> Plain.di, ents |-> Plain.ents, cwd |-> 1, menu |-> "names"],
   [di |-> Plain.di, ents |-> Plain.ents, cwd |-> 1, menu |-> "dots"],
   [di |-> Removed.di, ents |-> Removed.ents, cwd |-> 2, menu |-> "removed"]}

MCMenus ==
  [names |->
     {[op |-> "open", path |-> <<"d">>, write |-> TRUE],
      [op |-> "open", path |-> <<"a">>, write |-> TRUE],
      [op |-> "creat", path |-> <<"d", "a">>],
      [op |-> "creat", path |-> <<"a">>],
      [op |-> "mkdir", path |-> <<"d", "d">>],
      [op |-> "mknod", path |-> <<"a", "a">>],
      [op |-> "unlink", path |-> <<"d">>],
      [op |-> "unlink", path |-> <<"a">>],
      [op |-> "unlink", path |-> <<"d", "a">>],
      [op |-> "link", path |-> <<"a">>, new |-> <<"d", "a">>],
      [op |-> "chdir", path |-> <<"d">>]},
   dots |->
     {[op |-> "open", path |-> <<"..">>, write |-> FALSE],
      [op |-> "mkdir", path |-> <<"d", "d">>],
      [op |-> "mkdir", path |-> <<"..">>],
      [op |-> "unlink", path |-> <<"..", "d">>],
      [op |-> "unlink", path |-> <<"d", ".">>],
      [op |-> "link", path |-> <<"d">>, new |-> <<"b">>],
      [op |-> "link", path |-> <<"/", "a">>, new |-> <<".">>],
      [op |-> "link", path |-> <<"/", "a">>, new |-> <<"d", "..">>],
      [op |-> "chdir", path |-> <<"d">>]},
   removed |->
     {[op |-> "open", path |-> <<"..">>, write |-> FALSE],
      [op |-> "mkdir", path |-> <<"..">>],
      [op |-> "mkdir", path |-> <<"/", "d">>],
      [op |-> "mkdir", path |-> <<"d">>],
      [op |-> "unlink", path |-> <<"/">>],
      [op |-> "link", path |-> <<"/", "a">>, new |-> <<"..">>],
      [op |-> "chdir", path |-> <<"..">>],
      [op |-> "chdir", path |-> <<"/">>]}]

\* The processes are alike.
MCSymmetry == Permutations(Procs)
=============================================================================
