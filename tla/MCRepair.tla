-------------------------------- MODULE MCRepair --------------------------------
(* Two requests on a pull request with two files of three lines, while its     *)
(* author pushes a change of one file or of both.                             *)
EXTENDS Repair

CONSTANTS app, lib, a, b, c, empty

Line(text, end) == [text |-> text, end |-> end]
Lf(text) == Line(text, "lf")

(* A file with line ends of all kinds that is closed, one that is not. *)
MCPath == app :> 1 @@ lib :> 2
MCTree0 ==
  app :> <<Line(a, "crlf"), Line(b, "other"), Lf(c)>> @@ lib :> <<Lf(a), Lf(empty), Line(a, "none")>>
MCPushes ==
  { app :> MCTree0[app] @@ lib :> <<Lf(a), Lf(empty), Line(b, "none")>>,
    app :> <<Lf(a), Lf(b), Lf(c), Lf(c)>> @@ lib :> <<Lf(a)>> }

Tagged(tag, text) == [tag |-> tag, text |-> text]
Hunk(start, old, new, lines) == [start |-> start, old |-> old, new |-> new, lines |-> lines]

(* Two hunks; a hunk in each file, of which the second takes the last line;   *)
(* two that overlap; one whose counts are wrong; one that may empty its file; *)
(* one that keeps what it names, with one in the other file.                 *)
MCPatches ==
  { app :> <<Hunk(1, 1, 2, <<Tagged(" ", a), Tagged("+", c)>>),
             Hunk(2, 2, 1, <<Tagged("-", b), Tagged(" ", c)>>)>>,
    app :> <<Hunk(2, 1, 1, <<Tagged("-", b), Tagged("+", a)>>)>>
      @@ lib :> <<Hunk(3, 1, 0, <<Tagged("-", a)>>)>>,
    lib :> <<Hunk(3, 1, 1, <<Tagged("-", a), Tagged("+", b)>>),
             Hunk(1, 1, 1, <<Tagged("-", a), Tagged("+", c)>>)>>,
    app :> <<Hunk(1, 2, 1, <<Tagged("-", a)>>)>>,
    lib :> <<Hunk(1, 1, 0, <<Tagged("-", a)>>)>>,
    app :> <<Hunk(1, 1, 1, <<Tagged(" ", a)>>)>>
      @@ lib :> <<Hunk(1, 1, 1, <<Tagged("-", a), Tagged("+", b)>>)>> }
===============================================================================
