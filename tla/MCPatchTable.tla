----------------------------- MODULE MCPatchTable -----------------------------
(***************************************************************************)
(* Instances of PatchTable for TLC.                                        *)
(***************************************************************************)
EXTENDS PatchTable

path(n, b)     == [slashes |-> n, base |-> b]
url(s, h, p)   == [scheme |-> s, host |-> h, port |-> p]
patch(p, d)    == [op |-> "PATCH", path |-> p, dest |-> d]
on(op, p)      == [op |-> op, path |-> p]

\* Two destinations for one path, written "a" and "/a", ...
Plain == { patch(path(0, "a"), url("http", "h1", "none")),
           patch(path(1, "a"), url("https", "h1", "other")) }

\* ... the forms that validatePath refuses, a host that never answers, ...
Odd == { patch(path(2, "a"), url("https", "h1", "none")),
         patch(path(0, "b"), Nil),
         patch(path(0, "b"), url("none", "h1", "80")),
         patch(path(0, "b"), url("http", Nil, "80")),
         patch(path(0, "b"), url("ftp", "h1", "none")),
         patch(path(0, "b"), url("ftp", "h1", "other")),
         patch(path(0, "b"), url("ftp", "s1", "other")),
         patch(path(0, "b"), url("http", "s1", "none")) }

\* ... and the other requests.
Others == { on("GET", path(0, "a")), on("DELETE", path(0, "a")),
            on("DELETE", path(0, "b")), [op |-> "LIST"] }

All == Plain \cup Odd \cup Others

\* Two init files, the first with two patches; a destination may not answer 200.
Three == << << [path |-> path(1, "a"), dest |-> url("http", "h1", "none")],
               [path |-> path(0, "b"), dest |-> url("https", "h1", "none")] >>,
            << [path |-> path(2, "b"), dest |-> url("http", "h1", "other")] >> >>

NoFiles == << >>
===============================================================================
