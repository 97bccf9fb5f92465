--------------------------- MODULE MCMountRegistry ---------------------------
EXTENDS MountRegistryInvariant

CONSTANTS m1, m2, c1, c2

\* The usable path is /m/a: /m/d is above a directory of the daemon, /x is
\* outside the allowed root.
MCPaths == {"/m/a", "/m/b", "/m/d", "/m/d/w", "/m", "/x", "/"}

MCLocation == [p \in MCPaths |->
  CASE p = "/m/a" -> <<"m", "a">>
    [] p = "/m/b" -> <<"m", "b">>
    [] p = "/m/d" -> <<"m", "d">>
    [] p = "/m/d/w" -> <<"m", "d", "w">>
    [] p = "/m" -> <<"m">>
    [] p = "/x" -> <<"x">>
    [] p = "/" -> <<>>]

Request(path, client, complete, options) ==
  [path |-> path, client |-> client, complete |-> complete,
   options |-> options]

MCRequests ==
  {Request("/m/a", "irodsfs", TRUE, {}),
   Request("/m/b", "nfs", TRUE, {"allow_other"}),
   Request("/m/a", "davfs", FALSE, {}),
   Request("/m/d", "irodsfs", TRUE, {}),
   Request("/x", "davfs", TRUE, {"allow_other"}),
   Request("/", "irodsfs", TRUE, {})}
====
