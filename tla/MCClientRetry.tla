--------------------------- MODULE MCClientRetry ---------------------------
(***************************************************************************)
(* ClientRetry with a client that makes one call, a create or an update,   *)
(* and tries it twice, and one that creates a user and deletes one.        *)
(***************************************************************************)
EXTENDS ClientRetry

MCPlan ==
  [c1 |-> <<[op : {"CreateUser"}, key : {None, "k"}, optIn : {FALSE}, max : {2}]
              \cup [op : {"UpdateUser"}, key : {None}, optIn : {TRUE}, max : {2}]>>,
   c2 |-> <<[op : {"CreateUser"}, key : {None, "k"}, optIn : {FALSE}, max : {1}],
            [op : {"DeleteUser"}, key : {None}, optIn : {FALSE}, max : {0, 1}]>>]
=============================================================================
