------------------------------ MODULE PagedList ------------------------------
(***************************************************************************)
(* A client reads the whole user list page by page (ListUsers,             *)
(* internal/service/user.go) while other clients create and delete users.  *)
(* The pages come from the repository's List, in memory                    *)
(* (internal/storage/memory.go) or in Postgres (postgres.go); one call is  *)
(* one snapshot in both, and the server keeps nothing between two calls.   *)
(* Ids are ordered like the strings they stand for; 0 is the empty id.     *)
(***************************************************************************)
EXTENDS Integers, FiniteSets, FiniteSetsExt

CONSTANTS
  UserIds,          \* positive integers
  PageSizes,        \* values of page_size a request may carry
  defaultPageSize,
  maxPageSize

ASSUME PageAssumption ==
  /\ IsFiniteSet(UserIds) /\ UserIds \subseteq Nat \ {0}
  /\ PageSizes \subseteq Int
  /\ maxPageSize \in Nat /\ defaultPageSize \in 1 .. maxPageSize

VARIABLES
  live,       \* ids of the stored users
  token,      \* page_token of the client's next request
  done,       \* the last page came without a token
  \* History of the scan under way:
  seen,       \* ids returned so far
  repeated,   \* some id was returned twice
  stable,     \* ids stored since before its first request
  ever        \* ids stored at some time since then

scanVars == <<live, token, done, seen, repeated, stable, ever>>
-----------------------------------------------------------------------------
(* Tokens: base64 of the id, and the empty token for the empty id. *)

encodePageToken(afterID) == IF afterID = 0 THEN <<>> ELSE <<afterID>>
decodePageTokenIgnored(t) == 0
decodePageToken(t) == IF t = <<>> THEN 0 ELSE t[1]

Size(requested) ==
  IF requested <= 0 THEN defaultPageSize
  ELSE IF requested > maxPageSize THEN maxPageSize ELSE requested

\* The first n of the ids in S, in order.
FirstIds(S, n) == {i \in S : Cardinality({j \in S : j < i}) < n}

Above(afterID) == {i \in live : i > afterID}

\* MemoryRepository.List sorts all ids after afterID and cuts the list.
MemoryListSkips(limit, afterID) ==
  LET ids  == Above(afterID)
      page == FirstIds(ids, limit)
  IN  [users |-> page,
       next  |-> IF Cardinality(ids) > limit THEN Min(ids \ page) ELSE 0]

MemoryList(limit, afterID) ==
  LET ids  == Above(afterID)
      page == FirstIds(ids, limit)
  IN  [users |-> page,
       next  |-> IF Cardinality(ids) > limit THEN Max(page) ELSE 0]

\* PostgresRepository.List asks for one row more and drops it.
PostgresListNoExtraRow(limit, afterID) ==
  [users |-> FirstIds(Above(afterID), limit), next |-> 0]

PostgresList(limit, afterID) ==
  LET rows == FirstIds(Above(afterID), limit + 1)
      more == Cardinality(rows) > limit
      collected == IF more THEN FirstIds(rows, limit) ELSE rows
  IN  [users |-> collected, next |-> IF more THEN Max(collected) ELSE 0]
-----------------------------------------------------------------------------
ScanInit ==
  /\ live \in SUBSET UserIds
  /\ token = <<>>
  /\ done = FALSE
  /\ seen = {}
  /\ repeated = FALSE
  /\ stable = live
  /\ ever = live

\* List refuses a limit that is not positive and the client learns nothing.
ListUsers(requested) ==
  LET limit == Size(requested)
      page  == MemoryList(limit, decodePageToken(token))
  IN  /\ ~done
      /\ limit > 0
      /\ token' = encodePageToken(page.next)
      /\ done' = (token' = <<>>)
      /\ seen' = seen \cup page.users
      /\ repeated' = (repeated \/ page.users \cap seen # {})
      /\ UNCHANGED <<live, stable, ever>>

CreateUser(id) ==
  /\ id \notin live
  /\ live' = live \cup {id}
  /\ ever' = ever \cup {id}
  /\ UNCHANGED <<token, done, seen, repeated, stable>>

DeleteUser(id) ==
  /\ id \in live
  /\ live' = live \ {id}
  /\ stable' = stable \ {id}
  /\ UNCHANGED <<token, done, seen, repeated, ever>>

\* The client starts over.
Restart ==
  /\ done
  /\ token' = <<>>
  /\ done' = FALSE
  /\ seen' = {}
  /\ repeated' = FALSE
  /\ stable' = live
  /\ ever' = live
  /\ UNCHANGED live

ScanNext ==
  \/ \E requested \in PageSizes : ListUsers(requested)
  \/ \E id \in UserIds : CreateUser(id) \/ DeleteUser(id)
  \/ Restart

ScanSpec == ScanInit /\ [][ScanNext]_scanVars

\* The client keeps asking for the next page, whatever the size it asks for.
FairScanSpec == ScanSpec /\ WF_scanVars(\E requested \in PageSizes : ListUsers(requested))
-----------------------------------------------------------------------------
(* Properties *)

\* A finished scan returned every user that was stored all the while, and
\* nobody who never was and nobody twice, however many users came, went and came
\* back between its pages.
ScanComplete == (done => stable \subseteq seen) /\ seen \subseteq ever /\ ~repeated

\* Every scan ends, whatever is created and deleted meanwhile and whichever
\* sizes its requests ask for: each page starts after the one before it.
ScanEnds == []<>done

\* Both backends give the same pages and continuation ids for every request.
BackendsAgree ==
  \A limit \in 1 .. maxPageSize, afterID \in UserIds \cup {0} :
    MemoryList(limit, afterID) = PostgresList(limit, afterID)
=============================================================================
