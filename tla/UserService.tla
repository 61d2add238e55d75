---------------------------- MODULE UserService ----------------------------
(***************************************************************************)
(* The unary handlers of internal/service/user.go over a repository that   *)
(* may fail at any call, with or without effect, or panic.                 *)
(*                                                                         *)
(* A text is "" (absent), "blank", "long" (over maxStringBytes), "text",   *)
(* or "address" (a text that is an email address).  A handler is given the *)
(* stored users and the request, and yields the ways it may end: the error *)
(* it returns ("OK" for nil), whether the repository applied the request,  *)
(* and the users stored then.                                              *)
(***************************************************************************)
EXTENDS Integers, FiniteSets

CONSTANTS
  Ids, MaxUsers, None,
  Names, Emails, Ages     \* the fields requests have

Live(users) == {i \in Ids : users[i] # None}

validateText(v) == v \in {"text", "address"}
validateOptionalText(v) == v = "" \/ validateText(v)
parseEmail(v) == v = "address"
ValidAge(age) == age >= 0 /\ age <= 150

validateUserFields(d) ==
  /\ validateOptionalText(d.name) /\ d.name # ""
  /\ validateOptionalText(d.email) /\ parseEmail(d.email)
  /\ ValidAge(d.age)

UpdateUnparsed(d) ==
  validateOptionalText(d.name) /\ validateOptionalText(d.email) /\ ValidAge(d.age)

\* The checks of UpdateUser: an empty field is one to leave as it is.
UpdateValid(d) ==
  /\ validateOptionalText(d.name)
  /\ validateOptionalText(d.email)
  /\ d.email # "" => parseEmail(d.email)
  /\ ValidAge(d.age)

\* The repository's errors; "other" is any it has no name for: a wrapped
\* Postgres error, ErrCircuitOpen, ErrUnavailable.  The error of a context is
\* passed on as it is.
mapStorageError(err) ==
  CASE err = "nil"              -> "OK"
    [] err = "context"          -> "context"
    [] err = "ErrNotFound"      -> "NotFound"
    [] err = "ErrCapacity"      -> "ResourceExhausted"
    [] err = "ErrAlreadyExists" -> "AlreadyExists"
    [] err = "ErrInvalid"       -> "InvalidArgument"
    [] err = "other"            -> "Unavailable"

\* status.Code does not know the error of a context; gRPC's server does, and a
\* panic is recovered from.
getErrorCode(err) == IF err = "context" THEN "Unknown" ELSE err
WireCode(err) ==
  CASE err = "context" -> "DeadlineExceeded" [] err = "panic" -> "Internal" [] OTHER -> err
-----------------------------------------------------------------------------
Outcomes(errs, applied, users) == {[err |-> e, applied |-> applied, users |-> users] : e \in errs}

\* The repository answers; fails and leaves nothing behind; has applied the
\* request, whether or not it says so.  Having lost the database's answer, it
\* runs the operation again: errs are what that may end with, after what this
\* request and others have done.
Answers(e, users) == Outcomes({mapStorageError(e)}, FALSE, users)
Fails(users) == Outcomes({mapStorageError("context"), mapStorageError("other"), "panic"}, FALSE, users)
Applies(errs, users) ==
  Outcomes({mapStorageError(e) : e \in {"nil", "context", "other"} \cup errs} \cup {"panic"},
           TRUE, users)

\* The request does not pass its checks, or validateContext finds it over.
Refuses(users) == Outcomes({"context", "InvalidArgument"}, FALSE, users)

GetUser(users, d) ==
  IF d.id = None THEN Refuses(users)
  ELSE Fails(users) \cup Answers(IF users[d.id] = None THEN "ErrNotFound" ELSE "nil", users)

\* newID may fail, and draws no id that is in use.  An idempotency key may be
\* malformed, or that of a user there is, who is the answer unless deleted before
\* they are loaded.
CreateUser(users, d) ==
  IF ~validateUserFields(d) THEN Refuses(users)
  ELSE UNION {Fails(users), Outcomes({"InvalidArgument", "Internal"}, FALSE, users),
              IF Live(users) = {} THEN {}
              ELSE Answers("nil", users) \cup Answers("ErrNotFound", users),
              IF Cardinality(Live(users)) >= MaxUsers THEN Answers("ErrCapacity", users)
              ELSE UNION {Applies({"ErrCapacity", "ErrAlreadyExists", "ErrNotFound"},
                                  [users EXCEPT ![id] =
                                     [name |-> d.name, email |-> d.email, age |-> d.age]]) :
                            id \in Ids \ Live(users)}}

\* The function UpdateUser hands to ReadModifyUpdate.
Modify(u, d) ==
  [name  |-> IF d.name # "" THEN d.name ELSE u.name,
   email |-> IF d.email # "" THEN d.email ELSE u.email,
   age   |-> IF d.age # 0 THEN d.age ELSE u.age]

UpdateUser(users, d) ==
  IF d.id = None \/ ~UpdateValid(d) THEN Refuses(users)
  ELSE Fails(users) \cup
       IF users[d.id] = None THEN Answers("ErrNotFound", users)
       ELSE Applies({"ErrNotFound"}, [users EXCEPT ![d.id] = Modify(@, d)])

DeleteUser(users, d) ==
  IF d.id = None THEN Refuses(users)
  ELSE Fails(users) \cup
       IF users[d.id] = None THEN Answers("ErrNotFound", users)
       ELSE Applies({"ErrNotFound"}, [users EXCEPT ![d.id] = None])
-----------------------------------------------------------------------------
\* What CreateUser demands of a user.
ValidUser(u) == validateText(u.name) /\ u.email = "address" /\ ValidAge(u.age)
=============================================================================
