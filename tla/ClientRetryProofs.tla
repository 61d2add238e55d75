-------------------------- MODULE ClientRetryProofs --------------------------
(***************************************************************************)
(* Theorems about ClientRetry for any clients, calls, numbers of attempts, *)
(* refusals and capacity of the repository: what a client may conclude     *)
(* from the codes of its attempts, and when a create is carried out twice. *)
(***************************************************************************)
EXTENDS ClientRetry, TLAPS

CallRecords == [op : Methods, id : Ids \cup {None}, key : Keys \cup {None}, optIn : BOOLEAN,
                max : Nat, attempt : Nat \ {0}, pc : {"invoke", "backoff"}]

Shape ==
  /\ users \in [Ids -> Seq(Calls) \cup {None}] /\ owner \in [Keys -> Ids \cup {None}]
  /\ made \in [Ids -> Requests \cup {None}]
  /\ calls \in [Clients -> Nat]
  /\ flight \subseteq Requests /\ lost \subseteq Requests /\ effect \subseteq Calls \X (Nat \ {0})
  /\ DOMAIN call = Clients /\ DOMAIN answer = Clients
  /\ \A s \in seen : s = <<s[1], s[2]>>
  /\ \A c \in Clients : call[c] # None => call[c] \in CallRecords /\ calls[c] # 0

\* An attempt that has been made.
Past(t) ==
  /\ t[1][2] <= calls[t[1][1]]
  /\ call[t[1][1]] # None /\ t[1][2] = calls[t[1][1]] => t[2] <= call[t[1][1]].attempt

\* The answer to a commit of this attempt was lost, and it was run again.
Lost(t, op) == \E q \in lost : Tag(q) = t /\ q.op = op

\* An attempt is on its way once.  It has had no effect in its first run, and
\* comes to a later one because its effect was lost.
Tags ==
  /\ \A r \in flight : /\ Past(Tag(r))
                       /\ r.run = 1 => Tag(r) \notin effect
                       /\ r.run # 1 => Lost(Tag(r), r.op)
  /\ \A t \in effect : Past(t)
  /\ \A s \in seen : s[1] \in Calls \X (Nat \ {0}) /\ Past(s[1])
  /\ \A r, q \in flight : Tag(r) = Tag(q) => r = q
  /\ \A i \in Ids : made[i] # None => Tag(made[i]) \in effect
  /\ \A i, j \in Ids : made[i] # None /\ made[j] # None /\ Tag(made[i]) = Tag(made[j]) => i = j

\* The requests that still matter, and what those of one call agree on.
Reqs == flight \cup {made[i] : i \in {j \in Ids : made[j] # None}}
Agree ==
  /\ \A r, q \in Reqs : r.by = q.by => r.key = q.key /\ r.optIn = q.optIn
  /\ \A r \in Reqs, c \in Clients :
       call[c] # None /\ r.by = <<c, calls[c]>> =>
         /\ r.op = call[c].op /\ r.id = call[c].id
         /\ r.key = call[c].key /\ r.optIn = call[c].optIn

\* Attempts 1 to n of a call ended with a code that may be retried.
Tried(by, optIn, n) ==
  \A a \in 1 .. n : \E s \in seen : s[1] = <<by, a>> /\ shouldRetry(optIn, s[2])

\* No attempt is made before those before it were given up.
InTurn ==
  /\ \A r \in Reqs : Tried(r.by, r.optIn, r.attempt - 1)
  /\ \A c \in Clients : call[c] # None =>
       Tried(<<c, calls[c]>>, call[c].optIn,
             IF call[c].pc = "backoff" THEN call[c].attempt ELSE call[c].attempt - 1)

\* An attempt that may be refused with ResourceExhausted.
Excused(t) == t \in effect => Lost(t, "CreateUser")

\* ResourceExhausted is only seen of attempts that are over, and had no effect
\* but for a create that was run again.
Spent ==
  \A s \in seen : s[2] = "ResourceExhausted" =>
    Excused(s[1]) /\ \A r \in flight : Tag(r) # s[1]

\* User i was stored anew by the create it was stored by before.
Reborn(i) == \E q \in lost : Tag(q) = Tag(made[i])

\* The result id of the call client c is making stands for what it asked for.
Done(c, id) ==
  /\ call[c].op = "CreateUser" =>
       /\ id \in Ids /\ made[id] # None
       /\ IF call[c].key = None THEN made[id].by = <<c, calls[c]>> ELSE made[id].key = call[c].key
  /\ call[c].op = "UpdateUser" /\ users[call[c].id] # None =>
       \/ \E k \in DOMAIN users[call[c].id] : users[call[c].id][k] = <<c, calls[c]>>
       \/ Reborn(call[c].id)

Answers ==
  \A c \in Clients : answer[c] # None =>
    /\ call[c] # None /\ call[c].pc = "invoke" /\ \A r \in flight : Tag(r) # Current(c)
    /\ answer[c].code = "ResourceExhausted" => Excused(Current(c))
    /\ answer[c].code = "OK" => Current(c) \in effect /\ Done(c, answer[c].id)

\* The keys' owners are users created with that key, and ids are not reused; so
\* is the user a create has found by its key.
Keyed ==
  /\ \A k \in Keys : owner[k] # None => made[owner[k]] # None /\ made[owner[k]].key = k
  /\ \A i \in Ids : users[i] # None =>
       made[i] # None /\ (made[i].key # None => owner[made[i].key] = i)
  /\ \A r \in flight : r.op # "CreateUser" => r.id \in Ids /\ made[r.id] # None
  /\ \A r \in flight : r.found # None =>
       r.key # None /\ made[r.found] # None /\ made[r.found].key = r.key
  /\ \A c \in Clients : call[c] # None /\ call[c].op # "CreateUser" =>
       call[c].id \in Ids /\ made[call[c].id] # None

IInv == Shape /\ Tags /\ Agree /\ InTurn /\ Spent /\ Answers /\ Keyed
-----------------------------------------------------------------------------
(* Helpers *)

\* A request's tag, and what is known of the requests that matter.
LEMMA Tagged ==
  ASSUME IInv, NEW r \in Reqs
  PROVE  /\ r \in Requests /\ r.by \in Calls /\ r.attempt \in Nat \ {0}
         /\ Tag(r) \in Calls \X (Nat \ {0}) /\ Tag(r)[1] = r.by /\ Tag(r)[2] = r.attempt
         /\ Past(Tag(r))
<1>1. CASE r \in flight
  BY <1>1, Zenon DEF IInv, Shape, Tags, Tag, Requests
<1>2. CASE \E i \in Ids : made[i] # None /\ r = made[i]
  BY <1>2 DEF IInv, Shape, Tags, Tag, Requests
<1>. QED  BY <1>1, <1>2, Zenon DEF Reqs

\* The attempt a client is making.
LEMMA CurrentIs ==
  ASSUME IInv, NEW c \in Clients, call[c] # None
  PROVE  /\ call[c] \in CallRecords /\ calls[c] \in Nat \ {0} /\ call[c].attempt \in Nat \ {0}
         /\ <<c, calls[c]>> \in Calls
         /\ Current(c) \in Calls \X (Nat \ {0}) /\ Past(Current(c))
<1>1. call[c] \in CallRecords /\ calls[c] \in Nat \ {0} /\ call[c].attempt \in Nat \ {0}
  BY DEF IInv, Shape, CallRecords
<1>2. <<c, calls[c]>> \in Calls
  BY <1>1, Zenon DEF Calls
<1>. QED  BY <1>1, <1>2 DEF Current, Past
-----------------------------------------------------------------------------
(* The client's steps *)

\* Sending attempt p.attempt of the n-th call of c.
LEMMA InvokeIInv ==
  ASSUME IInv, NEW c \in Clients, NEW n \in Nat \ {0}, NEW p \in CallRecords, NEW q \in Requests,
         q.by = <<c, n>>, q.attempt = p.attempt, q.op = p.op, q.id = p.id, q.key = p.key,
         q.optIn = p.optIn, q.run = 1, q.found = None, p.pc = "invoke",
         p.op # "CreateUser" => p.id \in Ids /\ made[p.id] # None,
         \/ n = calls[c] + 1 /\ call[c] = None /\ p.attempt = 1
         \/ /\ n = calls[c] /\ call[c] # None /\ call[c].pc = "backoff"
            /\ p.attempt = call[c].attempt + 1 /\ p.op = call[c].op /\ p.id = call[c].id
            /\ p.key = call[c].key /\ p.optIn = call[c].optIn,
         call' = [call EXCEPT ![c] = p], flight' = flight \cup {q}, calls' = [calls EXCEPT ![c] = n],
         UNCHANGED <<users, owner, answer, made, effect, lost, seen>>
  PROVE  IInv'
<1>1. /\ call'[c] = p /\ calls'[c] = n /\ calls[c] \in Nat
      /\ \A d \in Clients \ {c} : call'[d] = call[d] /\ calls'[d] = calls[d]
  BY Zenon DEF IInv, Shape
<1>2. p.attempt \in Nat \ {0} /\ <<c, n>> \in Calls /\ Tag(q) = <<<<c, n>>, p.attempt>>
  BY Zenon DEF CallRecords, Calls, Tag
<1>3. call[c] # None => call[c].attempt \in Nat \ {0} /\ calls[c] # 0
  BY CurrentIs
<1>4. ~Past(Tag(q))
  BY <1>1, <1>2, <1>3 DEF Past
<1>5. Past(Tag(q))'
  BY <1>1, <1>2 DEF Past
<1>6. ASSUME NEW t \in Calls \X (Nat \ {0}), Past(t) PROVE Past(t)'
  <2>1. t[1] \in Calls /\ t[2] \in Nat /\ t[1][1] \in Clients /\ t[1][2] \in Nat
    BY Zenon DEF Calls
  <2>2. CASE t[1][1] = c
    BY <1>1, <1>3, <1>6, <2>1, <2>2, <1>2 DEF Past
  <2>3. CASE t[1][1] # c
    BY <1>1, <1>6, <2>1, <2>3, Zenon DEF Past
  <2>. QED  BY <2>2, <2>3, Zenon
<1>7. Reqs' = Reqs \cup {q}
  BY Zenon DEF Reqs
<1>8. Shape'
  BY <1>1 DEF IInv, Shape
<1>9. Tags'
  <2>1. \A r \in flight : Tag(r) \in Calls \X (Nat \ {0}) /\ Past(Tag(r)) /\ Tag(r) # Tag(q)
    BY <1>4, Tagged, Zenon DEF Reqs
  <2>2. Tag(q) \notin effect
    BY <1>4, Zenon DEF IInv, Tags
  <2>3. ASSUME NEW x \in flight'
        PROVE  /\ Past(Tag(x))'
               /\ x.run = 1 => Tag(x) \notin effect'
               /\ x.run # 1 => Lost(Tag(x), x.op)'
    <3>1. \A t, op : Lost(t, op) => Lost(t, op)'
      BY Zenon DEF Lost, Tag
    <3>. QED  BY <1>5, <1>6, <2>1, <2>2, <2>3, <3>1, Zenon DEF IInv, Tags
  <2>4. \A t \in effect' : Past(t)'
    BY <1>6, Zenon DEF IInv, Tags, Shape
  <2>5. \A x \in seen' : x[1] \in Calls \X (Nat \ {0}) /\ Past(x[1])'
    BY <1>6, Zenon DEF IInv, Tags
  <2>6. \A r, x \in flight' : Tag(r) = Tag(x) => r = x
    BY <2>1 DEF IInv, Tags
  <2>7. /\ \A i \in Ids : made'[i] # None => Tag(made'[i]) \in effect'
        /\ \A i, j \in Ids : made'[i] # None /\ made'[j] # None /\ Tag(made'[i]) = Tag(made'[j]) => i = j
    BY Zenon DEF IInv, Tags
  <2>. QED  BY <2>3, <2>4, <2>5, <2>6, <2>7, Zenon DEF Tags, Tag
<1>10. \A r \in Reqs : r.by = <<c, n>> =>
         /\ call[c] # None /\ r.op = p.op /\ r.id = p.id /\ r.key = p.key /\ r.optIn = p.optIn
  <2>. SUFFICES ASSUME NEW r \in Reqs, r.by = <<c, n>>
                PROVE  call[c] # None /\ r.op = p.op /\ r.id = p.id /\ r.key = p.key /\ r.optIn = p.optIn
    BY Zenon
  <2>1. n <= calls[c]
    BY Tagged DEF Past
  <2>2. n = calls[c] /\ call[c] # None
    BY <1>1, <2>1
  <2>. QED  BY <1>1, <2>2 DEF IInv, Agree
<1>11. Agree'
  <2>1. \A r, x \in Reqs' : r.by = x.by => r.key = x.key /\ r.optIn = x.optIn
    BY <1>7, <1>10 DEF IInv, Agree
  <2>2. ASSUME NEW r \in Reqs', NEW d \in Clients, call'[d] # None, r.by = <<d, calls'[d]>>
        PROVE  /\ r.op = call'[d].op /\ r.id = call'[d].id
               /\ r.key = call'[d].key /\ r.optIn = call'[d].optIn
    <3>1. CASE d = c
      BY <1>1, <1>7, <1>10, <2>2, <3>1
    <3>2. CASE d # c
      <4>1. r \in Reqs
        BY <1>7, <2>2, <3>2
      <4>. QED  BY <1>1, <2>2, <3>2, <4>1 DEF IInv, Agree
    <3>. QED  BY <3>1, <3>2, Zenon
  <2>. QED  BY <2>1, <2>2, Zenon DEF Agree
<1>12. InTurn'
  <2>1. \A by, optIn, m : Tried(by, optIn, m) => Tried(by, optIn, m)'
    BY Zenon DEF Tried
  <2>2. Tried(<<c, n>>, p.optIn, p.attempt - 1)
    <3>1. CASE p.attempt = 1
      BY <3>1 DEF Tried
    <3>2. CASE p.attempt # 1
      <4>1. n = calls[c] /\ call[c] # None /\ call[c].pc = "backoff" /\ p.optIn = call[c].optIn
            /\ p.attempt - 1 = call[c].attempt
        BY <1>3, <3>2
      <4>. QED  BY <4>1, Zenon DEF IInv, InTurn
    <3>. QED  BY <3>1, <3>2, Zenon
  <2>3. \A r \in Reqs' : Tried(r.by, r.optIn, r.attempt - 1)'
    BY <1>7, <2>1, <2>2, Zenon DEF IInv, InTurn
  <2>4. ASSUME NEW d \in Clients, call'[d] # None
        PROVE  Tried(<<d, calls[d]>>, call[d].optIn,
                     IF call[d].pc = "backoff" THEN call[d].attempt ELSE call[d].attempt - 1)'
    <3>1. CASE d = c
      BY <1>1, <2>1, <2>2, <3>1
    <3>2. CASE d # c
      BY <1>1, <2>1, <2>4, <3>2 DEF IInv, InTurn
    <3>. QED  BY <3>1, <3>2, Zenon
  <2>. QED  BY <2>3, <2>4, Zenon DEF InTurn
<1>13. Spent'
  <2>1. \A x \in seen : x[1] # Tag(q)
    BY <1>4, Zenon DEF IInv, Tags
  <2>. QED  BY <2>1, Zenon DEF IInv, Spent, Excused, Lost, Tag
<1>14. Answers'
  <2>1. ASSUME NEW d \in Clients, answer[d] # None
        PROVE  /\ call'[d] = call[d] /\ calls'[d] = calls[d]
               /\ Tag(q) # Current(d)
    <3>1. call[d] # None /\ call[d].pc = "invoke"
      BY <2>1, Zenon DEF IInv, Answers
    <3>2. d # c
      BY <3>1, Zenon
    <3>3. Past(Current(d))
      BY <3>1, CurrentIs, Zenon
    <3>. QED  BY <1>1, <1>4, <3>2, <3>3, Zenon
  <2>2. ASSUME NEW d \in Clients, answer[d] # None
        PROVE  /\ Current(d)' = Current(d)
               /\ Done(d, answer[d].id) => Done(d, answer[d].id)'
    <3>1. call'[d] = call[d] /\ calls'[d] = calls[d]
      BY <2>1, <2>2
    <3>2. Current(d)' = Current(d)
      BY <3>1 DEF Current
    <3>3. Done(d, answer[d].id) => Done(d, answer[d].id)'
      BY <3>1 DEF Done, Reborn, Tag
    <3>. QED  BY <3>2, <3>3
  <2>3. \A r : Tag(r)' = Tag(r)
    BY Zenon DEF Tag
  <2>4. \A t : Excused(t) => Excused(t)'
    BY Zenon DEF Excused, Lost, Tag
  <2>. QED  BY <2>1, <2>2, <2>3, <2>4 DEF IInv, Answers
<1>15. Keyed'
  BY <1>1 DEF IInv, Keyed
<1>. QED  BY <1>8, <1>9, <1>11, <1>12, <1>13, <1>14, <1>15, Zenon DEF IInv

\* A loop that is never entered only counts as a call.
LEMMA NoAttemptIInv ==
  ASSUME IInv, NEW c \in Clients, call[c] = None,
         calls' = [calls EXCEPT ![c] = calls[c] + 1],
         UNCHANGED <<users, owner, call, flight, answer, made, effect, lost, seen>>
  PROVE  IInv'
<1>1. /\ calls[c] \in Nat /\ calls'[c] = calls[c] + 1
      /\ \A d \in Clients : call[d] # None => calls'[d] = calls[d]
  BY RetryAssumption DEF IInv, Shape
<1>2. Shape'
  BY <1>1, RetryAssumption DEF IInv, Shape
<1>3. ASSUME NEW t \in Calls \X (Nat \ {0}), Past(t) PROVE Past(t)'
  <2>1. t[1][1] \in Clients /\ t[1][2] \in Nat
    BY Zenon DEF Calls
  <2>2. calls[t[1][1]] \in Nat /\ calls'[t[1][1]] \in {calls[t[1][1]], calls[t[1][1]] + 1}
    BY <2>1, RetryAssumption DEF IInv, Shape
  <2>. QED  BY <1>1, <1>3, <2>1, <2>2 DEF Past
<1>4. Tags'
  <2>1. \A r \in flight : Past(Tag(r))'
    BY <1>3, Tagged, Zenon DEF Reqs
  <2>2. \A t \in effect : Past(t)'
    BY <1>3, Zenon DEF IInv, Tags, Shape
  <2>3. \A x \in seen : Past(x[1])'
    BY <1>3, Zenon DEF IInv, Tags
  <2>. QED  BY <2>1, <2>2, <2>3, Zenon DEF IInv, Tags, Lost, Tag
<1>5. Reqs' = Reqs
  BY Zenon DEF Reqs
<1>6. Agree'
  BY <1>1, <1>5 DEF IInv, Agree
<1>7. InTurn'
  <2>1. \A by, optIn, m : Tried(by, optIn, m)' <=> Tried(by, optIn, m)
    BY Zenon DEF Tried
  <2>2. \A r \in Reqs' : Tried(r.by, r.optIn, r.attempt - 1)'
    BY <1>5, <2>1, Zenon DEF IInv, InTurn
  <2>3. ASSUME NEW d \in Clients, call'[d] # None
        PROVE  Tried(<<d, calls[d]>>, call[d].optIn,
                     IF call[d].pc = "backoff" THEN call[d].attempt ELSE call[d].attempt - 1)'
    BY <1>1, <2>1, <2>3, Zenon DEF IInv, InTurn
  <2>. QED  BY <2>2, <2>3, Zenon DEF InTurn
<1>8. Spent'
  BY Zenon DEF IInv, Spent, Excused, Lost, Tag
<1>9. Answers'
  <2>1. ASSUME NEW d \in Clients, answer[d] # None
        PROVE  /\ Current(d)' = Current(d)
               /\ Done(d, answer[d].id) => Done(d, answer[d].id)'
    <3>1. calls'[d] = calls[d]
      BY <1>1, <2>1, Zenon DEF IInv, Answers
    <3>. QED  BY <3>1, Zenon DEF Current, Done, Reborn, Tag
  <2>2. \A r : Tag(r)' = Tag(r)
    BY Zenon DEF Tag
  <2>3. \A t : Excused(t) => Excused(t)'
    BY Zenon DEF Excused, Lost, Tag
  <2>. QED  BY <2>1, <2>2, <2>3, Zenon DEF IInv, Answers
<1>10. Keyed'
  BY Zenon DEF IInv, Keyed
<1>. QED  BY <1>2, <1>4, <1>6, <1>7, <1>8, <1>9, <1>10, Zenon DEF IInv

\* The attempt of client c has ended as S says (or there is none), and its call
\* is over, or waits for the next attempt.
LEMMA ResultIInv ==
  ASSUME IInv, NEW c \in Clients, call[c] # None, NEW S, NEW p,
         \A x \in S : /\ x = <<x[1], x[2]>> /\ x[1] = Current(c)
                      /\ x[2] = "ResourceExhausted" =>
                           Excused(Current(c)) /\ \A r \in flight : Tag(r) # Current(c),
         \/ p = None
         \/ /\ p \in CallRecords /\ p.attempt = call[c].attempt /\ p.op = call[c].op
            /\ p.id = call[c].id /\ p.key = call[c].key /\ p.optIn = call[c].optIn
            /\ call[c].pc = "invoke"
            /\ \E x \in S : shouldRetry(p.optIn, x[2]),
         call' = [call EXCEPT ![c] = p], answer' = [answer EXCEPT ![c] = None], seen' = seen \cup S,
         UNCHANGED <<users, owner, flight, calls, made, effect, lost>>
  PROVE  IInv'
<1>1. /\ call'[c] = p /\ answer'[c] = None
      /\ \A d \in Clients \ {c} : call'[d] = call[d] /\ answer'[d] = answer[d]
  BY Zenon DEF IInv, Shape
<1>2. p # None => p \in CallRecords /\ p.attempt = call[c].attempt
  BY Zenon
<1>3. Shape'
  BY <1>1, <1>2, CurrentIs DEF IInv, Shape
<1>4. ASSUME NEW t \in Calls \X (Nat \ {0}), Past(t) PROVE Past(t)'
  <2>1. t[1][1] \in Clients
    BY Zenon DEF Calls
  <2>. QED  BY <1>1, <1>2, <1>4, <2>1 DEF Past
<1>5. Tags'
  <2>1. \A r \in flight : Past(Tag(r))'
    BY <1>4, Tagged, Zenon DEF Reqs
  <2>2. \A t \in effect : Past(t)'
    BY <1>4, Zenon DEF IInv, Tags, Shape
  <2>3. PICK t : t = Current(c)
    BY Zenon
  <2>4. t \in Calls \X (Nat \ {0}) /\ Past(t)'
    BY <1>4, <2>3, CurrentIs, Zenon
  <2>5. \A x \in seen : x[1] \in Calls \X (Nat \ {0}) /\ Past(x[1])'
    BY <1>4, Zenon DEF IInv, Tags
  <2>6. \A x \in seen' : x[1] \in Calls \X (Nat \ {0}) /\ Past(x[1])'
    BY <2>3, <2>4, <2>5, Zenon
  <2>. QED  BY <2>1, <2>2, <2>6 DEF IInv, Tags, Lost, Tag
<1>6. Reqs' = Reqs
  BY Zenon DEF Reqs
<1>7. Agree'
  <2>1. \A r, x \in Reqs' : r.by = x.by => r.key = x.key /\ r.optIn = x.optIn
    BY <1>6, Zenon DEF IInv, Agree
  <2>2. ASSUME NEW r \in Reqs', NEW d \in Clients, call'[d] # None, r.by = <<d, calls'[d]>>
        PROVE  /\ r.op = call'[d].op /\ r.id = call'[d].id
               /\ r.key = call'[d].key /\ r.optIn = call'[d].optIn
    <3>1. CASE d = c
      BY <1>1, <1>6, <2>2, <3>1 DEF IInv, Agree
    <3>2. CASE d # c
      BY <1>1, <1>6, <2>2, <3>2 DEF IInv, Agree
    <3>. QED  BY <3>1, <3>2, Zenon
  <2>. QED  BY <2>1, <2>2, Zenon DEF Agree
<1>8. InTurn'
  <2>1. \A by, optIn, m : Tried(by, optIn, m) => Tried(by, optIn, m)'
    BY Zenon DEF Tried
  <2>2. \A r \in Reqs' : Tried(r.by, r.optIn, r.attempt - 1)'
    BY <1>6, <2>1, Zenon DEF IInv, InTurn
  <2>3. ASSUME NEW d \in Clients, call'[d] # None
        PROVE  Tried(<<d, calls[d]>>, call[d].optIn,
                     IF call[d].pc = "backoff" THEN call[d].attempt ELSE call[d].attempt - 1)'
    <3>1. CASE d = c
      <4>1. p # None /\ call[c].pc = "invoke"
        BY <1>1, <2>3, <3>1, Zenon
      <4>2. Tried(<<c, calls[c]>>, p.optIn, p.attempt - 1)'
        BY <2>1, <4>1, Zenon DEF IInv, InTurn
      <4>3. \E x \in seen' : x[1] = <<<<c, calls[c]>>, p.attempt>> /\ shouldRetry(p.optIn, x[2])
        BY <4>1, Zenon DEF Current
      <4>4. p.attempt \in Nat \ {0}
        BY <1>2, <4>1, CurrentIs, Zenon
      <4>5. Tried(<<c, calls[c]>>, p.optIn, p.attempt)'
        <5>1. ASSUME NEW a \in 1 .. p.attempt
              PROVE  \E x \in seen' : x[1] = <<<<c, calls'[c]>>, a>> /\ shouldRetry(p.optIn, x[2])
          <6>1. CASE a = p.attempt
            BY <4>3, <6>1, Zenon
          <6>2. CASE a # p.attempt
            <7>1. a \in 1 .. p.attempt - 1
              BY <4>4, <6>2
            <7>. QED  BY <4>2, <7>1, Zenon DEF Tried
          <6>. QED  BY <6>1, <6>2, Zenon
        <5>. QED  BY <5>1, Zenon DEF Tried
      <4>. QED  BY <1>1, <3>1, <4>2, <4>5, Zenon
    <3>2. CASE d # c
      BY <1>1, <2>1, <2>3, <3>2 DEF IInv, InTurn
    <3>. QED  BY <3>1, <3>2, Zenon
  <2>. QED  BY <2>2, <2>3, Zenon DEF InTurn
<1>9. Spent'
  BY Zenon DEF IInv, Spent, Excused, Lost, Tag
<1>10. Answers'
  <2>1. ASSUME NEW d \in Clients, answer'[d] # None
        PROVE  /\ answer'[d] = answer[d] /\ call'[d] = call[d] /\ Current(d)' = Current(d)
               /\ Done(d, answer[d].id) => Done(d, answer[d].id)'
    <3>1. answer'[d] = answer[d] /\ call'[d] = call[d]
      BY <1>1, <2>1, Zenon
    <3>. QED  BY <3>1, Zenon DEF Current, Done, Reborn, Tag
  <2>2. \A r : Tag(r)' = Tag(r)
    BY Zenon DEF Tag
  <2>3. \A t : Excused(t) => Excused(t)'
    BY Zenon DEF Excused, Lost, Tag
  <2>. QED  BY <2>1, <2>2, <2>3 DEF IInv, Answers
<1>11. Keyed'
  BY <1>1 DEF IInv, Keyed
<1>. QED  BY <1>3, <1>5, <1>7, <1>8, <1>9, <1>10, <1>11 DEF IInv
-----------------------------------------------------------------------------
(* The server's steps *)

\* What serving r may do to the repository: it changes no other request's user
\* but by adding to it, or stores anew the user of a request that was run again.
Stored(r) ==
  /\ users' \in [Ids -> Seq(Calls) \cup {None}] /\ owner' \in [Keys -> Ids \cup {None}]
  /\ \/ made' = made
     \/ /\ Tag(r) \in effect' /\ Own(r) = {}
        /\ \E i \in Ids : made[i] = None /\ made' = [made EXCEPT ![i] = r]
  /\ \A i \in Ids : users'[i] # None /\ made[i] # None =>
       \/ /\ users[i] # None
          /\ \A k \in DOMAIN users[i] : k \in DOMAIN users'[i] /\ users'[i][k] = users[i][k]
       \/ Reborn(i)'

\* id is the result the request asks for.
Fitting(r, id) ==
  /\ r.op = "CreateUser" =>
       /\ id \in Ids /\ made'[id] # None
       /\ IF r.key = None THEN made'[id].by = r.by ELSE made'[id].key = r.key
  /\ r.op = "UpdateUser" /\ users'[r.id] # None =>
       \E k \in DOMAIN users'[r.id] : users'[r.id][k] = r.by

\* x is request r, further on.
Same(x, r) ==
  /\ x.by = r.by /\ x.attempt = r.attempt /\ x.op = r.op /\ x.id = r.id
  /\ x.key = r.key /\ x.optIn = r.optIn

\* The server may go on with x.
Resumes(x, r) ==
  /\ x \in Requests /\ Same(x, r)
  /\ x.run = 1 => Tag(r) \notin effect'
  /\ x.run # 1 => Lost(Tag(r), r.op)'
  /\ x.found # None => x.key # None /\ made'[x.found] # None /\ made'[x.found].key = x.key

\* Keyed, of what is stored.
KeysOwn ==
  /\ \A k \in Keys : owner[k] # None => made[owner[k]] # None /\ made[owner[k]].key = k
  /\ \A i \in Ids : users[i] # None =>
       made[i] # None /\ (made[i].key # None => owner[made[i].key] = i)

\* Request r is answered, or the server goes on with the one of N.
LEMMA ServedIInv ==
  ASSUME IInv, NEW r \in flight, NEW code, NEW id, NEW N,
         \A x \in N : Resumes(x, r) /\ \A y \in N : x = y,
         \/ N = {} /\ Answer(r, code, id)
         \/ answer' = answer /\ flight' = (flight \ {r}) \cup N,
         lost \subseteq lost', lost' \subseteq Requests,
         effect' = effect \/ effect' = effect \cup {Tag(r)},
         code = "OK" => Tag(r) \in effect' /\ Fitting(r, id),
         code = "ResourceExhausted" => Excused(Tag(r))',
         Stored(r), KeysOwn', UNCHANGED <<call, calls, seen>>
  PROVE  IInv'
<1>1. /\ r \in Requests /\ r # None /\ r.by \in Calls /\ Tag(r) \in Calls \X (Nat \ {0})
      /\ Past(Tag(r)) /\ r \in Reqs
      /\ \A x \in flight \ {r} : Tag(x) # Tag(r)
  BY Tagged, RequestAssumption, Zenon DEF Reqs, IInv, Tags
<1>2. \A t : Past(t)' <=> Past(t)
  BY Zenon DEF Past
<1>3. effect \subseteq effect' /\ effect' \subseteq effect \cup {Tag(r)}
  BY Zenon
<1>4. ASSUME NEW i \in Ids
      PROVE  /\ made[i] # None => made'[i] = made[i]
             /\ made'[i] # made[i] => made'[i] = r /\ Tag(r) \in effect'
  BY Zenon DEF Stored, IInv, Shape
<1>5. made' \in [Ids -> Requests \cup {None}]
  BY <1>1 DEF Stored, IInv, Shape
<1>6. /\ flight' = (flight \ {r}) \cup N
      /\ \A x \in N : x \in Requests /\ Tag(x) = Tag(r)
  BY Zenon DEF Answer, Resumes, Same, Tag
<1>7. \A t, op : Lost(t, op) => Lost(t, op)'
  BY Zenon DEF Lost, Tag
<1>8. \A t : t # Tag(r) /\ Excused(t) => Excused(t)'
  BY <1>3, <1>7, Zenon DEF Excused
<1>9. Shape'
  <2>1. DOMAIN answer' = Clients
    BY Zenon DEF Answer, IInv, Shape
  <2>2. effect' \subseteq Calls \X (Nat \ {0})
    BY <1>1, <1>3, Zenon DEF IInv, Shape
  <2>3. flight' \subseteq Requests
    BY <1>6, Zenon DEF IInv, Shape
  <2>. QED  BY <1>5, <2>1, <2>2, <2>3, Zenon DEF IInv, Shape, Stored
<1>10. Tags'
  <2>1. ASSUME NEW x \in flight'
        PROVE  /\ Past(Tag(x))'
               /\ x.run = 1 => Tag(x) \notin effect'
               /\ x.run # 1 => Lost(Tag(x), x.op)'
    <3>1. CASE x \in N
      <4>1. /\ Tag(x) = Tag(r) /\ x.op = r.op /\ (x.run = 1 => Tag(r) \notin effect')
            /\ (x.run # 1 => Lost(Tag(r), r.op)')
        BY <1>6, <3>1, Zenon DEF Resumes, Same
      <4>2. Past(Tag(x))'
        BY <1>1, <1>2, <4>1, Zenon DEF Tag
      <4>. QED  BY <4>1, <4>2, Zenon DEF Lost
    <3>2. CASE x \in flight \ {r}
      <4>1. /\ Past(Tag(x)) /\ (x.run = 1 => Tag(x) \notin effect)
            /\ (x.run # 1 => Lost(Tag(x), x.op))
        BY <3>2, Zenon DEF IInv, Tags
      <4>2. Past(Tag(x))'
        BY <1>2, <4>1, Zenon DEF Tag
      <4>3. Tag(x) # Tag(r)
        BY <1>1, <3>2, Zenon
      <4>4. x.run # 1 => Lost(Tag(x), x.op)'
        BY <4>1, Zenon DEF Lost, Tag
      <4>. QED  BY <1>3, <4>1, <4>2, <4>3, <4>4, Zenon
    <3>. QED  BY <1>6, <2>1, <3>1, <3>2, Zenon
  <2>2. \A t \in effect' : Past(t)'
    BY <1>1, <1>2, <1>3, Zenon DEF IInv, Tags
  <2>3. \A x \in seen' : x[1] \in Calls \X (Nat \ {0}) /\ Past(x[1])'
    BY <1>2, Zenon DEF IInv, Tags
  <2>4. \A i \in Ids : made'[i] # None => Tag(made'[i]) \in effect'
    BY <1>3, <1>4, Zenon DEF IInv, Tags
  <2>5. ASSUME NEW i \in Ids, NEW j \in Ids, made'[i] # None, made'[j] # None,
               Tag(made'[i]) = Tag(made'[j])
        PROVE  i = j
    <3>1. CASE made' = made
      BY <2>5, <3>1, Zenon DEF IInv, Tags
    <3>2. CASE Own(r) = {} /\ \E h \in Ids : made[h] = None /\ made' = [made EXCEPT ![h] = r]
      <4>1. \A h \in Ids : made[h] # None => Tag(made[h]) # Tag(r)
        BY <3>2, Zenon DEF Own
      <4>2. PICK h \in Ids : made[h] = None /\ made' = [made EXCEPT ![h] = r]
        BY <3>2, Zenon
      <4>3. made'[h] = r /\ \A g \in Ids \ {h} : made'[g] = made[g]
        BY <4>2, Zenon DEF IInv, Shape
      <4>4. CASE i = h
        BY <2>5, <4>1, <4>3, <4>4, Zenon
      <4>5. CASE j = h
        BY <2>5, <4>1, <4>3, <4>5, Zenon
      <4>6. CASE i # h /\ j # h
        BY <2>5, <4>3, <4>6, Zenon DEF IInv, Tags
      <4>. QED  BY <4>4, <4>5, <4>6, Zenon
    <3>. QED  BY <3>1, <3>2, Zenon DEF Stored
  <2>6. \A x, y \in flight' : Tag(x) = Tag(y) => x = y
    BY <1>1, <1>6, Zenon DEF IInv, Tags
  <2>. QED  BY <2>1, <2>2, <2>3, <2>4, <2>5, <2>6, Zenon DEF Tags, Tag
<1>11. ASSUME NEW x \in Reqs' PROVE \E y \in Reqs : Same(x, y)
  <2>1. x \in Reqs \/ x \in N
    BY <1>4, <1>6, Zenon DEF Reqs
  <2>2. x \in Reqs => Same(x, x)
    BY Zenon DEF Same
  <2>. QED  BY <1>1, <2>1, <2>2, Zenon DEF Resumes
<1>12. Agree'
  <2>1. ASSUME NEW x \in Reqs', NEW y \in Reqs', x.by = y.by
        PROVE  x.key = y.key /\ x.optIn = y.optIn
    <3>1. PICK u \in Reqs : Same(x, u)
      BY <1>11, Zenon
    <3>2. PICK v \in Reqs : Same(y, v)
      BY <1>11, Zenon
    <3>3. u.by = v.by
      BY <2>1, <3>1, <3>2, Zenon DEF Same
    <3>4. u.key = v.key /\ u.optIn = v.optIn
      BY <3>3, Zenon DEF IInv, Agree
    <3>. QED  BY <3>1, <3>2, <3>4, Zenon DEF Same
  <2>2. ASSUME NEW x \in Reqs', NEW d \in Clients, call'[d] # None, x.by = <<d, calls'[d]>>
        PROVE  /\ x.op = call'[d].op /\ x.id = call'[d].id
               /\ x.key = call'[d].key /\ x.optIn = call'[d].optIn
    <3>1. PICK u \in Reqs : Same(x, u)
      BY <1>11, Zenon
    <3>2. u.by = <<d, calls[d]>> /\ call[d] # None /\ call'[d] = call[d]
      BY <2>2, <3>1, Zenon DEF Same
    <3>3. /\ u.op = call[d].op /\ u.id = call[d].id
          /\ u.key = call[d].key /\ u.optIn = call[d].optIn
      BY <3>2, Zenon DEF IInv, Agree
    <3>. QED  BY <3>1, <3>2, <3>3, Zenon DEF Same
  <2>. QED  BY <2>1, <2>2, Zenon DEF Agree
<1>13. InTurn'
  <2>1. \A by, optIn, m : Tried(by, optIn, m)' <=> Tried(by, optIn, m)
    BY Zenon DEF Tried
  <2>2. ASSUME NEW x \in Reqs' PROVE Tried(x.by, x.optIn, x.attempt - 1)'
    <3>1. PICK u \in Reqs : Same(x, u)
      BY <1>11, Zenon
    <3>2. Tried(u.by, u.optIn, u.attempt - 1)
      BY Zenon DEF IInv, InTurn
    <3>3. Tried(x.by, x.optIn, x.attempt - 1)
      BY <3>1, <3>2, Zenon DEF Same
    <3>. QED  BY <2>1, <3>3, Zenon
  <2>3. ASSUME NEW d \in Clients, call'[d] # None
        PROVE  Tried(<<d, calls[d]>>, call[d].optIn,
                     IF call[d].pc = "backoff" THEN call[d].attempt ELSE call[d].attempt - 1)'
    BY <2>1, <2>3, Zenon DEF IInv, InTurn
  <2>. QED  BY <2>2, <2>3, Zenon DEF InTurn
<1>14. Spent'
  <2>. SUFFICES ASSUME NEW s \in seen, s[2] = "ResourceExhausted"
                PROVE  Excused(s[1])' /\ \A x \in flight' : Tag(x) # s[1]
    BY Zenon DEF Spent, Excused, Lost, Tag
  <2>1. Excused(s[1]) /\ \A x \in flight : Tag(x) # s[1]
    BY Zenon DEF IInv, Spent
  <2>. QED  BY <1>6, <1>8, <2>1, Zenon
<1>15. Answers'
  <2>. SUFFICES ASSUME NEW c \in Clients, answer'[c] # None
                PROVE  /\ At(c, "invoke") /\ \A x \in flight' : Tag(x) # Current(c)
                       /\ answer'[c].code = "ResourceExhausted" => Excused(Current(c))'
                       /\ answer'[c].code = "OK" => Current(c) \in effect' /\ Done(c, answer[c].id)'
    BY Zenon DEF Answers, At, Current, Tag
  <2>0. Current(c)' = Current(c)
    BY Zenon DEF Current
  <2>1. CASE N = {} /\ Answer(r, code, id) /\ c = r.by[1] /\ At(c, "invoke") /\ Current(c) = Tag(r)
    <3>1. answer'[c] = [code |-> code, id |-> id]
      BY <2>1, Zenon DEF Answer, IInv, Shape
    <3>2. code = "ResourceExhausted" => Excused(Current(c))'
      BY <2>0, <2>1, Zenon DEF Excused, Lost, Tag
    <3>3. code = "OK" => Current(c) \in effect'
      BY <2>1, Zenon
    <3>4. r.by = <<c, calls[c]>> /\ call[c] # None
      BY <2>1, Zenon DEF At, Current, Tag
    <3>5. call[c].op = r.op /\ call[c].id = r.id /\ call[c].key = r.key
      BY <3>4, Zenon DEF IInv, Agree, Reqs
    <3>6. code = "OK" => Done(c, answer[c].id)'
      BY <3>1, <3>4, <3>5 DEF Done, Fitting
    <3>7. \A x \in flight' : Tag(x) # Current(c)
      BY <1>1, <1>6, <2>1, Zenon
    <3>. QED  BY <2>1, <3>1, <3>2, <3>3, <3>6, <3>7
  <2>2. CASE answer'[c] = answer[c]
    <3>1. /\ At(c, "invoke") /\ \A x \in flight : Tag(x) # Current(c)
          /\ answer[c].code = "ResourceExhausted" => Excused(Current(c))
          /\ answer[c].code = "OK" => Current(c) \in effect /\ Done(c, answer[c].id)
      BY <2>2, Zenon DEF IInv, Answers, At
    <3>2. \A x \in flight' : Tag(x) # Current(c)
      BY <1>6, <3>1, Zenon
    <3>3. Excused(Current(c)) => Excused(Current(c))'
      BY <1>3, <2>0, <3>1, Zenon DEF Excused, Lost, Tag
    <3>4. ASSUME Done(c, answer[c].id) PROVE Done(c, answer[c].id)'
      <4>1. call[c] # None
        BY <3>1, Zenon DEF At
      <4>2. call[c].op = "CreateUser" => made'[answer[c].id] = made[answer[c].id]
        BY <1>4, <3>4, Zenon DEF Done
      <4>3. call[c].op = "UpdateUser" => call[c].id \in Ids /\ made[call[c].id] # None
        BY <4>1, Zenon DEF IInv, Keyed
      <4>4. ASSUME call[c].op = "UpdateUser", users'[call[c].id] # None
            PROVE  \/ \E k \in DOMAIN users'[call[c].id] : users'[call[c].id][k] = <<c, calls[c]>>
                   \/ Reborn(call[c].id)'
        <5>1. PICK i \in Ids : i = call[c].id /\ made[i] # None /\ made'[i] = made[i]
          BY <1>4, <4>3, <4>4, Zenon
        <5>2. Reborn(i) => Reborn(i)'
          BY <5>1, Zenon DEF Reborn, Tag
        <5>3. CASE Reborn(i)'
          BY <5>1, <5>3, Zenon DEF Reborn
        <5>4. CASE /\ users[i] # None
                   /\ \A k \in DOMAIN users[i] : k \in DOMAIN users'[i] /\ users'[i][k] = users[i][k]
          BY <3>4, <4>4, <5>1, <5>2, <5>3, <5>4, Zenon DEF Done
        <5>. QED  BY <4>4, <5>1, <5>3, <5>4, Zenon DEF Stored
      <4>. QED  BY <2>2, <3>4, <4>2, <4>4, Zenon DEF Done
    <3>. QED  BY <1>3, <2>2, <3>1, <3>2, <3>3, <3>4, Zenon
  <2>3. answer'[c] = answer[c]
          \/ (N = {} /\ Answer(r, code, id) /\ c = r.by[1] /\ At(c, "invoke") /\ Current(c) = Tag(r))
    BY Zenon DEF Answer, IInv, Shape
  <2>. QED  BY <2>1, <2>2, <2>3, Zenon
<1>16. Keyed'
  <2>1. \A x \in flight' : x.op # "CreateUser" => x.id \in Ids /\ made'[x.id] # None
    <3>1. \A x \in flight : x.op # "CreateUser" => x.id \in Ids /\ made'[x.id] # None
      BY <1>4, Zenon DEF IInv, Keyed
    <3>2. \A x \in N : x.op = r.op /\ x.id = r.id
      BY Zenon DEF Resumes, Same
    <3>. QED  BY <1>6, <3>1, <3>2, Zenon
  <2>2. ASSUME NEW x \in flight', x.found # None
        PROVE  x.key # None /\ made'[x.found] # None /\ made'[x.found].key = x.key
    <3>1. CASE x \in N
      BY <2>2, <3>1, Zenon DEF Resumes
    <3>2. CASE x \in flight
      <4>1. x.found \in Ids
        BY <2>2, <3>2, Zenon DEF IInv, Shape, Requests
      <4>. QED  BY <1>4, <2>2, <3>2, <4>1, Zenon DEF IInv, Keyed
    <3>. QED  BY <1>6, <2>2, <3>1, <3>2, Zenon
  <2>3. \A c \in Clients : call'[c] # None /\ call'[c].op # "CreateUser" =>
          call'[c].id \in Ids /\ made'[call'[c].id] # None
    BY <1>4, Zenon DEF IInv, Keyed
  <2>. QED  BY <2>1, <2>2, <2>3, Zenon DEF Keyed, KeysOwn
<1>. QED  BY <1>9, <1>10, <1>12, <1>13, <1>14, <1>15, <1>16, Zenon DEF IInv

\* What the provers need of the codes.
LEMMA Codes ==
  /\ mapStorageError("nil") = "OK" /\ mapStorageError("context") = "DeadlineExceeded"
  /\ mapStorageError("other") = "Unavailable" /\ mapStorageError("ErrNotFound") = "NotFound"
  /\ mapStorageError("ErrAlreadyExists") = "AlreadyExists"
  /\ mapStorageError("ErrCapacity") = "ResourceExhausted"
BY Zenon DEF mapStorageError

\* A request that was carried out, whether it is answered or run again.
LEMMA CommittedIInv ==
  ASSUME IInv, NEW r \in flight, NEW id, Committed(r, id), Stored(r), Fitting(r, id), KeysOwn',
         UNCHANGED <<call, calls, seen>>
  PROVE  IInv'
<1>1. r \in Requests /\ lost \subseteq Requests /\ effect' = effect \cup {Tag(r)}
  BY Zenon DEF Committed, IInv, Shape
<1>2. ASSUME NEW err \in {"nil", "context", "other"}, UNCHANGED lost,
             Answer(r, mapStorageError(err), IF err = "nil" THEN id ELSE None)
      PROVE  IInv'
  <2>1. PICK code, x : /\ Answer(r, code, x) /\ code # "ResourceExhausted"
                       /\ code = "OK" => x = id
    <3>1. CASE err = "nil"
      BY <1>2, <3>1, Codes, Zenon
    <3>2. CASE err # "nil"
      BY <1>2, <3>2, Codes, Zenon
    <3>. QED  BY <3>1, <3>2, Zenon
  <2>2. code = "OK" => Fitting(r, x)
    BY <2>1, Zenon
  <2>3. lost \subseteq lost' /\ lost' \subseteq Requests /\ Tag(r) \in effect'
    BY <1>1, <1>2, Zenon
  <2>4. PICK N : N = {}
    BY Zenon
  <2>5. \A y \in N : Resumes(y, r) /\ \A z \in N : y = z
    BY <2>4, Zenon
  <2>. QED  BY <1>1, <2>1, <2>2, <2>3, <2>4, <2>5, ServedIInv, Zenon
<1>3. CASE RunAgain(r)
  <2>1. PICK x : x = [r EXCEPT !.run = @ + 1, !.found = None]
    BY Zenon
  <2>2. x = [by |-> r.by, attempt |-> r.attempt, op |-> r.op, id |-> r.id, key |-> r.key,
             optIn |-> r.optIn, run |-> r.run + 1, found |-> None]
    BY <1>1, <2>1, Zenon DEF Requests
  <2>3. x \in Requests /\ Same(x, r) /\ x.run # 1 /\ x.found = None
    <3>1. r.run + 1 \in Nat \ {0} /\ r.run + 1 # 1
      BY <1>1 DEF Requests
    <3>. QED  BY <1>1, <2>2, <3>1 DEF Requests, Same
  <2>4. lost' = lost \cup {r} /\ answer' = answer /\ flight' = (flight \ {r}) \cup {x}
    BY <1>3, <2>1, Zenon DEF RunAgain, Proceed
  <2>5. Lost(Tag(r), r.op)'
    BY <2>4, Zenon DEF Lost, Tag
  <2>6. Resumes(x, r)
    BY <2>3, <2>5, Zenon DEF Resumes
  <2>7. lost \subseteq lost' /\ lost' \subseteq Requests
    BY <1>1, <2>4, Zenon
  <2>8. PICK N, code : N = {x} /\ code = "none"
    BY Zenon
  <2>9. /\ \A y \in N : Resumes(y, r) /\ \A z \in N : y = z
        /\ code # "OK" /\ code # "ResourceExhausted" /\ flight' = (flight \ {r}) \cup N
    BY <2>4, <2>6, <2>8, Zenon
  <2>. QED  BY <1>1, <2>4, <2>7, <2>9, ServedIInv, Zenon
<1>. QED  BY <1>2, <1>3, Zenon DEF Committed

\* Nothing is stored.
LEMMA NothingStored ==
  ASSUME IInv, NEW r, UNCHANGED <<users, owner, made>>
  PROVE  Stored(r) /\ KeysOwn'
<1>1. Stored(r)
  BY Zenon DEF Stored, IInv, Shape
<1>2. KeysOwn'
  BY Zenon DEF IInv, Keyed, KeysOwn
<1>. QED  BY <1>1, <1>2, Zenon

\* A request in its first run, and a create in any, may end with
\* ResourceExhausted.
LEMMA MayBeExhausted ==
  ASSUME IInv, NEW r \in flight, r.run = 1 \/ r.op = "CreateUser"
  PROVE  Excused(Tag(r))
BY Zenon DEF IInv, Tags, Excused

\* A request that was refused, or failed without effect.
LEMMA NoEffectIInv ==
  ASSUME IInv, NEW r \in flight, NEW code, Answer(r, code, None), code # "OK",
         code = "ResourceExhausted" => r.run = 1 \/ r.op = "CreateUser",
         UNCHANGED <<users, owner, made, effect, lost>>, UNCHANGED <<call, calls, seen>>
  PROVE  IInv'
<1>1. Stored(r) /\ KeysOwn'
  BY NothingStored, Zenon
<1>2. code = "ResourceExhausted" => Excused(Tag(r))'
  <2>1. code = "ResourceExhausted" => Excused(Tag(r))
    BY MayBeExhausted, Zenon
  <2>. QED  BY <2>1, Zenon DEF Excused, Lost, Tag
<1>3. lost \subseteq lost' /\ lost' \subseteq Requests
  BY Zenon DEF IInv, Shape
<1>4. PICK N : N = {}
  BY Zenon
<1>5. \A y \in N : Resumes(y, r) /\ \A z \in N : y = z
  BY <1>4, Zenon
<1>. QED  BY <1>1, <1>2, <1>3, <1>4, <1>5, ServedIInv, Zenon

\* The repository's errors.
LEMMA FailsIInv ==
  ASSUME IInv, NEW r \in flight,
         NEW err \in {"context", "other", "ErrNotFound", "ErrAlreadyExists", "ErrCapacity"},
         err = "ErrCapacity" => r.op = "CreateUser",
         Fails(r, err), UNCHANGED <<call, calls, seen>>
  PROVE  IInv'
<1>1. /\ mapStorageError(err) # "OK"
      /\ mapStorageError(err) = "ResourceExhausted" => r.op = "CreateUser"
  BY Codes, Zenon
<1>. QED  BY <1>1, NoEffectIInv, Zenon DEF Fails

\* A create looks its key up and finds it.
LEMMA FoundIInv ==
  ASSUME IInv, NEW r \in flight, r.op = "CreateUser", r.key # None, owner[r.key] # None,
         Proceed(r, [r EXCEPT !.found = owner[r.key]]),
         UNCHANGED <<users, owner, made, effect, lost>>, UNCHANGED <<call, calls, seen>>
  PROVE  IInv'
<1>1. /\ r \in Requests /\ r.key \in Keys /\ owner[r.key] \in Ids
      /\ made[owner[r.key]] # None /\ made[owner[r.key]].key = r.key
  <2>1. r \in Requests /\ r.key \in Keys
    BY Zenon DEF IInv, Shape, Requests
  <2>2. owner[r.key] \in Ids
    BY <2>1, Zenon DEF IInv, Shape
  <2>. QED  BY <2>1, <2>2, Zenon DEF IInv, Keyed
<1>2. PICK x : x = [r EXCEPT !.found = owner[r.key]]
  BY Zenon
<1>3. x = [by |-> r.by, attempt |-> r.attempt, op |-> r.op, id |-> r.id, key |-> r.key,
           optIn |-> r.optIn, run |-> r.run, found |-> owner[r.key]]
  BY <1>1, <1>2 DEF Requests
<1>4. x \in Requests /\ Same(x, r) /\ x.run = r.run /\ x.found = owner[r.key]
  BY <1>1, <1>3 DEF Requests, Same
<1>5. answer' = answer /\ flight' = (flight \ {r}) \cup {x}
  BY <1>2, Zenon DEF Proceed
<1>6. Resumes(x, r)
  <2>1. (r.run = 1 => Tag(r) \notin effect) /\ (r.run # 1 => Lost(Tag(r), r.op))
    BY Zenon DEF IInv, Tags
  <2>2. r.run # 1 => Lost(Tag(r), r.op)'
    BY <2>1, Zenon DEF Lost, Tag
  <2>3. x.key # None /\ made'[x.found] # None /\ made'[x.found].key = x.key
    BY <1>1, <1>4, Zenon DEF Same
  <2>. QED  BY <1>4, <2>1, <2>2, <2>3, Zenon DEF Resumes
<1>7. lost \subseteq lost' /\ lost' \subseteq Requests
  BY Zenon DEF IInv, Shape
<1>8. PICK N, code : N = {x} /\ code = "none"
  BY Zenon
<1>9. /\ \A y \in N : Resumes(y, r) /\ \A z \in N : y = z
      /\ code # "OK" /\ code # "ResourceExhausted" /\ flight' = (flight \ {r}) \cup N
  BY <1>5, <1>6, <1>8, Zenon
<1>10. Stored(r) /\ KeysOwn'
  BY NothingStored, Zenon
<1>. QED  BY <1>5, <1>7, <1>9, <1>10, ServedIInv, Zenon

\* A create stores its user, for the first time or again.
LEMMA InsertIInv ==
  ASSUME IInv, NEW r \in flight, r.op = "CreateUser", NEW i \in Ids, Drawn(r, i),
         ~(r.key # None /\ owner[r.key] # None),
         IF r.key = None THEN StoreCreate(i, r.by) ELSE StoreCreateKeyed(i, r.key, r.by),
         made' = [made EXCEPT ![i] = IF @ = None THEN r ELSE @], Committed(r, i),
         UNCHANGED <<call, calls, seen>>
  PROVE  IInv'
<1>1. r \in Requests /\ r # None /\ r.by \in Calls /\ r.key \in Keys \cup {None}
  BY RequestAssumption, Zenon DEF IInv, Shape, Requests
<1>2. effect' = effect \cup {Tag(r)} /\ lost \subseteq lost'
  BY Zenon DEF Committed, RunAgain
<1>3. users[i] = None /\ users' = [users EXCEPT ![i] = <<r.by>>]
  BY Zenon DEF StoreCreate, StoreCreateKeyed, Insert
<1>4. owner' = IF r.key = None THEN owner ELSE [owner EXCEPT ![r.key] = i]
  BY Zenon DEF StoreCreate, StoreCreateKeyed
<1>5. users' \in [Ids -> Seq(Calls) \cup {None}]
  BY <1>1, <1>3 DEF IInv, Shape
<1>6. owner' \in [Keys -> Ids \cup {None}]
  BY <1>1, <1>4, Zenon DEF IInv, Shape
<1>7. /\ made'[i] = (IF made[i] = None THEN r ELSE made[i])
      /\ \A j \in Ids \ {i} : made'[j] = made[j] /\ users'[j] = users[j]
  BY <1>3, Zenon DEF IInv, Shape
<1>8. made[i] = None => Own(r) = {} /\ made' = [made EXCEPT ![i] = r]
  <2>1. made[i] = None => i \notin Own(r)
    BY Zenon DEF Own
  <2>. QED  BY <2>1, Zenon DEF Drawn
<1>9. made[i] # None => /\ made' = made /\ Tag(made[i]) = Tag(r) /\ Reborn(i)'
                        /\ made[i].by = r.by /\ made[i].key = r.key
  <2>. SUFFICES ASSUME made[i] # None
                PROVE  /\ made' = made /\ Tag(made[i]) = Tag(r) /\ Reborn(i)'
                       /\ made[i].by = r.by /\ made[i].key = r.key
    BY Zenon
  <2>1. Tag(made[i]) = Tag(r)
    BY Zenon DEF Drawn, FreshId, Own
  <2>2. made' = made
    BY Zenon DEF IInv, Shape
  <2>3. Lost(Tag(r), r.op)
    BY <2>1, Zenon DEF IInv, Tags
  <2>4. Reborn(i)'
    BY <1>2, <2>1, <2>2, <2>3, Zenon DEF Reborn, Lost, Tag
  <2>5. made[i].by = r.by
    BY <2>1 DEF Tag
  <2>6. made[i].key = r.key
    BY <2>5, Zenon DEF IInv, Agree, Reqs
  <2>. QED  BY <2>1, <2>2, <2>4, <2>5, <2>6, Zenon
<1>10. made'[i] # None /\ made'[i].by = r.by /\ made'[i].key = r.key
  BY <1>1, <1>7, <1>9, Zenon
<1>11. Stored(r)
  <2>1. \/ made' = made
        \/ /\ Tag(r) \in effect' /\ Own(r) = {}
           /\ \E h \in Ids : made[h] = None /\ made' = [made EXCEPT ![h] = r]
    BY <1>2, <1>8, <1>9, Zenon
  <2>2. \A j \in Ids : users'[j] # None /\ made[j] # None =>
          \/ /\ users[j] # None
             /\ \A k \in DOMAIN users[j] : k \in DOMAIN users'[j] /\ users'[j][k] = users[j][k]
          \/ Reborn(j)'
    BY <1>7, <1>9, Zenon DEF Reborn
  <2>. QED  BY <1>5, <1>6, <2>1, <2>2, Zenon DEF Stored
<1>12. Fitting(r, i)
  BY <1>10, Zenon DEF Fitting
<1>13. KeysOwn'
  <2>1. ASSUME NEW k \in Keys, owner'[k] # None
        PROVE  made'[owner'[k]] # None /\ made'[owner'[k]].key = k
    <3>1. CASE k = r.key
      <4>1. owner'[k] = i
        BY <1>4, <3>1, RetryAssumption, Zenon DEF IInv, Shape
      <4>. QED  BY <1>10, <3>1, <4>1, Zenon
    <3>2. CASE k # r.key
      <4>1. owner'[k] = owner[k]
        BY <1>4, <3>2, Zenon DEF IInv, Shape
      <4>2. owner[k] \in Ids /\ made[owner[k]] # None /\ made[owner[k]].key = k
        BY <2>1, <4>1 DEF IInv, Shape, Keyed
      <4>. QED  BY <1>7, <4>1, <4>2, Zenon
    <3>. QED  BY <3>1, <3>2, Zenon
  <2>2. ASSUME NEW j \in Ids, users'[j] # None
        PROVE  made'[j] # None /\ (made'[j].key # None => owner'[made'[j].key] = j)
    <3>1. CASE j = i
      BY <1>1, <1>4, <1>10, <3>1, Zenon DEF IInv, Shape
    <3>2. CASE j # i
      <4>1. made[j] # None /\ (made[j].key # None => owner[made[j].key] = j) /\ made'[j] = made[j]
        BY <1>7, <2>2, <3>2, Zenon DEF IInv, Keyed
      <4>2. made[j].key # None => made[j].key \in Keys
        BY <4>1, Zenon DEF IInv, Shape, Requests
      <4>3. made[j].key # None => made[j].key # r.key
        BY <4>1, RetryAssumption, Zenon
      <4>. QED  BY <1>4, <4>1, <4>2, <4>3, Zenon DEF IInv, Shape
    <3>. QED  BY <3>1, <3>2, Zenon
  <2>. QED  BY <2>1, <2>2, Zenon DEF KeysOwn
<1>. QED  BY <1>11, <1>12, <1>13, CommittedIInv, Zenon

LEMMA CreateUserIInv ==
  ASSUME IInv, NEW r \in flight, r.op = "CreateUser", CreateUser(r), UNCHANGED <<call, calls, seen>>
  PROVE  IInv'
<1>1. CASE r.found # None /\ Committed(r, r.found) /\ UNCHANGED <<users, owner, made>>
  <2>1. r.found \in Ids /\ r.key # None /\ made[r.found] # None /\ made[r.found].key = r.key
    BY <1>1, Zenon DEF IInv, Shape, Requests, Keyed
  <2>2. Fitting(r, r.found)
    BY <1>1, <2>1, Zenon DEF Fitting
  <2>. QED  BY <1>1, <2>2, NothingStored, CommittedIInv, Zenon
<1>2. CASE Fails(r, "ErrNotFound") \/ Fails(r, "ErrCapacity")
  BY <1>2, FailsIInv, Zenon
<1>3. CASE /\ r.key # None /\ owner[r.key] # None /\ Proceed(r, [r EXCEPT !.found = owner[r.key]])
           /\ UNCHANGED <<users, owner, made, effect, lost>>
  BY <1>3, FoundIInv, Zenon
<1>4. ASSUME ~(r.key # None /\ owner[r.key] # None), NEW i \in Ids, Drawn(r, i), InsertUser(r, i)
      PROVE  IInv'
  BY <1>4, FailsIInv, InsertIInv, Zenon DEF InsertUser
<1>. QED  BY <1>1, <1>2, <1>3, <1>4, Zenon DEF CreateUser

LEMMA UpdateUserIInv ==
  ASSUME IInv, NEW r \in flight, r.op = "UpdateUser", UpdateUser(r), UNCHANGED <<call, calls, seen>>
  PROVE  IInv'
<1>1. r.by \in Calls /\ r.id \in Ids /\ made[r.id] # None
  BY Zenon DEF IInv, Shape, Requests, Keyed
<1>2. CASE Fails(r, "ErrNotFound")
  BY <1>2, FailsIInv, Zenon
<1>3. CASE StoreModify(r.id, r.by) /\ Committed(r, r.id) /\ UNCHANGED made
  <2>1. /\ users[r.id] # None /\ users[r.id] \in Seq(Calls)
        /\ users' = [users EXCEPT ![r.id] = Append(users[r.id], r.by)] /\ owner' = owner
    BY <1>1, <1>3, Zenon DEF StoreModify, IInv, Shape
  <2>2. PICK s \in Seq(Calls) : s = users[r.id]
    BY <2>1, Zenon
  <2>3. /\ Append(s, r.by) \in Seq(Calls)
        /\ \A k \in DOMAIN s : k \in DOMAIN Append(s, r.by) /\ Append(s, r.by)[k] = s[k]
        /\ Len(s) + 1 \in DOMAIN Append(s, r.by) /\ Append(s, r.by)[Len(s) + 1] = r.by
    BY <1>1
  <2>4. /\ users' \in [Ids -> Seq(Calls) \cup {None}] /\ users'[r.id] = Append(s, r.by)
        /\ \A i \in Ids \ {r.id} : users'[i] = users[i]
    BY <1>1, <2>1, <2>2, <2>3, Zenon DEF IInv, Shape
  <2>5. ASSUME NEW i \in Ids, users'[i] # None
        PROVE  /\ users[i] # None
               /\ \A k \in DOMAIN users[i] : k \in DOMAIN users'[i] /\ users'[i][k] = users[i][k]
    <3>1. CASE i = r.id
      BY <2>1, <2>2, <2>3, <2>4, <3>1, Zenon
    <3>2. CASE i # r.id
      BY <2>4, <2>5, <3>2, Zenon
    <3>. QED  BY <3>1, <3>2, Zenon
  <2>6. Stored(r)
    BY <1>3, <2>1, <2>4, <2>5, Zenon DEF Stored, IInv, Shape
  <2>7. Fitting(r, r.id)
    BY <2>3, <2>4, Zenon DEF Fitting
  <2>8. KeysOwn'
    BY <1>3, <2>1, <2>4 DEF IInv, Keyed, KeysOwn
  <2>. QED  BY <1>3, <2>6, <2>7, <2>8, CommittedIInv, Zenon
<1>. QED  BY <1>2, <1>3, Zenon DEF UpdateUser

LEMMA DeleteUserIInv ==
  ASSUME IInv, NEW r \in flight, r.op = "DeleteUser", DeleteUser(r), UNCHANGED <<call, calls, seen>>
  PROVE  IInv'
<1>1. r.id \in Ids
  BY Zenon DEF IInv, Keyed
<1>2. CASE Fails(r, "ErrNotFound")
  BY <1>2, FailsIInv, Zenon
<1>3. CASE StoreDelete(r.id) /\ Committed(r, r.id) /\ UNCHANGED made
  <2>1. /\ users' = [users EXCEPT ![r.id] = None]
        /\ owner' = [k \in Keys |-> IF owner[k] = r.id THEN None ELSE owner[k]]
    BY <1>3, Zenon DEF StoreDelete
  <2>2. /\ users' \in [Ids -> Seq(Calls) \cup {None}] /\ users'[r.id] = None
        /\ \A i \in Ids \ {r.id} : users'[i] = users[i]
    BY <1>1, <2>1, Zenon DEF IInv, Shape
  <2>3. owner' \in [Keys -> Ids \cup {None}]
    BY <2>1, Zenon DEF IInv, Shape
  <2>4. Stored(r)
    BY <1>3, <2>2, <2>3, Zenon DEF Stored
  <2>5. Fitting(r, r.id)
    BY Zenon DEF Fitting
  <2>6. \A k \in Keys : owner'[k] # None => owner'[k] = owner[k]
    BY <2>1, Zenon
  <2>7. ASSUME NEW i \in Ids, users'[i] # None
        PROVE  made[i] # None /\ (made[i].key # None => owner'[made[i].key] = i)
    <3>1. i # r.id /\ users[i] # None
      BY <2>2, <2>7, Zenon
    <3>2. made[i] # None /\ (made[i].key # None => owner[made[i].key] = i)
      BY <3>1, Zenon DEF IInv, Keyed
    <3>3. made[i].key # None => made[i].key \in Keys
      BY <3>2, Zenon DEF IInv, Shape, Requests
    <3>. QED  BY <2>1, <3>1, <3>2, <3>3, Zenon
  <2>8. KeysOwn'
    BY <1>3, <2>6, <2>7, Zenon DEF IInv, Keyed, KeysOwn
  <2>. QED  BY <1>3, <2>4, <2>5, <2>8, CommittedIInv, Zenon
<1>. QED  BY <1>2, <1>3, Zenon DEF DeleteUser

LEMMA ServeIInv ==
  ASSUME IInv, NEW r \in flight, Serve(r)
  PROVE  IInv'
<1>1. UNCHANGED <<call, calls, seen>>
  BY Zenon DEF Serve
<1>2. CASE Refuse(r)
  <2>1. PICK code \in Refusals : Answer(r, code, None)
    BY <1>2, Zenon DEF Refuse
  <2>2. code # "OK"
    BY RetryAssumption, Zenon
  <2>. QED  BY <1>1, <1>2, <2>1, <2>2, NoEffectIInv, Zenon DEF Refuse
<1>3. CASE GiveUp(r)
  BY <1>1, <1>3, FailsIInv, Zenon DEF GiveUp
<1>. QED  BY <1>1, <1>2, <1>3, CreateUserIInv, UpdateUserIInv, DeleteUserIInv, Zenon DEF Serve
-----------------------------------------------------------------------------
(* The client's actions *)

LEMMA CallIInv ==
  ASSUME IInv, NEW c \in Clients, NEW id \in Ids \cup {None}, Call(c, id)
  PROVE  IInv'
<1>1. PICK m \in Plan[c][calls[c] + 1] : Begin(c, m, id)
  BY Zenon DEF Call
<1>2. m \in Invocations
  <2>1. Plan[c] \in Seq(SUBSET Invocations) /\ calls[c] \in Nat /\ calls[c] < Len(Plan[c])
    BY RetryAssumption, Zenon DEF Call, IInv, Shape
  <2>2. Plan[c][calls[c] + 1] \in SUBSET Invocations
    BY <2>1
  <2>. QED  BY <1>1, <2>2, Zenon
<1>3. /\ m.op \in Methods /\ m.key \in Keys \cup {None} /\ m.optIn \in BOOLEAN /\ m.max \in Nat
  BY <1>2, Zenon DEF Invocations
<1>4. PICK rec : rec = [op |-> m.op, id |-> id, key |-> m.key, optIn |-> m.optIn,
                        max |-> m.max, attempt |-> 0, pc |-> "backoff"]
  BY Zenon
<1>5. /\ call[c] = None
      /\ m.op # "CreateUser" => id \in Ids /\ made[id] # None
      /\ calls' = [calls EXCEPT ![c] = calls[c] + 1]
      /\ UNCHANGED <<users, owner, answer, made, effect, lost, seen>>
  BY <1>1, Zenon DEF Call, Begin
<1>6. calls[c] + 1 \in Nat \ {0} /\ calls'[c] = calls[c] + 1
  BY <1>5 DEF IInv, Shape
<1>7. CASE UNCHANGED <<call, flight>>
  BY <1>5, <1>7, NoAttemptIInv, Zenon
<1>8. CASE Invoke(c, rec, 1)
  <2>1. PICK p : p = [rec EXCEPT !.pc = "invoke", !.attempt = 1]
    BY Zenon
  <2>2. PICK q : q = Request(c, rec, 1)
    BY Zenon
  <2>3. /\ p \in CallRecords /\ p.pc = "invoke" /\ p.attempt = 1 /\ p.op = m.op /\ p.id = id
        /\ p.key = m.key /\ p.optIn = m.optIn
    <3>1. p = [op |-> m.op, id |-> id, key |-> m.key, optIn |-> m.optIn,
               max |-> m.max, attempt |-> 1, pc |-> "invoke"]
      BY <1>4, <2>1, Zenon
    <3>. QED  BY <1>3, <3>1 DEF CallRecords
  <2>4. <<c, calls[c] + 1>> \in Calls
    BY <1>6, Zenon DEF Calls
  <2>5. /\ q \in Requests /\ q.by = <<c, calls[c] + 1>> /\ q.attempt = 1 /\ q.op = m.op /\ q.id = id
        /\ q.key = m.key /\ q.optIn = m.optIn /\ q.run = 1 /\ q.found = None
    <3>1. q = [by |-> <<c, calls[c] + 1>>, attempt |-> 1, op |-> m.op, id |-> id, key |-> m.key,
               optIn |-> m.optIn, run |-> 1, found |-> None]
      BY <1>4, <1>6, <2>2, Zenon DEF Request
    <3>. QED  BY <1>3, <2>4, <3>1 DEF Requests
  <2>6. call' = [call EXCEPT ![c] = p] /\ flight' = flight \cup {q}
    BY <1>8, <2>1, <2>2, Zenon DEF Invoke
  <2>. QED  BY <1>5, <1>6, <2>3, <2>5, <2>6, InvokeIInv, Zenon
<1>. QED  BY <1>1, <1>4, <1>7, <1>8, Zenon DEF Begin

LEMMA RetryIInv ==
  ASSUME IInv, NEW c \in Clients, Retry(c)
  PROVE  IInv'
<1>1. /\ call[c] # None /\ call[c].pc = "backoff" /\ calls' = calls
      /\ Invoke(c, call[c], call[c].attempt + 1)
      /\ UNCHANGED <<users, owner, answer, made, effect, lost, seen>>
  BY Zenon DEF Retry, At
<1>2. /\ call[c] \in CallRecords /\ calls[c] \in Nat \ {0} /\ call[c].attempt \in Nat \ {0}
      /\ <<c, calls[c]>> \in Calls
  BY <1>1, CurrentIs, Zenon
<1>3. PICK rec \in CallRecords : rec = call[c]
  BY <1>2, Zenon
<1>4. PICK p : p = [rec EXCEPT !.pc = "invoke", !.attempt = rec.attempt + 1]
  BY Zenon
<1>5. PICK q : q = Request(c, rec, rec.attempt + 1)
  BY Zenon
<1>6. /\ p \in CallRecords /\ p.pc = "invoke" /\ p.attempt = rec.attempt + 1 /\ p.op = rec.op
      /\ p.id = rec.id /\ p.key = rec.key /\ p.optIn = rec.optIn
  <2>1. /\ rec.op \in Methods /\ rec.id \in Ids \cup {None} /\ rec.key \in Keys \cup {None}
        /\ rec.optIn \in BOOLEAN /\ rec.max \in Nat /\ rec.attempt + 1 \in Nat \ {0}
    BY DEF CallRecords
  <2>2. p = [op |-> rec.op, id |-> rec.id, key |-> rec.key, optIn |-> rec.optIn,
             max |-> rec.max, attempt |-> rec.attempt + 1, pc |-> "invoke"]
    BY <1>4, Zenon DEF CallRecords
  <2>. QED  BY <2>1, <2>2, Zenon DEF CallRecords
<1>7. /\ q \in Requests /\ q.by = <<c, calls[c]>> /\ q.attempt = rec.attempt + 1 /\ q.op = rec.op
      /\ q.id = rec.id /\ q.key = rec.key /\ q.optIn = rec.optIn /\ q.run = 1 /\ q.found = None
  BY <1>1, <1>2, <1>5 DEF Request, Requests, CallRecords
<1>8. call' = [call EXCEPT ![c] = p] /\ flight' = flight \cup {q}
  BY <1>1, <1>3, <1>4, <1>5, Zenon DEF Invoke
<1>9. calls' = [calls EXCEPT ![c] = calls[c]]
  BY <1>1, Zenon DEF IInv, Shape
<1>10. p.op # "CreateUser" => p.id \in Ids /\ made[p.id] # None
  BY <1>1, <1>3, <1>6, Zenon DEF IInv, Keyed
<1>11. /\ p.attempt = call[c].attempt + 1 /\ p.op = call[c].op /\ p.id = call[c].id
       /\ p.key = call[c].key /\ p.optIn = call[c].optIn
  BY <1>3, <1>6, Zenon
<1>12. /\ q.attempt = p.attempt /\ q.op = p.op /\ q.id = p.id /\ q.key = p.key
       /\ q.optIn = p.optIn /\ q.by = <<c, calls[c]>> /\ q \in Requests
       /\ q.run = 1 /\ q.found = None
  BY <1>6, <1>7, Zenon
<1>. QED  BY <1>1, <1>2, <1>6, <1>8, <1>9, <1>10, <1>11, <1>12, InvokeIInv, Zenon

\* Result, for a code that is ResourceExhausted only if the attempt is over and
\* had no effect, or one whose answer was lost.
LEMMA ResultEndsIInv ==
  ASSUME IInv, NEW c \in Clients, At(c, "invoke"), NEW code, NEW id, Result(c, code, id),
         code = "ResourceExhausted" =>
           Excused(Current(c)) /\ \A r \in flight : Tag(r) # Current(c)
  PROVE  IInv'
<1>1. PICK S : S = {<<Current(c), code>>}
  BY Zenon
<1>2. call[c] # None /\ call[c].pc = "invoke" /\ call[c] \in CallRecords
  BY CurrentIs, Zenon DEF At
<1>3. /\ seen' = seen \cup S /\ answer' = [answer EXCEPT ![c] = None]
      /\ UNCHANGED <<users, owner, flight, calls, made, effect, lost>>
  BY <1>1, Zenon DEF Result
<1>4. \A x \in S : x = <<x[1], x[2]>> /\ x[1] = Current(c) /\ x[2] = code
  BY <1>1
<1>5. CASE call' = [call EXCEPT ![c] = None]
  BY <1>2, <1>3, <1>4, <1>5, ResultIInv, Zenon
<1>6. CASE shouldRetry(call[c].optIn, code) /\ call' = [call EXCEPT ![c].pc = "backoff"]
  <2>1. PICK rec \in CallRecords : rec = call[c]
    BY <1>2, Zenon
  <2>2. PICK p : p = [rec EXCEPT !.pc = "backoff"]
    BY Zenon
  <2>3. /\ p \in CallRecords /\ p.attempt = rec.attempt /\ p.op = rec.op /\ p.id = rec.id
        /\ p.key = rec.key /\ p.optIn = rec.optIn
    BY <2>2, Zenon DEF CallRecords
  <2>4. call' = [call EXCEPT ![c] = p]
    BY <1>6, <2>1, <2>2, Zenon
  <2>5. \E x \in S : shouldRetry(p.optIn, x[2])
    BY <1>1, <1>6, <2>1, <2>3, Zenon
  <2>. QED  BY <1>2, <1>3, <1>4, <2>1, <2>3, <2>4, <2>5, ResultIInv, Zenon
<1>. QED  BY <1>5, <1>6, Zenon DEF Result, Returned

LEMMA ExpireIInv ==
  ASSUME IInv, NEW c \in Clients, Expire(c)
  PROVE  IInv'
<1>1. PICK S : S = IF At(c, "invoke") THEN {<<Current(c), "DeadlineExceeded">>} ELSE {}
  BY Zenon
<1>2. /\ call[c] # None /\ call' = [call EXCEPT ![c] = None] /\ seen' = seen \cup S
      /\ answer' = [answer EXCEPT ![c] = None]
      /\ UNCHANGED <<users, owner, flight, calls, made, effect, lost>>
  BY <1>1, Zenon DEF Expire, Returned
<1>3. \A x \in S : x = <<x[1], x[2]>> /\ x[1] = Current(c) /\ x[2] = "DeadlineExceeded"
  BY <1>1
<1>. QED  BY <1>2, <1>3, ResultIInv, Zenon

LEMMA NextIInv ==
  ASSUME IInv, [Next]_vars
  PROVE  IInv'
<1>1. ASSUME NEW c \in Clients, Deliver(c) PROVE IInv'
  <2>1. At(c, "invoke") /\ answer[c] # None /\ Result(c, answer[c].code, answer[c].id)
    BY <1>1, Zenon DEF Deliver
  <2>2. answer[c].code = "ResourceExhausted" =>
          Excused(Current(c)) /\ \A r \in flight : Tag(r) # Current(c)
    BY <2>1, Zenon DEF IInv, Answers
  <2>. QED  BY <2>1, <2>2, ResultEndsIInv, Zenon
<1>2. ASSUME NEW c \in Clients, Break(c) PROVE IInv'
  BY <1>2, ResultEndsIInv, Zenon DEF Break
<1>3. CASE UNCHANGED vars
  <2>. USE <1>3 DEF vars
  <2>1. Shape'
    BY Zenon DEF IInv, Shape
  <2>2. Tags'
    BY DEF IInv, Tags, Past, Lost, Tag
  <2>3. Agree'
    BY DEF IInv, Agree, Reqs
  <2>4. InTurn'
    <3>1. Reqs' = Reqs /\ \A by, optIn, n : Tried(by, optIn, n)' <=> Tried(by, optIn, n)
      BY Zenon DEF Reqs, Tried
    <3>. QED  BY <3>1, Zenon DEF IInv, InTurn
  <2>5. Spent'
    BY Zenon DEF IInv, Spent, Excused, Lost, Tag
  <2>6. Answers'
    <3>1. \A c : Current(c)' = Current(c) /\ \A id : Done(c, id)' <=> Done(c, id)
      BY Zenon DEF Current, Done, Reborn, Tag
    <3>2. \A t : Excused(t)' <=> Excused(t)
      BY Zenon DEF Excused, Lost, Tag
    <3>. QED  BY <3>1, <3>2, Zenon DEF IInv, Answers
  <2>7. Keyed'
    BY Zenon DEF IInv, Keyed
  <2>. QED  BY <2>1, <2>2, <2>3, <2>4, <2>5, <2>6, <2>7 DEF IInv
<1>. QED  BY <1>1, <1>2, <1>3, CallIInv, RetryIInv, ExpireIInv, ServeIInv, Zenon DEF Next

LEMMA InitIInv == Init => IInv
<1>. SUFFICES ASSUME Init PROVE IInv
  BY Zenon
<1>1. Shape
  BY RetryAssumption DEF Init, StoreInit, Shape
<1>2. Reqs = {}
  BY Zenon DEF Init, Reqs
<1>. QED  BY <1>1, <1>2, Zenon DEF Init, StoreInit, IInv, Tags, Agree, InTurn, Spent, Answers, Keyed

\* The inductive invariant: attempts are told apart and made in turn, and what
\* a client is told of its attempt is so.
THEOREM Invariance == Spec => []IInv
BY InitIInv, NextIInv, PTL DEF Spec
-----------------------------------------------------------------------------
(* The properties *)

\* An attempt that ended with ResourceExhausted has not been carried out
\* (safeRetryableCodes), unless it is a create whose commit was answered by
\* nobody and which the repository ran again (retryOperation).
THEOREM ExhaustedExplained == Spec => []ExhaustedAppliedOnlyIfLost
<1>1. ASSUME IInv PROVE ExhaustedAppliedOnlyIfLost
  <2>. SUFFICES ASSUME NEW t \in effect, <<t, "ResourceExhausted">> \in seen
                PROVE  Lost(t, "CreateUser")
    BY Zenon DEF ExhaustedAppliedOnlyIfLost, Lost
  <2>1. Excused(t)
    BY <1>1 DEF IInv, Spent
  <2>. QED  BY <2>1, Zenon DEF Excused
<1>. QED  BY <1>1, Invariance, PTL

\* However often a create with an idempotency key is sent, one live user stands
\* for it.
THEOREM KeyedCreatesOnce == Spec => []KeyedCreateOneUser
<1>1. ASSUME IInv PROVE KeyedCreateOneUser
  <2>. SUFFICES ASSUME NEW i \in Live, NEW j \in Live, made[i].by = made[j].by, made[i].key # None
                PROVE  i = j
    BY Zenon DEF KeyedCreateOneUser
  <2>1. i \in Ids /\ made[i] # None /\ (made[i].key # None => owner[made[i].key] = i)
    BY <1>1, Zenon DEF Live, IInv, Keyed
  <2>2. j \in Ids /\ made[j] # None /\ (made[j].key # None => owner[made[j].key] = j)
    BY <1>1, Zenon DEF Live, IInv, Keyed
  <2>3. made[i].key = made[j].key
    BY <1>1, <2>1, <2>2 DEF IInv, Agree, Reqs
  <2>. QED  BY <2>1, <2>2, <2>3, Zenon
<1>. QED  BY <1>1, Invariance, PTL

\* A call that returned nil after an attempt has been carried out, and has the
\* result it asked for.
THEOREM NilMeansApplied == Spec => []OKMeansApplied
<1>1. Init => OKMeansApplied
  BY Zenon DEF Init, OKMeansApplied
<1>2. ASSUME IInv, NEW c \in Clients, Deliver(c) PROVE OKMeansApplied'
  <2>. SUFFICES ASSUME ret' # None, ret'.code = "OK" PROVE OKMeansApplied'
    BY Zenon DEF OKMeansApplied
  <2>1. /\ At(c, "invoke") /\ answer[c] # None /\ calls' = calls /\ effect' = effect
        /\ made' = made /\ users' = users /\ lost' = lost /\ Result(c, answer[c].code, answer[c].id)
    BY <1>2, Zenon DEF Deliver, Result
  <2>2. CASE ret' = Outcome(c, call[c], answer[c].code, answer[c].id)
    <3>1. /\ ret'.by = <<c, calls[c]>> /\ answer[c].code = "OK" /\ ret'.id = answer[c].id
          /\ ret'.op = call[c].op /\ ret'.key = call[c].key /\ ret'.target = call[c].id
      BY <2>1, <2>2, Zenon DEF Outcome
    <3>2. Current(c) \in effect /\ Done(c, answer[c].id)
      BY <1>2, <2>1, <3>1, Zenon DEF IInv, Answers
    <3>3. \E t \in effect' : t[1] = ret'.by
      BY <2>1, <3>1, <3>2, Zenon DEF Current
    <3>. QED  BY <2>1, <3>1, <3>2, <3>3, Zenon DEF Done, Reborn, Tag, OKMeansApplied
  <2>3. CASE ret' = None
    BY <2>3, Zenon
  <2>. QED  BY <2>1, <2>2, <2>3, Zenon DEF Result, Returned
<1>3. ASSUME NEW c \in Clients, Break(c) PROVE OKMeansApplied'
  BY <1>3 DEF Break, Result, Returned, Outcome, OKMeansApplied
<1>4. ASSUME NEW c \in Clients, Expire(c) PROVE OKMeansApplied'
  BY <1>4, Zenon DEF Expire, Returned, Outcome, OKMeansApplied
<1>5. ASSUME NEW c \in Clients, Retry(c) PROVE OKMeansApplied'
  BY <1>5, Zenon DEF Retry, Invoke, OKMeansApplied
<1>6. ASSUME NEW c \in Clients, NEW id \in Ids \cup {None}, Call(c, id)
      PROVE  OKMeansApplied'
  <2>1. ret' = None \/ ret'.max = 0
    BY <1>6 DEF Call, Begin, Invoke, Outcome
  <2>. QED  BY <2>1 DEF OKMeansApplied
<1>7. ASSUME NEW r \in flight, Serve(r) PROVE OKMeansApplied'
  BY <1>7, Zenon DEF Serve, OKMeansApplied
<1>8. ASSUME UNCHANGED vars, OKMeansApplied PROVE OKMeansApplied'
  BY <1>8, Zenon DEF vars, OKMeansApplied
<1>9. IInv /\ OKMeansApplied /\ [Next]_vars => OKMeansApplied'
  BY <1>2, <1>3, <1>4, <1>5, <1>6, <1>7, <1>8 DEF Next
<1>. QED  BY <1>1, <1>9, Invariance, PTL DEF Spec

Count == INSTANCE FiniteSetTheorems

\* The library's facts are about the cardinality the specification uses.
LEMMA SameCount == \A S : Count!Cardinality(S) = Cardinality(S)
<1>1. \A S : Count!IsFiniteSet(S) <=> IsFiniteSet(S)
  BY DEF Count!IsFiniteSet, IsFiniteSet
<1>. QED  BY <1>1 DEF Count!Cardinality, Cardinality

\* An attempt of the call that was carried out, and given up with a safe code:
\* Unavailable, or ResourceExhausted although it was carried out.
GivenUp(by) ==
  \E t \in effect :
    /\ t[1] = by
    /\ \/ <<t, "Unavailable">> \in seen
       \/ <<t, "ResourceExhausted">> \in seen /\ \E q \in lost : Tag(q) = t

\* Without the opt-in, a create leaves two users only after an attempt that was
\* carried out looked Unavailable, or ResourceExhausted because the repository
\* had run it again: every attempt but the last was given up with a safe code.
THEOREM DuplicatesExplained == Spec => []DuplicatesOnlyAfterLostAnswer
<1>1. ASSUME IInv, NEW i \in Ids, made[i] # None, Cardinality(Made(made[i].by)) > 1
      PROVE  \E j \in Ids : j # i /\ made[j] # None /\ made[j].by = made[i].by
  <2>. SUFFICES ASSUME \A j \in Ids : made[j] # None /\ made[j].by = made[i].by => j = i
                PROVE  FALSE
    BY Zenon
  <2>1. Made(made[i].by) = {i}
    BY <1>1, Zenon DEF Made
  <2>2. Cardinality({i}) = 1
    BY SameCount, Count!FS_Singleton, Zenon
  <2>. QED  BY <1>1, <2>1, <2>2
<1>2. ASSUME IInv, NEW i \in Ids, NEW j \in Ids, made[i] # None, made[j] # None,
             made[i].by = made[j].by, ~made[j].optIn, made[i].attempt < made[j].attempt
      PROVE  GivenUp(made[i].by)
  <2>1. made[i] \in Reqs /\ made[j] \in Reqs
    BY <1>2, Zenon DEF Reqs
  <2>2. made[i].attempt \in 1 .. made[j].attempt - 1
    BY <1>2, <2>1, Tagged
  <2>3. PICK s \in seen : s[1] = <<made[j].by, made[i].attempt>> /\ shouldRetry(made[j].optIn, s[2])
    BY <1>2, <2>1, <2>2, Zenon DEF IInv, InTurn, Tried
  <2>4. s[2] \in {"Unavailable", "ResourceExhausted"}
    BY <1>2, <2>3, Zenon DEF shouldRetry, safeRetryableCodes
  <2>5. s[1] \in effect /\ s[1][1] = made[i].by
    BY <1>2, <2>3 DEF IInv, Tags, Tag
  <2>6. <<s[1], s[2]>> \in seen
    BY <1>2, Zenon DEF IInv, Shape
  <2>7. s[2] = "ResourceExhausted" => \E q \in lost : Tag(q) = s[1]
    BY <1>2, <2>5, Zenon DEF IInv, Spent, Excused, Lost
  <2>. QED  BY <2>4, <2>5, <2>6, <2>7, Zenon DEF GivenUp
<1>3. ASSUME IInv PROVE DuplicatesOnlyAfterLostAnswer
  <2>. SUFFICES ASSUME NEW i \in Ids, made[i] # None, ~made[i].optIn,
                       Cardinality(Made(made[i].by)) > 1
                PROVE  GivenUp(made[i].by)
    BY Zenon DEF DuplicatesOnlyAfterLostAnswer, GivenUp
  <2>1. PICK j \in Ids : j # i /\ made[j] # None /\ made[j].by = made[i].by
    BY <1>1, <1>3, Zenon
  <2>2. made[i] \in Reqs /\ made[j] \in Reqs
    BY <2>1, Zenon DEF Reqs
  <2>3. made[i].attempt \in Nat /\ made[j].attempt \in Nat /\ made[i].optIn = made[j].optIn
    BY <1>3, <2>1, <2>2, Tagged, Zenon DEF IInv, Agree
  <2>4. made[i].attempt # made[j].attempt
    BY <1>3, <2>1, Zenon DEF IInv, Tags, Tag
  <2>5. CASE made[i].attempt < made[j].attempt
    BY <1>2, <1>3, <2>1, <2>3, <2>5
  <2>6. CASE made[j].attempt < made[i].attempt
    BY <1>2, <1>3, <2>1, <2>6, Zenon
  <2>7. made[i].attempt < made[j].attempt \/ made[j].attempt < made[i].attempt
    BY <2>3, <2>4
  <2>. QED  BY <2>5, <2>6, <2>7, Zenon
<1>. QED  BY <1>3, Invariance, PTL
-----------------------------------------------------------------------------
(* The waits between two attempts *)

LEMMA RemainderOfSmall ==
  ASSUME NEW m \in Nat \ {0}, NEW x \in 0 .. m - 1
  PROVE  x % m = x
OBVIOUS

\* Half of the range of a Width-bit integer.
LEMMA HalfRange ==
  /\ 2 ^ (Width - 1) \in Nat \ {0}
  /\ 2 ^ Width = 2 * 2 ^ (Width - 1)
<1>1. Width - 1 \in 0 .. Width + 1 /\ (Width - 1) + 1 = Width
  BY WidthAssumption
<1>. QED  BY <1>1, PowersOfTwo, Zenon

LEMMA WrapIsInt ==
  ASSUME NEW n \in Int
  PROVE  Wrap(n) \in Int
<1>. PICK half : half = 2 ^ (Width - 1)
  BY Zenon
<1>1. half \in Nat \ {0} /\ Wrap(n) = ((n + half) % (2 * half)) - half
  BY HalfRange, Zenon DEF Wrap
<1>. QED  BY <1>1

\* Two's complement changes nothing within the range.
LEMMA WrapInRange ==
  ASSUME NEW n \in Nat, n < 2 ^ (Width - 1)
  PROVE  Wrap(n) = n
<1>. PICK half : half = 2 ^ (Width - 1)
  BY Zenon
<1>1. half \in Nat \ {0} /\ n < half
  BY HalfRange, Zenon
<1>2. Wrap(n) = ((n + half) % (2 * half)) - half
  BY HalfRange, Zenon DEF Wrap
<1>3. 2 * half \in Nat \ {0} /\ n + half \in 0 .. (2 * half) - 1
  BY <1>1
<1>4. (n + half) % (2 * half) = n + half
  BY <1>3, RemainderOfSmall, Zenon
<1>. QED  BY <1>1, <1>2, <1>4

LEMMA Doubled ==
  ASSUME NEW base \in Nat \ {0}, NEW n \in 0 .. Width + 1
  PROVE  base * 2 ^ n \in Nat \ {0}
<1>. PICK p : p = 2 ^ n
  BY Zenon
<1>1. p \in Nat \ {0}
  BY PowersOfTwo, Zenon
<1>2. base * p \in Nat \ {0}
  BY <1>1
<1>. QED  BY <1>2, Zenon

LEMMA Jitter ==
  ASSUME NEW d \in Nat \ {0}
  PROVE  \A w \in (IF d \div 2 <= 0 THEN {d} ELSE {(d + n) - (d \div 4) : n \in 0 .. (d \div 2) - 1}) :
           4 * w \in 3 * d .. 5 * d
<1>1. CASE d \div 2 <= 0
  BY <1>1
<1>2. CASE ~(d \div 2 <= 0)
  <2>1. ASSUME NEW n \in 0 .. (d \div 2) - 1 PROVE 4 * ((d + n) - (d \div 4)) \in 3 * d .. 5 * d
    OBVIOUS
  <2>. QED  BY <1>2, <2>1, Zenon
<1>. QED  BY <1>1, <1>2, Zenon

LEMMA MinOfTwo ==
  ASSUME NEW x \in Int, NEW y \in Int
  PROVE  Min({x, y}) = IF x > y THEN y ELSE x
<1>1. \A z \in {x, y} : (\A u \in {x, y} : z =< u) => z = IF x > y THEN y ELSE x
  OBVIOUS
<1>2. \E z \in {x, y} : \A u \in {x, y} : z =< u
  <2>1. CASE x > y
    BY <2>1
  <2>2. CASE ~(x > y)
    BY <2>2
  <2>. QED  BY <2>1, <2>2, Zenon
<1>3. Min({x, y}) \in {x, y} /\ \A u \in {x, y} : Min({x, y}) =< u
  BY <1>2, Zenon DEF Min
<1>. QED  BY <1>1, <1>3, Zenon

\* Every wait of the client is in (0, MaxBackoff], whatever overflows, and
\* exponential up to there where nothing does; a wait of the Postgres repository
\* is within a quarter of the doubled base or the cap while nothing overflows.
THEOREM WaitsInRange == Spec => []BackoffInRange
<1>1. BackoffInRange
  <2>. SUFFICES ASSUME NEW max \in 1 .. MaxBackoff, NEW base \in 1 .. max, NEW attempt \in 0 .. Width + 1
                PROVE  LET overflows == base * 2 ^ attempt >= 2 ^ (Width - 1)
                           d == Min({base * 2 ^ attempt, max})
                       IN  /\ backoff(base, attempt, max) \subseteq 1 .. max
                           /\ ~overflows => \A w \in backoffDuration(base, attempt, max) : 4 * w \in 3 * d .. 5 * d
                           /\ ~overflows /\ attempt < Width - 2 => BackoffCap(base, attempt, max) = d
    BY Zenon DEF BackoffInRange
  <2>. PICK up : up = base * 2 ^ attempt
    BY Zenon
  <2>. PICK s : s = Shift(base, attempt)
    BY Zenon
  <2>. PICK half : half = 2 ^ (Width - 1)
    BY Zenon
  <2>1. max \in Nat \ {0} /\ base \in Nat \ {0} /\ base <= max
    OBVIOUS
  <2>2. up \in Nat \ {0}
    BY <2>1, Doubled, Zenon
  <2>3. s = Wrap(up) /\ s \in Int
    BY <2>2, WrapIsInt DEF Shift
  <2>4. half \in Nat /\ (~(up >= half) => s = up)
    <3>1. half \in Nat
      BY HalfRange, Zenon
    <3>2. up < half => s = up
      BY <2>2, <2>3, WrapInRange, Zenon
    <3>. QED  BY <2>2, <3>1, <3>2
  <2>5. Min({up, max}) = IF up > max THEN max ELSE up
    BY <2>1, <2>2, MinOfTwo
  <2>6. BackoffCap(base, attempt, max) \in 1 .. max
    BY <2>1, <2>3 DEF BackoffCap
  <2>7. backoff(base, attempt, max) \subseteq 1 .. max
    BY <2>1, <2>6 DEF backoff
  <2>8. ASSUME ~(up >= half)
        PROVE  \A w \in backoffDuration(base, attempt, max) : 4 * w \in 3 * Min({up, max}) .. 5 * Min({up, max})
    <3>. PICK d : d = Min({up, max})
      BY Zenon
    <3>1. d \in Nat \ {0} /\ d = IF s > max THEN max ELSE s
      BY <2>1, <2>2, <2>4, <2>5, <2>8
    <3>2. backoffDuration(base, attempt, max) =
            IF d \div 2 <= 0 THEN {d} ELSE {(d + n) - (d \div 4) : n \in 0 .. (d \div 2) - 1}
      BY <3>1, Zenon DEF backoffDuration
    <3>. QED  BY <3>1, <3>2, Jitter, Zenon
  <2>9. ASSUME ~(up >= half), attempt < Width - 2
        PROVE  BackoffCap(base, attempt, max) = Min({up, max})
    <3>1. ~(attempt >= Width - 2)
      BY <2>9, WidthAssumption
    <3>2. BackoffCap(base, attempt, max) = IF s <= 0 \/ s > max THEN max ELSE s
      BY <3>1, Zenon DEF BackoffCap
    <3>. QED  BY <2>1, <2>2, <2>4, <2>5, <2>9, <3>2
  <2>. QED  BY <2>7, <2>8, <2>9, Zenon
<1>. QED  BY <1>1, PTL
=============================================================================
