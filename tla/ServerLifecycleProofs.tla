----------------------- MODULE ServerLifecycleProofs -----------------------
(***************************************************************************)
(* What ServerLifecycle promises for every configuration, whatever fails   *)
(* and however many calls there are: the probes tell the truth, what was   *)
(* opened is closed, the repository outlives the calls, exit code 0 means  *)
(* a clean stop, no server is left waiting to report its error, and the    *)
(* log level is one that was configured.                                   *)
(***************************************************************************)
EXTENDS ServerLifecycle, FiniteSetTheorems, TLAPS

Elems(q) == {q[i] : i \in 1 .. Len(q)}
Asked == {s \in Servers : Enabled(s)}
Resources == Servers \cup {"tracing", "repository", "limiter"}

Early == {"load", "start", "tracing", "storage", "server", "listen"}
Up == {"ready", "serving", "wait", "unready", "notserving", "drain"}
Down == {"draining", "shutdown", "closing"}
Final == {"return", "exited"}

Types ==
  /\ pc \in Early \cup Up \cup Down \cup Final \cup {"killed"}
  /\ todo \in Seq(Servers) /\ open \in SUBSET Resources /\ deferred \in Seq(Resources)
  /\ srv \in [Servers -> {"off", "starting", "serving", "failed", "closed", "reported"}]
  /\ stopped \in SUBSET Servers /\ calls \in [Servers -> Nat]
  /\ errCh \in Seq({"failed", "closed"})
  /\ err \in (Errors \ {"closed"}) \cup {None} /\ exit \in {None, 0, 1}

\* What is open has its deferred call still to come, or is the limiter that
\* newGRPCServer leaves behind.
Owed ==
  /\ pc # "killed" => open \subseteq Elems(deferred) \cup {r \in {"limiter"} : err = "tls"}
  /\ err = "tls" => pc \in Final /\ "limiter" \in open \ Elems(deferred)
  /\ pc \in {"load", "start", "tracing", "storage", "server"} =>
       Elems(deferred) \subseteq {"tracing", "repository"}
  /\ pc \in {"load", "exited"} => deferred = <<>>

\* The listeners are open before anything is served.
Listening ==
  /\ pc \in {"server", "listen"} \cup Up \cup Down => "repository" \in open
  /\ pc = "listen" => Asked \subseteq open \cup Elems(todo)
  /\ ready = TRUE => pc \in {"serving", "wait", "unready"}
  /\ status = TRUE => pc \in {"wait", "unready", "notserving"}

Listens(s) == srv[s] \in {"starting", "serving"} /\ s \in open

\* Calls and errors come from servers that were started; until the drain each
\* has its listener, or the listener has failed.
Serving ==
  /\ pc \in Early => \A s \in Servers : srv[s] = "off"
  /\ pc \in Early \cup Up => stopped = {}
  /\ pc \in Up \cup Down => \A s \in Servers \ Asked : srv[s] = "off"
  /\ pc \in Up => \A s \in Asked : Listens(s) \/ srv[s] \in {"failed", "reported"}
  /\ \A s \in Servers : srv[s] \in {"off", "starting"} => calls[s] = 0
  /\ \A s \in Servers : srv[s] = "reported" => errCh # <<>> \/ err # None
  /\ stopped = {} => errCh \in Seq({"failed"}) /\ \A s \in Servers : srv[s] # "closed"

Quiet(s) == calls[s] = 0 \/ (s # "grpc" /\ expired = TRUE /\ err # None)

\* A server that has been stopped takes no more calls; those it has end, except
\* for those of an HTTP server when the time is up.
Stopping ==
  /\ pc \in Down => "grpc" \in stopped
  /\ pc \in {"shutdown", "closing"} =>
       calls["grpc"] = 0 /\ \A s \in Asked \ Elems(todo) : s \in stopped /\ Quiet(s)
  /\ pc = "closing" => todo # <<>> /\ Head(todo) \in stopped
  /\ pc \in Final => \A s \in Servers : (srv[s] = "off" \/ s \in stopped) /\ Quiet(s)

\* run goes on from its select, and ends, because of a signal or of an error.
Asking ==
  /\ pc \in Early \cup {"ready", "serving", "wait"} => err = None
  /\ pc \in {"unready", "notserving", "drain", "return"} \cup Down => sig = TRUE \/ err # None
  /\ pc # "exited" => exit = None
  /\ exit = 0 => err = None /\ sig = TRUE

Reported == {s \in Servers : srv[s] = "reported"}
Counted == Len(errCh) <= Cardinality(Reported)

IInv == Types /\ Owed /\ Listening /\ Serving /\ Stopping /\ Asking /\ Counted
-----------------------------------------------------------------------------
(* Sequences as sets *)

LEMMA ElemsEmpty == Elems(<<>>) = {}
  BY DEF Elems

LEMMA ElemsConcat ==
  ASSUME NEW S, NEW p \in Seq(S), NEW q \in Seq(S)
  PROVE  Elems(p \o q) = Elems(p) \cup Elems(q)
<1> DEFINE c == p \o q
<1>1. /\ c \in Seq(S) /\ Len(p) \in Nat /\ Len(q) \in Nat /\ Len(c) = Len(p) + Len(q)
      /\ \A i \in 1 .. Len(p) : c[i] = p[i]
      /\ \A i \in 1 .. Len(q) : c[Len(p) + i] = q[i]
  OBVIOUS
<1> HIDE DEF c
<1>2. ASSUME NEW x \in Elems(c)  PROVE x \in Elems(p) \cup Elems(q)
  <2>1. PICK i \in 1 .. Len(c) : x = c[i]
    BY Zenon DEF Elems
  <2>2. CASE i \in 1 .. Len(p)
    BY <1>1, <2>1, <2>2, Zenon DEF Elems
  <2>3. CASE i \notin 1 .. Len(p)
    <3>1. i - Len(p) \in 1 .. Len(q) /\ Len(p) + (i - Len(p)) = i
      BY <1>1, <2>1, <2>3
    <3> QED  BY <1>1, <2>1, <3>1, Zenon DEF Elems
  <2> QED  BY <2>2, <2>3, Zenon
<1>3. ASSUME NEW x \in Elems(p)  PROVE x \in Elems(c)
  <2>1. PICK i \in 1 .. Len(p) : x = p[i]
    BY Zenon DEF Elems
  <2>2. i \in 1 .. Len(c) /\ c[i] = x
    BY <1>1, <2>1
  <2> QED  BY <2>2, Zenon DEF Elems
<1>4. ASSUME NEW x \in Elems(q)  PROVE x \in Elems(c)
  <2>1. PICK i \in 1 .. Len(q) : x = q[i]
    BY Zenon DEF Elems
  <2>2. Len(p) + i \in 1 .. Len(c) /\ c[Len(p) + i] = x
    BY <1>1, <2>1
  <2> QED  BY <2>2, Zenon DEF Elems
<1>5. Elems(c) = Elems(p) \cup Elems(q)
  BY <1>2, <1>3, <1>4, Zenon
<1> QED  BY <1>1, <1>5, Zenon DEF c

LEMMA ElemsOne ==
  ASSUME NEW S, NEW r \in S
  PROVE  <<r>> \in Seq(S) /\ Elems(<<r>>) = {r}
<1>1. <<r>> \in Seq(S) /\ Len(<<r>>) = 1 /\ <<r>>[1] = r
  OBVIOUS
<1>2. 1 .. 1 = {1}
  OBVIOUS
<1> QED  BY <1>1, <1>2, Zenon DEF Elems

LEMMA ElemsCons ==
  ASSUME NEW S, NEW r \in S, NEW q \in Seq(S)
  PROVE  <<r>> \o q \in Seq(S) /\ Elems(<<r>> \o q) = {r} \cup Elems(q)
<1> DEFINE one == <<r>>
<1>1. one \in Seq(S) /\ Elems(one) = {r}
  BY ElemsOne, Zenon
<1> HIDE DEF one
<1>2. Elems(one \o q) = Elems(one) \cup Elems(q)
  BY <1>1, ElemsConcat
<1>3. one \o q \in Seq(S)
  BY <1>1
<1> QED  BY <1>1, <1>2, <1>3, Zenon DEF one

LEMMA ElemsTail ==
  ASSUME NEW S, NEW q \in Seq(S), q # <<>>
  PROVE  /\ Head(q) \in S /\ Tail(q) \in Seq(S) /\ Len(Tail(q)) = Len(q) - 1
         /\ Elems(q) = {Head(q)} \cup Elems(Tail(q))
<1> DEFINE t == Tail(q)
<1>1. /\ t \in Seq(S) /\ Len(q) \in Nat /\ Len(t) = Len(q) - 1 /\ Head(q) = q[1] /\ q[1] \in S
      /\ \A i \in 1 .. Len(t) : t[i] = q[i + 1]
  OBVIOUS
<1> HIDE DEF t
<1>2. ASSUME NEW x \in Elems(q), x # Head(q)  PROVE x \in Elems(t)
  <2>1. PICK i \in 1 .. Len(q) : x = q[i]
    BY Zenon DEF Elems
  <2>2. i - 1 \in 1 .. Len(t) /\ (i - 1) + 1 = i
    BY <1>1, <1>2, <2>1
  <2>3. t[i - 1] = x
    BY <1>1, <2>1, <2>2, Zenon
  <2> QED  BY <2>2, <2>3, Zenon DEF Elems
<1>3. ASSUME NEW x \in Elems(t)  PROVE x \in Elems(q)
  <2>1. PICK i \in 1 .. Len(t) : x = t[i]
    BY Zenon DEF Elems
  <2>2. i + 1 \in 1 .. Len(q) /\ q[i + 1] = x
    BY <1>1, <2>1
  <2> QED  BY <2>2, Zenon DEF Elems
<1>4. Head(q) \in Elems(q)
  <2>1. Len(t) \in Nat
    BY <1>1
  <2>2. 1 \in 1 .. Len(q)
    BY <1>1, <2>1
  <2> QED  BY <1>1, <2>2, Zenon DEF Elems
<1>5. Elems(q) = {Head(q)} \cup Elems(t)
  BY <1>2, <1>3, <1>4, Zenon
<1> QED  BY <1>1, <1>5, Zenon DEF t

LEMMA StartedLists ==
  /\ Started \in Seq(Servers) /\ Tail(Started) \in Seq(Servers)
  /\ Asked \subseteq Elems(Started) /\ Asked \subseteq {"grpc"} \cup Elems(Tail(Started))
<1> DEFINE m == Optional("metrics")
           g == Optional("gateway")
           b == <<"grpc", "health">>
<1>1. /\ m \in Seq(Servers) /\ (Enabled("metrics") => "metrics" \in Elems(m))
      /\ g \in Seq(Servers) /\ (Enabled("gateway") => "gateway" \in Elems(g))
  <2>1. ASSUME NEW s \in Servers
        PROVE  Optional(s) \in Seq(Servers) /\ (Enabled(s) => s \in Elems(Optional(s)))
    <3>1. CASE Enabled(s)
      BY <3>1, ElemsOne, Zenon DEF Optional
    <3>2. CASE ~Enabled(s)
      BY <3>2 DEF Optional
    <3> QED  BY <3>1, <3>2, Zenon
  <2> QED  BY <2>1, Zenon DEF Servers
<1>2. b = <<"grpc">> \o <<"health">>
  OBVIOUS
<1> DEFINE one == <<"grpc">>
           two == <<"health">>
<1>3. ASSUME NEW p \in Seq(Servers), NEW q \in Seq(Servers)
      PROVE  Elems(p \o q) = Elems(p) \cup Elems(q)
  BY ElemsConcat
<1>4. /\ one \in Seq(Servers) /\ Elems(one) = {"grpc"}
       /\ two \in Seq(Servers) /\ Elems(two) = {"health"} /\ b = one \o two
  BY <1>2, ElemsOne, Zenon DEF Servers
<1>5. b # <<>> /\ Head(b) = "grpc"
  OBVIOUS
<1> HIDE DEF m, g, b, one, two
<1>6. b \in Seq(Servers)
  BY <1>4
<1>7. Elems(b) = {"grpc", "health"}
  BY <1>3, <1>4
<1>8. b \o m \in Seq(Servers) /\ (b \o m) \o g \in Seq(Servers)
  BY <1>1, <1>6
<1>9. Elems(b \o m) = Elems(b) \cup Elems(m) /\ Elems((b \o m) \o g) = Elems(b \o m) \cup Elems(g)
  BY <1>1, <1>6, <1>8, <1>3, Zenon
<1>10. Started = (b \o m) \o g
  BY Zenon DEF Started, b, m, g
<1>11. ASSUME NEW p \in Seq(Servers), NEW q \in Seq(Servers), p # <<>>
      PROVE  p \o q # <<>> /\ Head(p \o q) = Head(p)
  BY <1>11
<1>12. Started # <<>> /\ Head(Started) = "grpc"
  BY <1>1, <1>5, <1>6, <1>8, <1>10, <1>11, Zenon
<1>13. Asked \subseteq Elems(Started)
  BY <1>1, <1>7, <1>9, <1>10, Zenon DEF Asked, Servers
<1>14. Started \in Seq(Servers)
  BY <1>8, <1>10, Zenon
<1> QED  BY <1>12, <1>13, <1>14, ElemsTail, Zenon
-----------------------------------------------------------------------------
(* The invariant *)

USE DEF setup, resources, serving, probes, drain, outcome, signals
USE DEF startFrame, runFrame, others, watcherFrame
USE DEF Goto, Early, Up, Down, Final

IInvBut == Types /\ Owed /\ Listening /\ Serving /\ Stopping /\ Asking

LEMMA SameAsked == cfg' = cfg => Asked' = Asked
  BY Zenon DEF Asked, Enabled

\* The goroutines other than run's change nothing these conjuncts speak of.
LEMMA SameControl ==
  ASSUME Owed, Listening, Asking, UNCHANGED <<pc, setup, resources, probes, outcome, sig>>
  PROVE  Owed' /\ Listening' /\ Asking'
<1>1. /\ pc' = pc /\ cfg' = cfg /\ open' = open /\ deferred' = deferred /\ todo' = todo
      /\ ready' = ready /\ status' = status /\ err' = err /\ exit' = exit /\ sig' = sig
  BY Zenon DEF setup, resources, probes, outcome
<1>2. Asked' = Asked
  BY <1>1, SameAsked, Zenon
<1>3. Owed'
  BY <1>1, Zenon DEF Owed
<1>4. Listening'
  BY <1>1, <1>2, Zenon DEF Listening
<1>5. Asking'
  BY <1>1, Zenon DEF Asking
<1> QED  BY <1>3, <1>4, <1>5, Zenon

LEMMA Preserved == IInv /\ [Next]_vars => IInvBut'
<1> SUFFICES ASSUME IInvBut, [Next]_vars PROVE IInvBut'
  BY Zenon DEF IInv, IInvBut
<1> USE DEF IInvBut, Types, Owed, Listening, Serving, Stopping, Asking, Quiet
<1> USE SameAsked, LifecycleAssumption DEF Errors
<1>1. CASE LoadConfig
  BY <1>1, ElemsEmpty DEF LoadConfig
<1>2. CASE Start
  BY <1>2, Zenon DEF Start, Fail
<1> DEFINE Adding(r) == /\ <<r>> \o deferred \in Seq(Resources)
                        /\ Elems(<<r>> \o deferred) = {r} \cup Elems(deferred)
<1>a. \A r \in Resources : Adding(r)
  BY ElemsCons
<1>b. {"tracing", "repository", "limiter"} \subseteq Resources
  BY Zenon DEF Resources
<1> HIDE DEF Adding
<1>3. CASE InitTracing
  <2>1. Adding("tracing")
    BY <1>a, <1>b, Zenon
  <2>2. CASE Acquire("tracing") /\ pc' = "storage" /\ UNCHANGED err
    BY <1>3, <1>b, <2>1, <2>2 DEF InitTracing, Acquire, Adding
  <2>3. CASE UNCHANGED <<open, deferred>>
    BY <1>3, <2>3, Zenon DEF InitTracing, Fail
  <2> QED  BY <1>3, <2>2, <2>3, Zenon DEF InitTracing
<1>4. CASE newGRPCServer
  <2>1. Adding("limiter")
    BY <1>a, <1>b, Zenon
  <2>2. /\ Asked' = Asked /\ Started \in Seq(Servers) /\ Asked \subseteq Elems(Started)
    BY <1>4, StartedLists, Zenon DEF newGRPCServer
  <2>3. CASE pc' = "listen"
    <3>1. open' = open \cup {"limiter"} /\ deferred' = <<"limiter">> \o deferred /\ todo' = Started
          /\ UNCHANGED <<err, startFrame>> /\ pc = "server"
      BY <1>4, <2>3, Zenon DEF newGRPCServer, Acquire, Fail
    <3> QED  BY <2>1, <2>2, <2>3, <3>1, <1>b, SMTT(60) DEF Adding
  <2>4. CASE pc' = "return"
    <3>1. pc = "server" /\ err' = "tls" /\ open' = open \cup {"limiter"}
          /\ UNCHANGED <<todo, deferred, startFrame>>
      BY <1>4, <2>4, Zenon DEF newGRPCServer, Fail
    <3>2. Types'
      BY <1>b, <2>4, <3>1, Zenon
    <3>3. Owed'
      BY <2>4, <3>1, SMTT(60)
    <3> QED  BY <2>2, <2>4, <3>1, <3>2, <3>3, Zenon
  <2> QED  BY <1>4, <2>3, <2>4, Zenon DEF newGRPCServer, Fail
<1>c. todo # <<>> => /\ Head(todo) \in Servers /\ Tail(todo) \in Seq(Servers)
                     /\ Elems(todo) = {Head(todo)} \cup Elems(Tail(todo))
  BY ElemsTail, Zenon
<1>5. CASE StartServing
  <2>1. Asked \subseteq open
    BY <1>5, ElemsEmpty, Zenon DEF StartServing
  <2>2. \A s \in Asked : Listens(s)'
    BY <1>5, <2>1, Zenon DEF StartServing, Asked, Listens
  <2> QED  BY <1>5, <2>2, ElemsEmpty, Zenon DEF StartServing, Asked
<1>6. CASE AwaitStop
  <2>1. errCh # <<>> => Head(errCh) = "failed" /\ Tail(errCh) \in Seq({"failed"})
                        /\ Tail(errCh) \in Seq({"failed", "closed"})
    BY <1>6 DEF AwaitStop, Await
  <2>2. CASE sig /\ UNCHANGED <<errCh, err>>
    BY <1>6, <2>2, Zenon DEF AwaitStop, Await, Listens
  <2>3. CASE errCh # <<>> /\ err' = Head(errCh) /\ errCh' = Tail(errCh)
    BY <1>6, <2>1, <2>3, Zenon DEF AwaitStop, Await, Listens
  <2> QED  BY <1>6, <2>2, <2>3, Zenon DEF AwaitStop, Await
<1>d. "grpc" \in Servers /\ "repository" \notin Servers /\ "limiter" \notin Servers
  BY Zenon DEF Servers
<1>7. CASE Return
  <2>1. /\ Tail(deferred) \in Seq(Resources)
        /\ Elems(deferred) = {Head(deferred)} \cup Elems(Tail(deferred))
    BY <1>7, ElemsTail, Zenon DEF Return
  <2> QED  BY <1>7, <2>1, Zenon DEF Return
<1> HIDE SameAsked, LifecycleAssumption DEF Types, Owed, Listening, Serving, Stopping, Asking, Quiet, Errors
<1>8. CASE openRepository
  <2>0. Adding("repository")
    BY <1>a, <1>b, Zenon
  <2>1. Types'
    BY <1>8, <1>b, <2>0, LifecycleAssumption, Zenon DEF openRepository, Acquire, Fail, Adding, Types, Errors
  <2>2. Owed'
    BY <1>8, <1>b, <2>0, LifecycleAssumption, Zenon DEF openRepository, Acquire, Fail, Adding, Owed, Errors
  <2>3. Listening'
    BY <1>8, <1>b, <2>0, SameAsked, Zenon DEF openRepository, Acquire, Fail, Adding, Listening
  <2>4. Serving'
    BY <1>8, <1>b, <2>0, SameAsked, Zenon DEF openRepository, Acquire, Fail, Adding, Types, Serving
  <2>5. Stopping'
    BY <1>8, <1>b, <2>0, SameAsked, Zenon DEF openRepository, Acquire, Fail, Adding, Types, Serving, Stopping, Quiet
  <2>6. Asking'
    BY <1>8, <1>b, <2>0, LifecycleAssumption, Zenon DEF openRepository, Acquire, Fail, Adding, Types, Asking, Errors
  <2> QED  BY <2>1, <2>2, <2>3, <2>4, <2>5, <2>6, Zenon
<1>9. CASE Listen
  <2>0. Head(todo) \in Resources /\ Adding(Head(todo))
    BY <1>9, <1>a, <1>c, Zenon DEF Listen, Resources, Types
  <2>1. Types'
    BY <1>9, <1>c, <2>0, LifecycleAssumption, Zenon DEF Listen, Acquire, Fail, Adding, Types, Errors
  <2>2. Owed'
    BY <1>9, <1>c, <2>0, LifecycleAssumption, Zenon DEF Listen, Acquire, Fail, Adding, Owed, Errors
  <2>3. Listening'
    BY <1>9, <1>c, <2>0, SameAsked, Zenon DEF Listen, Acquire, Fail, Adding, Listening
  <2>4. Serving'
    BY <1>9, <1>c, <2>0, SameAsked, Zenon DEF Listen, Acquire, Fail, Adding, Types, Serving
  <2>5. Stopping'
    BY <1>9, <1>c, <2>0, SameAsked, Zenon DEF Listen, Acquire, Fail, Adding, Types, Serving, Stopping, Quiet
  <2>6. Asking'
    BY <1>9, <1>c, <2>0, LifecycleAssumption, Zenon DEF Listen, Acquire, Fail, Adding, Types, Asking, Errors
  <2> QED  BY <2>1, <2>2, <2>3, <2>4, <2>5, <2>6, Zenon
<1>10. CASE MarkReady \/ MarkServing
  <2>1. Types'
    BY <1>10, LifecycleAssumption, Zenon DEF MarkReady, MarkServing, Types, Errors
  <2>2. Owed'
    BY <1>10, LifecycleAssumption, Zenon DEF MarkReady, MarkServing, Owed, Errors
  <2>3. Listening'
    BY <1>10, SameAsked, Zenon DEF MarkReady, MarkServing, Listening
  <2>4. Serving'
    BY <1>10, SameAsked, Zenon DEF MarkReady, MarkServing, Types, Serving, Listens
  <2>5. Stopping'
    BY <1>10, SameAsked, Zenon DEF MarkReady, MarkServing, Types, Serving, Stopping, Quiet
  <2>6. Asking'
    BY <1>10, LifecycleAssumption, Zenon DEF MarkReady, MarkServing, Types, Asking, Errors
  <2> QED  BY <2>1, <2>2, <2>3, <2>4, <2>5, <2>6, Zenon
<1>11. CASE MarkUnready \/ MarkNotServing
  <2>1. Types'
    BY <1>11, LifecycleAssumption, Zenon DEF MarkUnready, MarkNotServing, Types, Errors
  <2>2. Owed'
    BY <1>11, LifecycleAssumption, Zenon DEF MarkUnready, MarkNotServing, Owed, Errors
  <2>3. Listening'
    BY <1>11, SameAsked, Zenon DEF MarkUnready, MarkNotServing, Listening
  <2>4. Serving'
    BY <1>11, SameAsked, Zenon DEF MarkUnready, MarkNotServing, Types, Serving, Listens
  <2>5. Stopping'
    BY <1>11, SameAsked, Zenon DEF MarkUnready, MarkNotServing, Types, Serving, Stopping, Quiet
  <2>6. Asking'
    BY <1>11, LifecycleAssumption, Zenon DEF MarkUnready, MarkNotServing, Types, Asking, Errors
  <2> QED  BY <2>1, <2>2, <2>3, <2>4, <2>5, <2>6, Zenon
<1>12. CASE DrainGRPC
  <2>1. Types'
    BY <1>12, <1>d, LifecycleAssumption, Zenon DEF DrainGRPC, Stop, Types, Errors
  <2>2. Owed'
    BY <1>12, <1>d, LifecycleAssumption, Zenon DEF DrainGRPC, Stop, Owed, Errors
  <2>3. Listening'
    BY <1>12, <1>d, SameAsked, Zenon DEF DrainGRPC, Stop, Listening
  <2>4. Serving'
    BY <1>12, <1>d, SameAsked, Zenon DEF DrainGRPC, Stop, Types, Serving
  <2>5. Stopping'
    BY <1>12, <1>d, SameAsked, Zenon DEF DrainGRPC, Stop, Types, Serving, Stopping, Quiet
  <2>6. Asking'
    BY <1>12, <1>d, LifecycleAssumption, Zenon DEF DrainGRPC, Stop, Types, Asking, Errors
  <2> QED  BY <2>1, <2>2, <2>3, <2>4, <2>5, <2>6, Zenon
<1>13. CASE ForceStop
  <2>1. Types'
    BY <1>13, <1>d, LifecycleAssumption, Zenon DEF ForceStop, Types, Errors
  <2>2. Owed'
    BY <1>13, <1>d, LifecycleAssumption, Zenon DEF ForceStop, Owed, Errors
  <2>3. Listening'
    BY <1>13, <1>d, SameAsked, Zenon DEF ForceStop, Listening
  <2>4. Serving'
    BY <1>13, <1>d, SameAsked, Zenon DEF ForceStop, Types, Serving
  <2>5. Stopping'
    BY <1>13, <1>d, SameAsked, Zenon DEF ForceStop, Types, Serving, Stopping, Quiet
  <2>6. Asking'
    BY <1>13, <1>d, LifecycleAssumption, Zenon DEF ForceStop, Types, Asking, Errors
  <2> QED  BY <2>1, <2>2, <2>3, <2>4, <2>5, <2>6, Zenon
<1>14. CASE Drained
  <2>0. /\ Asked' = Asked /\ todo' \in Seq(Servers) /\ Asked \subseteq {"grpc"} \cup Elems(todo')
    BY <1>14, StartedLists, SameAsked, Zenon DEF Drained
  <2>1. Types'
    BY <1>14, <1>d, <2>0, LifecycleAssumption, Zenon DEF Drained, Types, Errors
  <2>2. Owed'
    BY <1>14, <1>d, <2>0, LifecycleAssumption, Zenon DEF Drained, Owed, Errors
  <2>3. Listening'
    BY <1>14, <1>d, <2>0, SameAsked, Zenon DEF Drained, Listening
  <2>4. Serving'
    BY <1>14, <1>d, <2>0, SameAsked, Zenon DEF Drained, Types, Serving
  <2>5. Stopping'
    BY <1>14, <1>d, <2>0, SameAsked, Zenon DEF Drained, Types, Serving, Stopping, Quiet
  <2>6. Asking'
    BY <1>14, <1>d, <2>0, LifecycleAssumption, Zenon DEF Drained, Types, Asking, Errors
  <2> QED  BY <2>1, <2>2, <2>3, <2>4, <2>5, <2>6, Zenon
<1>15. CASE Shutdown
  <2>1. Types'
    BY <1>15, <1>c, <1>d, LifecycleAssumption, Zenon DEF Shutdown, Stop, Types, Errors
  <2>2. Owed'
    BY <1>15, <1>c, <1>d, LifecycleAssumption, Zenon DEF Shutdown, Stop, Owed, Errors
  <2>3. Listening'
    BY <1>15, <1>c, <1>d, SameAsked, Zenon DEF Shutdown, Stop, Listening
  <2>4. Serving'
    BY <1>15, <1>c, <1>d, SameAsked, Zenon DEF Shutdown, Stop, Types, Serving
  <2>5. Stopping'
    BY <1>15, <1>c, <1>d, SameAsked, Zenon DEF Shutdown, Stop, Types, Serving, Stopping, Quiet
  <2>6. Asking'
    BY <1>15, <1>c, <1>d, LifecycleAssumption, Zenon DEF Shutdown, Stop, Types, Asking, Errors
  <2> QED  BY <2>1, <2>2, <2>3, <2>4, <2>5, <2>6, Zenon
<1>16. CASE ShutdownReturns
  <2>0. /\ pc = "closing" /\ pc' = "shutdown" /\ todo # <<>> /\ todo' = Tail(todo)
        /\ UNCHANGED <<setup, open, deferred, serving, probes, drain, exit, signals>>
        /\ err' \in {err, "shutdown"} /\ (err # None => err' = err)
        /\ calls[Head(todo)] = 0 \/ (expired = TRUE /\ err' # None)
    BY <1>16, LifecycleAssumption, Zenon DEF ShutdownReturns, Stopping, Types, Errors
  <2>1. Types'
    BY <2>0, <1>c, LifecycleAssumption, Zenon DEF Types, Errors
  <2>2. Owed'
    BY <1>16, <1>c, <1>d, LifecycleAssumption, Zenon DEF ShutdownReturns, Owed, Errors
  <2>3. Listening'
    BY <1>16, <1>c, <1>d, SameAsked, Zenon DEF ShutdownReturns, Listening
  <2>4. Serving'
    BY <1>16, <1>c, <1>d, SameAsked, Zenon DEF ShutdownReturns, Types, Serving
  <2>5. Stopping'
    <3>1. Asked' = Asked
      BY <2>0, SameAsked, Zenon
    <3>2. /\ "grpc" \in stopped /\ calls["grpc"] = 0 /\ Head(todo) \in stopped
          /\ \A s \in Asked \ Elems(todo) : s \in stopped /\ Quiet(s)
      BY <2>0, Zenon DEF Stopping
    <3>3. ASSUME NEW s \in Asked \ Elems(Tail(todo)) PROVE s \in stopped /\ Quiet(s)'
      <4>1. CASE s = Head(todo)
        BY <2>0, <3>2, <4>1, Zenon DEF Quiet
      <4>2. CASE s # Head(todo)
        BY <1>c, <2>0, <3>2, <3>3, <4>2, Zenon DEF Quiet
      <4> QED  BY <4>1, <4>2, Zenon
    <3> HIDE DEF IInvBut
    <3> QED  BY <2>0, <3>1, <3>2, <3>3, Zenon DEF Stopping
  <2>6. Asking'
    BY <1>16, <1>c, <1>d, LifecycleAssumption, Zenon DEF ShutdownReturns, Types, Asking, Errors
  <2> QED  BY <2>1, <2>2, <2>3, <2>4, <2>5, <2>6, Zenon
<1>17. CASE EndDrain
  <2>1. Types'
    BY <1>17, ElemsEmpty, <1>d, LifecycleAssumption, Zenon DEF EndDrain, Types, Errors
  <2>2. Owed'
    BY <1>17, ElemsEmpty, <1>d, LifecycleAssumption, Zenon DEF EndDrain, Owed, Errors
  <2>3. Listening'
    BY <1>17, ElemsEmpty, <1>d, SameAsked, Zenon DEF EndDrain, Listening
  <2>4. Serving'
    BY <1>17, ElemsEmpty, <1>d, SameAsked, Zenon DEF EndDrain, Types, Serving
  <2>5. Stopping'
    BY <1>17, ElemsEmpty, <1>d, SameAsked, Zenon DEF EndDrain, Types, Serving, Stopping, Quiet
  <2>6. Asking'
    BY <1>17, ElemsEmpty, <1>d, LifecycleAssumption, Zenon DEF EndDrain, Types, Asking, Errors
  <2> QED  BY <2>1, <2>2, <2>3, <2>4, <2>5, <2>6, Zenon
<1>18. CASE Exit
  <2>1. Types'
    BY <1>18, LifecycleAssumption, Zenon DEF Exit, Types, Errors
  <2>2. Owed'
    BY <1>18, LifecycleAssumption, Zenon DEF Exit, Owed, Errors
  <2>3. Listening'
    BY <1>18, SameAsked, Zenon DEF Exit, Listening
  <2>4. Serving'
    BY <1>18, SameAsked, Zenon DEF Exit, Types, Serving
  <2>5. Stopping'
    BY <1>18, SameAsked, Zenon DEF Exit, Types, Serving, Stopping, Quiet
  <2>6. Asking'
    BY <1>18, LifecycleAssumption DEF Exit, Types, Asking, Errors
  <2> QED  BY <2>1, <2>2, <2>3, <2>4, <2>5, <2>6, Zenon
<1>19. CASE Expire
  <2>1. Types'
    BY <1>19, LifecycleAssumption, Zenon DEF Expire, Types, Errors
  <2>2. Owed'
    BY <1>19, LifecycleAssumption, Zenon DEF Expire, Owed, Errors
  <2>3. Listening'
    BY <1>19, SameAsked, Zenon DEF Expire, Listening
  <2>4. Serving'
    BY <1>19, SameAsked, Zenon DEF Expire, Types, Serving
  <2>5. Stopping'
    BY <1>19, SameAsked, Zenon DEF Expire, Types, Serving, Stopping, Quiet
  <2>6. Asking'
    BY <1>19, LifecycleAssumption, Zenon DEF Expire, Types, Asking, Errors
  <2> QED  BY <2>1, <2>2, <2>3, <2>4, <2>5, <2>6
<1>20. CASE Signal
  <2>1. Types'
    BY <1>20, LifecycleAssumption, Zenon DEF Signal, Types, Errors
  <2>2. Owed'
    BY <1>20, LifecycleAssumption, Zenon DEF Signal, Owed, Errors
  <2>3. Listening'
    BY <1>20, SameAsked, Zenon DEF Signal, Listening
  <2>4. Serving'
    BY <1>20, SameAsked, Zenon DEF Signal, Types, Serving, Listens
  <2>5. Stopping'
    BY <1>20, SameAsked, Zenon DEF Signal, Types, Serving, Stopping, Quiet
  <2>6. Asking'
    BY <1>20, LifecycleAssumption, Zenon DEF Signal, Types, Asking, Errors
  <2> QED  BY <2>1, <2>2, <2>3, <2>4, <2>5, <2>6, Zenon
<1>21. CASE Hangup
  <2>1. Types'
    BY <1>21, ElemsEmpty, LifecycleAssumption DEF Hangup, Types, Errors
  <2>2. Owed'
    BY <1>21, ElemsEmpty, LifecycleAssumption, Zenon DEF Hangup, Owed, Errors
  <2>3. Listening'
    BY <1>21, ElemsEmpty, SameAsked, Zenon DEF Hangup, Listening
  <2>4. Serving'
    BY <1>21, ElemsEmpty, SameAsked DEF Hangup, Types, Serving
  <2>5. Stopping'
    BY <1>21, ElemsEmpty, SameAsked, Zenon DEF Hangup, Types, Serving, Stopping, Quiet
  <2>6. Asking'
    BY <1>21, ElemsEmpty, LifecycleAssumption, Zenon DEF Hangup, Types, Asking, Errors
  <2> QED  BY <2>1, <2>2, <2>3, <2>4, <2>5, <2>6
<1>22. CASE Watch \/ Unwatch \/ Reload \/ UNCHANGED vars
  <2>1. UNCHANGED <<pc, watcherFrame>>
    BY <1>22, Zenon DEF Watch, Unwatch, Reload, vars
  <2>2. Owed' /\ Listening' /\ Asking'
    BY <2>1, SameControl, Zenon
  <2>3. Types'
    BY <2>1, Zenon DEF Types
  <2>4. Serving'
    BY <2>1, SameAsked, Zenon DEF Serving, Listens
  <2>5. Stopping'
    BY <2>1, SameAsked, Zenon DEF Stopping, Quiet
  <2> QED  BY <2>2, <2>3, <2>4, <2>5, Zenon
<1>23. ASSUME NEW s \in Servers, BeginServe(s)  PROVE IInvBut'
  <2>1. Owed' /\ Listening' /\ Asking'
    BY <1>23, SameControl, Zenon DEF BeginServe
  <2>2. Types'
    BY <1>23, Zenon DEF BeginServe, Types
  <2>3. Serving'
    <3>1. /\ UNCHANGED <<pc, cfg, open, stopped, calls, errCh, err>> /\ Asked' = Asked
          /\ srv[s] = "starting" /\ srv'[s] \in {"serving", "closed"}
          /\ srv'[s] = "closed" => stopped # {}
          /\ \A t \in Servers : t # s => srv'[t] = srv[t]
      BY <1>23, SameAsked, Zenon DEF BeginServe, Types
    <3>2. pc \in Up => \A t \in Asked : Listens(t)' \/ srv'[t] \in {"failed", "reported"}
      BY <3>1, Zenon DEF Serving, Listens, Asked
    <3>3. pc \notin Early /\ s \in Servers
      BY <3>1, Zenon DEF Serving
    <3>4. pc \in Up \cup Down => s \in Asked
      BY <3>1, Zenon DEF Serving
    <3> QED  BY <3>1, <3>2, <3>3, <3>4, Zenon DEF Serving
  <2>4. Stopping'
    BY <1>23, SameAsked, Zenon DEF BeginServe, Types, Serving, Stopping, Quiet
  <2> QED  BY <2>1, <2>2, <2>3, <2>4, Zenon
<1>24. ASSUME NEW s \in Servers, ListenerFails(s)  PROVE IInvBut'
  <2>1. Owed' /\ Listening' /\ Asking'
    <3>1. /\ UNCHANGED <<pc, cfg, todo, deferred, err, exit, ready, status, sig>>
          /\ open' = open \ {s} /\ s \notin {"limiter", "repository"}
          /\ pc \notin Early
      BY <1>24, Zenon DEF ListenerFails, Servers, Serving, probes, outcome, signals
    <3>2. Owed'
      BY <3>1, Zenon DEF Owed
    <3>3. Listening' /\ Asking'
      BY <3>1, Zenon DEF Listening, Asking, Early
    <3> QED  BY <3>2, <3>3, Zenon
  <2>2. Types'
    BY <1>24, Zenon DEF ListenerFails, Types
  <2>3. Serving'
    <3>1. /\ UNCHANGED <<pc, cfg, stopped, calls, errCh, err>> /\ Asked' = Asked
          /\ open' = open \ {s} /\ srv[s] = "serving" /\ srv'[s] = "failed"
          /\ \A t \in Servers : t # s => srv'[t] = srv[t]
      BY <1>24, SameAsked, Zenon DEF ListenerFails, Types
    <3>2. pc \in Up => \A t \in Asked : Listens(t)' \/ srv'[t] \in {"failed", "reported"}
      BY <3>1, Zenon DEF Serving, Listens, Asked
    <3>3. pc \notin Early /\ s \in Servers
      BY <3>1, Zenon DEF Serving
    <3>4. pc \in Up \cup Down => s \in Asked
      BY <3>1, Zenon DEF Serving
    <3> QED  BY <3>1, <3>2, <3>3, <3>4, Zenon DEF Serving
  <2>4. Stopping'
    BY <1>24, SameAsked, Zenon DEF ListenerFails, Types, Serving, Stopping, Quiet
  <2> QED  BY <2>1, <2>2, <2>3, <2>4, Zenon
<1>25. ASSUME NEW s \in Servers, ServeReturns(s)  PROVE IInvBut'
  <2>1. Owed' /\ Listening' /\ Asking'
    BY <1>25, SameControl, Zenon DEF ServeReturns
  <2>2. Types'
    BY <1>25, Zenon DEF ServeReturns, Types
  <2>3. Serving'
    BY <1>25, SameAsked, Zenon DEF ServeReturns, Types, Serving, Alive
  <2>4. Stopping'
    BY <1>25, SameAsked, Zenon DEF ServeReturns, Types, Serving, Stopping, Quiet
  <2> QED  BY <2>1, <2>2, <2>3, <2>4, Zenon
<1>26. ASSUME NEW s \in Servers, CallStarts(s)  PROVE IInvBut'
  <2> DEFINE n == calls[s] + 1
  <2>1. calls[s] \in Nat
    BY Zenon DEF Types
  <2>2. n \in Nat
    BY <2>1
  <2>3. /\ pc \notin Early /\ srv[s] \notin {"off", "starting"} /\ s \notin stopped
        /\ calls' = [calls EXCEPT ![s] = n] /\ UNCHANGED <<srv, stopped, errCh, others>>
    BY <1>26, Zenon DEF CallStarts, Serving
  <2> HIDE DEF n
  <2>4. Owed' /\ Listening' /\ Asking'
    BY <2>3, SameControl, Zenon
  <2>5. Types'
    BY <2>2, <2>3, Zenon DEF Types
  <2>6. Serving'
    BY <2>3, SameAsked, Zenon DEF Types, Serving, Listens
  <2>7. Stopping'
    BY <2>3, SameAsked, Zenon DEF Types, Serving, Stopping, Quiet
  <2> QED  BY <2>4, <2>5, <2>6, <2>7, Zenon
<1>27. ASSUME NEW s \in Servers, CallEnds(s)  PROVE IInvBut'
  <2> DEFINE n == calls[s] - 1
  <2>0. calls[s] \in Nat
    BY Zenon DEF Types
  <2>1. n \in Nat /\ calls[s] > 0 /\ calls' = [calls EXCEPT ![s] = n]
        /\ UNCHANGED <<srv, stopped, errCh, others>>
    <3> HIDE DEF IInvBut
    <3> QED  BY <1>27, <2>0 DEF CallEnds
  <2>2. calls[s] # 0
    BY <2>1
  <2> HIDE DEF n
  <2>3. Owed' /\ Listening' /\ Asking'
    BY <2>1, SameControl, Zenon
  <2>4. Types'
    BY <2>1, Zenon DEF Types
  <2>5. Serving'
    BY <2>1, <2>2, SameAsked, Zenon DEF Types, Serving, Listens
  <2>6. Stopping'
    BY <2>1, <2>2, SameAsked, Zenon DEF Types, Stopping, Quiet
  <2> QED  BY <2>3, <2>4, <2>5, <2>6, Zenon
<1>28. ASSUME NEW s \in Servers, Report(s)  PROVE IInvBut'
  <2>1. srv' = [srv EXCEPT ![s] = "reported"] /\ errCh' = Append(errCh, srv[s])
        /\ UNCHANGED <<stopped, calls, others>> /\ srv[s] \in {"failed", "closed"}
    BY <1>28, Zenon DEF Report
  <2>2. errCh' \in Seq({"failed", "closed"}) /\ errCh' # <<>>
    <3>1. errCh \in Seq({"failed", "closed"})
      BY Zenon DEF Types
    <3> HIDE DEF IInvBut
    <3> QED  BY <2>1, <3>1
  <2>3. stopped = {} => errCh' \in Seq({"failed"})
    <3>1. stopped = {} => errCh \in Seq({"failed"}) /\ srv[s] = "failed"
      BY <2>1, Zenon DEF Serving
    <3> HIDE DEF IInvBut
    <3> QED  BY <2>1, <3>1
  <2>4. Owed' /\ Listening' /\ Asking'
    BY <2>1, SameControl, Zenon
  <2>5. Types'
    BY <2>1, <2>2, Zenon DEF Types
  <2>6. Serving'
    <3>1. /\ UNCHANGED <<pc, cfg, open, stopped, calls, err>> /\ Asked' = Asked
          /\ srv[s] \in {"failed", "closed"} /\ srv'[s] = "reported"
          /\ \A t \in Servers : t # s => srv'[t] = srv[t]
      BY <2>1, SameAsked, Zenon DEF Types
    <3>2. pc \in Up => \A t \in Asked : Listens(t)' \/ srv'[t] \in {"failed", "reported"}
      BY <3>1, Zenon DEF Serving, Listens, Asked
    <3>3. pc \notin Early /\ (pc \in Up \cup Down => s \in Asked)
      BY <3>1, Zenon DEF Serving
    <3> QED  BY <2>2, <2>3, <3>1, <3>2, <3>3, Zenon DEF Serving
  <2>7. Stopping'
    BY <2>1, SameAsked, Zenon DEF Types, Stopping, Quiet
  <2> QED  BY <2>4, <2>5, <2>6, <2>7, Zenon
<1> QED
  BY <1>1, <1>2, <1>3, <1>4, <1>5, <1>6, <1>7, <1>8, <1>9, <1>10, <1>11, <1>12, <1>13, <1>14,
     <1>15, <1>16, <1>17, <1>18, <1>19, <1>20, <1>21, <1>22, <1>23, <1>24, <1>25, <1>26, <1>27,
     <1>28, Zenon DEF Next, Run, Serve

LEMMA FourServers == IsFiniteSet(Servers) /\ Cardinality(Servers) = 4
<1>1. IsFiniteSet({}) /\ Cardinality({}) = 0
  BY FS_EmptySet, Zenon
<1>2. IsFiniteSet({} \cup {"grpc"}) /\ Cardinality({} \cup {"grpc"}) = 1
  BY <1>1, FS_AddElement
<1>3. IsFiniteSet({"grpc"} \cup {"health"}) /\ Cardinality({"grpc"} \cup {"health"}) = 2
  <2>1. {} \cup {"grpc"} = {"grpc"}
    BY Zenon
  <2> QED  BY <1>2, <2>1, FS_AddElement
<1>4. IsFiniteSet({"grpc", "health"} \cup {"metrics"})
      /\ Cardinality({"grpc", "health"} \cup {"metrics"}) = 3
  <2>1. {"grpc"} \cup {"health"} = {"grpc", "health"}
    BY Zenon
  <2> QED  BY <1>3, <2>1, FS_AddElement
<1>5. IsFiniteSet({"grpc", "health", "metrics"} \cup {"gateway"})
      /\ Cardinality({"grpc", "health", "metrics"} \cup {"gateway"}) = 4
  <2>1. {"grpc", "health"} \cup {"metrics"} = {"grpc", "health", "metrics"}
    BY Zenon
  <2> QED  BY <1>4, <2>1, FS_AddElement
<1>6. {"grpc", "health", "metrics"} \cup {"gateway"} = Servers
  BY Zenon DEF Servers
<1> QED  BY <1>5, <1>6, Zenon

LEMMA CountedKept == IInv /\ [Next]_vars => Counted'
<1> SUFFICES ASSUME IInv, [Next]_vars PROVE Counted'
  BY Zenon
<1> USE DEF IInv, Types, Counted
<1>1. IsFiniteSet(Servers)
  BY FourServers, Zenon
<1>2. IsFiniteSet(Reported) /\ IsFiniteSet(Reported')
  BY <1>1, FS_Subset, Zenon DEF Reported
<1>3. Cardinality(Reported) \in Nat /\ Cardinality(Reported') \in Nat
  BY <1>2, FS_CardinalityType, Zenon
<1>4. CASE \E s \in Servers : Report(s)
  <2>1. PICK s \in Servers : Report(s)
    BY <1>4, Zenon
  <2>2. Reported' = Reported \cup {s} /\ s \notin Reported
    BY <2>1, Zenon DEF Report, Reported
  <2>3. Cardinality(Reported') = Cardinality(Reported) + 1
    BY <1>2, <2>2, FS_AddElement, Zenon
  <2>4. Len(errCh') = Len(errCh) + 1
    BY <2>1 DEF Report
  <2> QED  BY <1>3, <2>3, <2>4
<1>5. CASE Reported \subseteq Reported' /\ Len(errCh') <= Len(errCh) /\ Len(errCh') \in Nat
  <2>1. Cardinality(Reported) <= Cardinality(Reported')
    BY <1>2, <1>5, FS_Subset, Zenon
  <2> QED  BY <1>3, <1>5, <2>1
<1>6. CASE AwaitStop
  <2>1. Len(Tail(errCh)) <= Len(errCh) \/ errCh = <<>>
    BY ElemsTail
  <2> QED  BY <1>5, <1>6, <2>1 DEF AwaitStop, Await, Reported
<1>7. CASE errCh' = errCh /\ srv' = srv
  BY <1>7, Zenon DEF Reported
<1>8. CASE StartServing \/ Hangup
  <2>1. CASE StartServing
    <3>1. Reported = {}
      BY <2>1, Zenon DEF StartServing, Reported, Serving
    <3> QED  BY <1>5, <2>1, <3>1 DEF StartServing
  <2>2. CASE Hangup
    <3>1. Len(errCh') = 0
      BY <2>2, Zenon DEF Hangup
    <3> QED  BY <1>3, <3>1
  <2> QED  BY <1>8, <2>1, <2>2, Zenon
<1>9. ASSUME NEW s \in Servers, BeginServe(s) \/ ListenerFails(s) \/ ServeReturns(s)
      PROVE  Counted'
  BY <1>5, <1>9, Zenon DEF BeginServe, ListenerFails, ServeReturns, Reported
<1>10. ASSUME NEW s \in Servers, CallStarts(s) \/ CallEnds(s)
       PROVE  errCh' = errCh /\ srv' = srv
  BY <1>10, Zenon DEF CallStarts, CallEnds
<1>11. CASE Expire \/ Signal \/ Watch \/ Unwatch \/ Reload \/ UNCHANGED vars
  BY <1>7, <1>11, Zenon DEF Expire, Signal, Watch, Unwatch, Reload, vars
<1>12. CASE \/ LoadConfig \/ Start \/ InitTracing \/ openRepository \/ newGRPCServer
            \/ Listen \/ MarkReady \/ MarkServing \/ MarkUnready \/ MarkNotServing
            \/ DrainGRPC \/ ForceStop \/ Drained \/ Shutdown \/ ShutdownReturns \/ EndDrain
            \/ Return \/ Exit
  BY <1>7, <1>12, Zenon DEF LoadConfig, Start, InitTracing, openRepository, newGRPCServer, Listen,
    MarkReady, MarkServing, MarkUnready, MarkNotServing, DrainGRPC, ForceStop, Drained, Shutdown,
    ShutdownReturns, EndDrain, Return, Exit
<1> QED  BY <1>4, <1>6, <1>7, <1>8, <1>9, <1>10, <1>11, <1>12 DEF Next, Run, Serve

LEMMA Initially == Init => IInv
<1> SUFFICES ASSUME Init PROVE IInv
  BY Zenon
<1>1. Types /\ Listening /\ Serving /\ Stopping /\ Asking
  <2>1. Types
    BY DEF Init, Types
  <2>2. Listening /\ Asking
    BY LifecycleAssumption, Zenon DEF Init, Listening, Asking
  <2>3. Serving
    BY DEF Init, Serving
  <2>4. Stopping
    BY Zenon DEF Init, Stopping, Quiet
  <2> QED  BY <2>1, <2>2, <2>3, <2>4, Zenon
<1>2. Owed
  BY ElemsEmpty, LifecycleAssumption, Zenon DEF Init, Owed, Errors
<1>3. Counted
  <2>1. Reported = {} /\ Len(errCh) = 0
    BY Zenon DEF Init, Reported
  <2> QED  BY <2>1, FS_EmptySet DEF Counted
<1> QED  BY <1>1, <1>2, <1>3, Zenon DEF IInv

THEOREM Invariance == Spec => []IInv
<1>1. IInv /\ [Next]_vars => IInv'
  BY Preserved, CountedKept, Zenon DEF IInv, IInvBut
<1> QED  BY Initially, <1>1, PTL DEF Spec
-----------------------------------------------------------------------------
(* What follows from it *)

\* The probes say ready only while the server is: MarkReady comes after every
\* net.Listen, and MarkUnready before GracefulStop.
THEOREM ReadyIsTrue == Spec => []ReadyOnlyWhileServing
<1>1. IInv => ReadyOnlyWhileServing
  BY Zenon DEF IInv, ReadyOnlyWhileServing, Types, Listening, Serving, Listens, Asked, Up
<1> QED  BY Invariance, <1>1, PTL

\* run closes the repository, which it has deferred, only after the drain.
THEOREM RepositoryLast == Spec => []RepositoryOutlivesCalls
<1>1. IInv => RepositoryOutlivesCalls
  BY DEF IInv, RepositoryOutlivesCalls, Types, Listening, Serving, Stopping, Quiet, Alive
<1> QED  BY Invariance, <1>1, PTL

\* The deferred calls of run undo what it has done, whichever step failed.
THEOREM AllClosed == Spec => []NothingLeftOpen
<1>1. IInv => NothingLeftOpen
  BY ElemsEmpty, Zenon DEF IInv, NothingLeftOpen, Types, Owed
<1> QED  BY Invariance, <1>1, PTL

\* main exits with 0 only after a signal and a complete drain.
THEOREM ZeroMeansClean == Spec => []CleanExit
<1>1. IInv => CleanExit
  BY LifecycleAssumption, Zenon DEF IInv, CleanExit, Types, Asking, Stopping, Quiet
<1> QED  BY Invariance, <1>1, PTL

\* errCh is as long as there are servers, so a goroutine that sends its error
\* when run has gone on does not block.
THEOREM RoomToReport == Spec => []ErrChHasRoom
<1>1. ASSUME IInv  PROVE ErrChHasRoom
  <2> SUFFICES ASSUME NEW s \in Servers, srv[s] \in {"failed", "closed"}
               PROVE  Len(errCh) < ErrChCap
    BY Zenon DEF ErrChHasRoom
  <2>1. Reported \subseteq Servers \ {s}
    BY Zenon DEF Reported
  <2>2. IsFiniteSet(Servers \ {s}) /\ Cardinality(Servers \ {s}) = 3
    BY FourServers, FS_RemoveElement
  <2>3. IsFiniteSet(Reported) /\ Cardinality(Reported) <= 3
    BY <2>1, <2>2, FS_Subset
  <2>4. Cardinality(Reported) \in Nat
    BY <2>3, FS_CardinalityType, Zenon
  <2> QED  BY <1>1, <2>3, <2>4 DEF IInv, Counted, Types, ErrChCap
<1> QED  BY Invariance, <1>1, PTL
-----------------------------------------------------------------------------
(* The log level *)

\* What the log level may be in this environment.
Configured(l) ==
  isLogLevel(l) /\ ("logging.level" \in DOMAIN env => l = env["logging.level"])

\* Where it may come from.
Sourced(l) ==
  \/ l = cfg["logging.level"]
  \/ \E f \in Edits : Load(f, env) # Bad /\ l = Load(f, env)["logging.level"]

\* The level comes from a configuration that was loaded in the environment the
\* process has had since main read it.
LevelInv ==
  /\ pc \in {"load", "start"} => level = None /\ watcher = "off"
  /\ pc = "start" => Configured(cfg["logging.level"])
  /\ level # None => Configured(level) /\ Sourced(level)

\* A file that Load accepts has a level, unless the environment has one.
LEMMA LoadedLevel ==
  ASSUME NEW f, NEW e, f # Bad => "logging.level" \in DOMAIN f, Load(f, e) # Bad
  PROVE  /\ isLogLevel(Load(f, e)["logging.level"])
         /\ "logging.level" \in DOMAIN e => Load(f, e)["logging.level"] = e["logging.level"]
<1> DEFINE c == applyEnvironment(f, e)
<1>1. f # Bad /\ c # Bad /\ Validate(c) /\ Load(f, e) = c
  BY Zenon DEF Load
<1>2. isLogLevel(c["logging.level"])
  BY <1>1, Zenon DEF Validate
<1>3. c = [p \in DOMAIN f |->
             IF p \notin DOMAIN e THEN f[p]
             ELSE IF p \in {"auth.api_keys", "auth.api_key_scopes"} THEN splitNonEmpty(e[p])
             ELSE e[p]]
  BY <1>1, Zenon DEF applyEnvironment
<1>4. "logging.level" \in DOMAIN e => c["logging.level"] = e["logging.level"]
  BY <1>1, <1>3, Zenon
<1> QED  BY <1>1, <1>2, <1>4, Zenon

\* SIGHUP sets only a level of a file that is valid as a whole, and the
\* environment keeps its precedence, whenever the signal comes.
THEOREM LevelStaysConfigured == Spec => []LevelIsConfigured
<1>1. Init => LevelInv
  BY Zenon DEF Init, LevelInv
<1>2. LevelInv /\ [Next]_vars => LevelInv'
  <2> SUFFICES ASSUME LevelInv, [Next]_vars  PROVE LevelInv'
    BY Zenon
  <2>1. CASE LoadConfig
    <3>1. UNCHANGED <<level, watcher>> /\ level = None /\ watcher = "off"
      BY <2>1, Zenon DEF LoadConfig, LevelInv, signals
    <3>2. PICK s \in Starts :
            \/ pc' = "exited"
            \/ Load(s.file, s.env) # Bad /\ cfg' = Load(s.file, s.env) /\ env' = s.env
      BY <2>1, Zenon DEF LoadConfig
    <3>3. s.file # Bad => "logging.level" \in DOMAIN s.file
      BY LifecycleAssumption, Zenon
    <3>4. pc' = "start" => Configured(cfg["logging.level"])'
      BY <3>2, <3>3, LoadedLevel DEF Configured
    <3> QED  BY <3>1, <3>4, Zenon DEF LevelInv
  <2>2. CASE Start
    <3>1. pc = "start" /\ pc' \in {"return", "tracing"} /\ env' = env /\ cfg' = cfg
      BY <2>2, Zenon DEF Start, Fail, setup
    <3>2. level' = cfg["logging.level"]
      BY <2>2, <3>1, Zenon DEF Start, LevelInv, Configured, ParseLevel
    <3> QED  BY <3>1, <3>2, Zenon DEF LevelInv, Configured, Sourced
  <2>3. CASE Reload
    <3>1. watcher = "on" /\ UNCHANGED <<pc, cfg, env>>
      BY <2>3, Zenon DEF Reload, watcherFrame, setup
    <3>2. PICK f \in Edits :
            level' = level \/ (Load(f, env) # Bad /\ level' = Load(f, env)["logging.level"])
      BY <2>3, Zenon DEF Reload, SetLevel
    <3>3. f # Bad => "logging.level" \in DOMAIN f
      BY LifecycleAssumption, Zenon
    <3>4. ASSUME level' # level  PROVE Configured(level') /\ Sourced(level')
      <4>1. Load(f, env) # Bad /\ level' = Load(f, env)["logging.level"]
        BY <3>2, <3>4, Zenon
      <4>2. Configured(level')
        BY <3>3, <4>1, LoadedLevel, Zenon DEF Configured
      <4>3. Sourced(level')
        BY <4>1, Zenon DEF Sourced
      <4> QED  BY <4>2, <4>3, Zenon
    <3> QED  BY <3>1, <3>4, Zenon DEF LevelInv, Configured, Sourced
  <2>4. CASE Hangup
    BY <2>4, Zenon DEF Hangup, LevelInv
  <2>5. ASSUME UNCHANGED <<cfg, env, level>>,
               pc' \in {"load", "start"} => pc' = pc /\ UNCHANGED watcher
        PROVE  LevelInv'
    BY <2>5, Zenon DEF LevelInv, Configured, Sourced
  <2>6. CASE InitTracing \/ openRepository \/ newGRPCServer \/ Listen
    BY <2>5, <2>6, Zenon DEF InitTracing, openRepository, newGRPCServer, Listen, Fail, startFrame
  <2>7. CASE StartServing \/ MarkReady \/ MarkServing \/ AwaitStop \/ MarkUnready \/ MarkNotServing
    BY <2>5, <2>7, Zenon DEF StartServing, MarkReady, MarkServing, AwaitStop, MarkUnready,
       MarkNotServing, Await, Goto, runFrame, setup, signals
  <2>8. CASE DrainGRPC \/ ForceStop \/ Drained \/ Shutdown \/ ShutdownReturns \/ EndDrain
    BY <2>5, <2>8, Zenon DEF DrainGRPC, ForceStop, Drained, Shutdown, ShutdownReturns, EndDrain,
       Goto, runFrame, setup, signals
  <2>9. CASE Return \/ Exit
    BY <2>5, <2>9, Zenon DEF Return, Exit, Goto, setup, signals
  <2>10. CASE Expire \/ Signal \/ Watch \/ Unwatch
    BY <2>5, <2>10, Zenon DEF Expire, Signal, Watch, Unwatch, LevelInv, watcherFrame, setup, signals
  <2>11. ASSUME NEW s \in Servers, Serve(s) \/ ListenerFails(s) \/ CallStarts(s) \/ CallEnds(s)
         PROVE  LevelInv'
    BY <2>5, <2>11, Zenon DEF Serve, BeginServe, ServeReturns, Report, ListenerFails, CallStarts,
       CallEnds, others, setup, signals
  <2>12. CASE UNCHANGED vars
    BY <2>5, <2>12, Zenon DEF vars, setup, signals
  <2> QED  BY <2>1, <2>2, <2>3, <2>4, <2>6, <2>7, <2>8, <2>9, <2>10, <2>11, <2>12 DEF Next, Run
<1>3. LevelInv => LevelIsConfigured
  BY Zenon DEF LevelInv, LevelIsConfigured, Configured, Sourced
<1> QED  BY <1>1, <1>2, <1>3, PTL DEF Spec
=============================================================================
