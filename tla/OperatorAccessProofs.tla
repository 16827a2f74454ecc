------------------------ MODULE OperatorAccessProofs ------------------------
(***************************************************************************)
(* Operator accounts for any number of operators, commands, servers and    *)
(* requests: whoever acts had the right to while it was asked for, and no  *)
(* rotation, however it ends, strands an operator.  The issuer page is one *)
(* of the service's clients, and acts as it showed.                        *)
(***************************************************************************)
EXTENDS IssuerConsole, TLAPS

Provisions == {"create", "rotate"}

(* The credential of a statement that is yet to execute is in its file.    *)
Filed ==
  \A c \in Command : command[c].kind \in Provisions =>
    [id |-> command[c].id, token |-> command[c].token] \in files

(* What a request acts as was granted to its credential while it was       *)
(* served, from its authentication on.                                     *)
Stood(r) ==
  IF Admin(request[r].action)
  THEN \E g \in standing[r] :
         g.id = request[r].actor /\ operatorAllowed(g.role, request[r].action)
  ELSE request[r].actor = "holder"

Authorized ==
  \A r \in Request : request[r].phase \in {"authenticated", "committed"} => Stood(r)

IInv == TypeOK /\ Filed /\ NobodyStranded /\ Authorized

(* What only administration changes.                                       *)
Database == <<account, files, command>>

LEMMA InitIInv == Init => IInv
<1> SUFFICES ASSUME Init PROVE IInv
  OBVIOUS
<1>1. TypeOK
  BY DEF Init, TypeOK, Unused
<1>2. Filed /\ NobodyStranded
  BY DEF Init, Filed, NobodyStranded, Provisions
<1>3. Authorized
  BY DEF Init, Authorized, Unused
<1> QED
  BY <1>1, <1>2, <1>3 DEF IInv

(* Whatever an account has become, its grants are grants.                  *)
LEMMA StandingTyped ==
  ASSUME TypeOK, Remember,
         account' \in [Operator -> Account \cup {None}],
         standing \in [Request -> SUBSET Grant]
  PROVE  standing' \in [Request -> SUBSET Grant]
<1>1. \A o \in Operator : account'[o] # None => As(o)' \in Grant
  BY DEF Account, As, Grant, Actor
<1>2. Recoverer' \in Grant
  BY DEF Recoverer, Grant, Actor
<1>3. \A r \in Request : Grants(r)' \subseteq Grant
  BY <1>1, <1>2 DEF Grants, Holding
<1> QED
  BY <1>3 DEF Remember

(* A request that was authorized stays so as long as it is the same one.   *)
LEMMA SameRequest ==
  ASSUME TypeOK, Authorized, Remember, NEW r \in Request,
         request[r].phase \in {"authenticated", "committed"},
         request'[r].phase # "idle",
         request'[r].action = request[r].action,
         request'[r].actor = request[r].actor
  PROVE  Stood(r)'
<1>1. Stood(r)
  BY DEF Authorized
<1>2. standing[r] \subseteq standing'[r]
  BY DEF Remember
<1> QED
  BY <1>1, <1>2 DEF Stood

(* Administration, with the requests as they are.                          *)
LEMMA StillAuthorized ==
  ASSUME TypeOK, Authorized, Remember, UNCHANGED request PROVE Authorized'
<1> SUFFICES ASSUME NEW r \in Request, request[r].phase \in {"authenticated", "committed"}
             PROVE  Stood(r)'
  BY DEF Authorized
<1> QED
  BY SameRequest

LEMMA ProvisionStep ==
  ASSUME IInv, Remember, NEW c \in Command, NEW kind \in Provisions, NEW o \in Operator,
         NEW role \in Role, Provision(c, kind, o, role)
  PROVE  IInv'
<1>1. PICK token \in Token \ {f.token : f \in files} :
        /\ files' = files \cup {[id |-> o, token |-> token]}
        /\ command' = [command EXCEPT ![c] =
             [kind |-> kind, id |-> o, role |-> role, token |-> token,
              until |-> now + Lifetime]]
        /\ UNCHANGED <<account, recovery, request, now>>
  BY DEF Provision
<1>2. TypeOK'
  <2>1. [kind |-> kind, id |-> o, role |-> role, token |-> token, until |-> now + Lifetime]
          \in Statement
    BY OperatorAssumption DEF IInv, TypeOK, Statement, Provisions
  <2>2. standing' \in [Request -> SUBSET Grant]
    BY <1>1, StandingTyped DEF IInv, TypeOK
  <2> QED
    BY <1>1, <2>1, <2>2 DEF IInv, TypeOK
<1>3. Filed'
  BY <1>1 DEF IInv, TypeOK, Filed
<1>4. NobodyStranded'
  BY <1>1 DEF IInv, NobodyStranded
<1>5. Authorized'
  BY <1>1, StillAuthorized DEF IInv
<1> QED
  BY <1>2, <1>3, <1>4, <1>5 DEF IInv

LEMMA DisableStep ==
  ASSUME IInv, Remember, NEW c \in Command, NEW o \in Operator, Disable(c, o) PROVE IInv'
<1>1. /\ command' = [command EXCEPT ![c] = [kind |-> "disable", id |-> o]]
      /\ UNCHANGED <<account, files, recovery, request, now>>
  BY DEF Disable
<1>2. TypeOK'
  <2>1. [kind |-> "disable", id |-> o] \in Statement
    BY DEF Statement
  <2>2. standing' \in [Request -> SUBSET Grant]
    BY <1>1, StandingTyped DEF IInv, TypeOK
  <2> QED
    BY <1>1, <2>1, <2>2 DEF IInv, TypeOK
<1>3. Filed'
  BY <1>1 DEF IInv, TypeOK, Filed, Provisions
<1>4. NobodyStranded'
  BY <1>1 DEF IInv, NobodyStranded
<1>5. Authorized'
  BY <1>1, StillAuthorized DEF IInv
<1> QED
  BY <1>2, <1>3, <1>4, <1>5 DEF IInv

(* What a statement leaves in the row of its account: an account whose     *)
(* credential is the statement's, or the one it had.                       *)
LEMMA StatementEffect ==
  ASSUME IInv, NEW c \in Command, command[c].kind \notin {"idle", "done"},
         NEW o \in Operator
  PROVE  LET row == Changed(command[c])[o] IN
         /\ Changed(command[c]) \in [Operator -> Account \cup {None}]
         /\ row # None =>
              \/ account[o] # None /\ row.token = account[o].token
              \/ command[c].kind \in Provisions /\ o = command[c].id
                 /\ row.token = command[c].token
<1> DEFINE d == command[c]
<1>1. d \in Statement
  BY DEF IInv, TypeOK
<1>2. account \in [Operator -> Account \cup {None}]
  BY DEF IInv, TypeOK
<1> HIDE DEF d
<1>4. CASE (d.kind = "create") # (account[d.id] = None)
  BY <1>4, <1>2 DEF Changed, d
<1>5. CASE (d.kind = "create") = (account[d.id] = None) /\ d.kind = "disable"
  <2>1. d.id \in Operator /\ account[d.id] \in Account
    BY <1>1, <1>2, <1>5 DEF Statement
  <2>2. Changed(d) = [account EXCEPT ![d.id] = [account[d.id] EXCEPT !.disabled = TRUE]]
    BY <1>5, <1>2, <2>1 DEF Changed
  <2>3. /\ [account[d.id] EXCEPT !.disabled = TRUE] \in Account
        /\ [account[d.id] EXCEPT !.disabled = TRUE].token = account[d.id].token
    BY <2>1 DEF Account
  <2> QED
    BY <2>1, <2>2, <2>3, <1>2, <1>5 DEF d
<1>6. CASE (d.kind = "create") = (account[d.id] = None) /\ d.kind # "disable"
  <2> DEFINE new == [role |-> d.role, token |-> d.token, disabled |-> FALSE, until |-> d.until]
  <2>1. d.kind \in Provisions /\ d.id \in Operator /\ new \in Account
    BY <1>1, <1>6 DEF Statement, Provisions, Account
  <2>2. Changed(d) = [account EXCEPT ![d.id] = new]
    BY <1>6, <1>2, <2>1 DEF Changed
  <2>3. new.token = d.token
    OBVIOUS
  <2> QED
    BY <2>1, <2>2, <2>3, <1>2 DEF d
<1> QED
  BY <1>4, <1>5, <1>6

LEMMA ExecuteStep ==
  ASSUME IInv, Remember, NEW c \in Command, Execute(c) PROVE IInv'
<1>1. /\ command[c].kind \notin {"idle", "done"}
      /\ account' = Changed(command[c])
      /\ command' = [command EXCEPT ![c] = [kind |-> "done"]]
      /\ UNCHANGED <<files, recovery, request, now>>
  BY DEF Execute
<1>2. TypeOK'
  <2>1. account' \in [Operator -> Account \cup {None}]
    <3>1. CASE Operator = {}
      <4>1. command[c] \in Statement
        BY <1>1 DEF IInv, TypeOK
      <4> QED
        BY <4>1, <3>1 DEF Statement
    <3>2. CASE Operator # {}
      BY <3>2, <1>1, StatementEffect
    <3> QED
      BY <3>1, <3>2
  <2>2. standing' \in [Request -> SUBSET Grant]
    BY <2>1, StandingTyped DEF IInv, TypeOK
  <2>3. command' \in [Command -> Statement \cup [kind : {"idle", "done"}]]
    BY <1>1 DEF IInv, TypeOK
  <2> QED
    BY <1>1, <2>1, <2>2, <2>3 DEF IInv, TypeOK
<1>3. Filed'
  BY <1>1 DEF IInv, TypeOK, Filed, Provisions
<1>4. NobodyStranded'
  <2>1. ASSUME NEW o \in Operator, account'[o] # None
        PROVE  [id |-> o, token |-> account'[o].token] \in files
    BY <2>1, <1>1, StatementEffect, SMTT(30) DEF IInv, NobodyStranded, Filed
  <2> QED
    BY <2>1, <1>1 DEF IInv, NobodyStranded
<1>5. Authorized'
  BY <1>1, StillAuthorized DEF IInv
<1> QED
  BY <1>2, <1>3, <1>4, <1>5 DEF IInv

(* Steps of the route and of the clock leave the database alone.           *)
LEMMA ServingStep ==
  ASSUME IInv, Remember, UNCHANGED Database, Authorized',
         recovery' \subseteq Server, now' \in Nat,
         request' \in [Request ->
           [phase : {"idle", "arrived", "authenticated", "committed"},
            server : Server \cup {None}, action : Action \cup {None},
            token : Token \cup {Recovery, None}, actor : Actor \cup {None}]]
  PROVE  IInv'
<1>1. standing' \in [Request -> SUBSET Grant]
  BY StandingTyped DEF IInv, TypeOK, Database
<1>2. TypeOK'
  BY <1>1 DEF IInv, TypeOK, Database
<1>3. Filed' /\ NobodyStranded'
  BY DEF IInv, Filed, NobodyStranded, Database
<1> QED
  BY <1>2, <1>3 DEF IInv

LEMMA TickStep ==
  ASSUME IInv, Remember, Tick PROVE IInv'
<1>1. UNCHANGED <<account, files, command, recovery, request>> /\ now' = now + 1
  BY DEF Tick
<1>2. Authorized'
  BY <1>1, StillAuthorized DEF IInv
<1> QED
  BY <1>1, <1>2, ServingStep DEF IInv, TypeOK, Database

LEMMA ArriveStep ==
  ASSUME IInv, Remember, NEW r \in Request, NEW s \in Server, NEW action \in Action,
         NEW token \in Tokens(action), Arrive(r, s, action, token)
  PROVE  IInv'
<1> DEFINE new == [phase |-> "arrived", server |-> s, action |-> action, token |-> token,
                   actor |-> None]
<1>1. /\ request' = [request EXCEPT ![r] = new]
      /\ UNCHANGED <<account, files, command, recovery, now>>
  BY DEF Arrive
<1>2. new \in [phase : {"idle", "arrived", "authenticated", "committed"},
               server : Server \cup {None}, action : Action \cup {None},
               token : Token \cup {Recovery, None}, actor : Actor \cup {None}]
  BY DEF Tokens
<1>3. Authorized'
  <2> SUFFICES ASSUME NEW q \in Request, request'[q].phase \in {"authenticated", "committed"}
               PROVE  Stood(q)'
    BY DEF Authorized
  <2>1. q # r /\ request'[q] = request[q]
    BY <1>1 DEF IInv, TypeOK
  <2> QED
    BY <2>1, SameRequest DEF IInv
<1> HIDE DEF new
<1> QED
  BY <1>1, <1>2, <1>3, ServingStep DEF IInv, TypeOK, Database

LEMMA AuthenticateStep ==
  ASSUME IInv, Remember, NEW r \in Request, Authenticate(r) PROVE IInv'
<1>1. PICK id \in IF Admin(request[r].action)
                  THEN {a.id : a \in {b \in Authenticated(request[r].server, request[r].token) :
                                        operatorAllowed(b.role, request[r].action)}}
                  ELSE {"holder"} :
        /\ request[r].phase = "arrived"
        /\ request' = [request EXCEPT ![r].phase = "authenticated", ![r].actor = id]
        /\ UNCHANGED <<account, files, command, recovery, now>>
  BY DEF Authenticate
<1>2. /\ request'[r].phase = "authenticated" /\ request'[r].actor = id
      /\ request'[r].server = request[r].server
      /\ request'[r].action = request[r].action
      /\ request'[r].token = request[r].token
      /\ \A q \in Request \ {r} : request'[q] = request[q]
  BY <1>1 DEF IInv, TypeOK
<1>3. Authenticated(request[r].server, request[r].token) \subseteq Grants(r)'
  <2>1. \A o \in Operator : As(o)' = As(o)
    BY <1>1 DEF As
  <2>2. Recoverer' = Recoverer
    BY DEF Recoverer
  <2> QED
    BY <1>1, <1>2, <2>1, <2>2 DEF Authenticated, Grants, Open, Holding, Recoverer
<1>4. Grants(r)' \subseteq standing'[r]
  BY <1>2 DEF Remember
<1>5. Stood(r)'
  <2>1. CASE Admin(request[r].action)
    <3>1. PICK g \in Authenticated(request[r].server, request[r].token) :
            g.id = id /\ operatorAllowed(g.role, request[r].action)
      BY <1>1, <2>1
    <3> QED
      BY <3>1, <2>1, <1>2, <1>3, <1>4 DEF Stood
  <2>2. CASE ~ Admin(request[r].action)
    BY <2>2, <1>1, <1>2 DEF Stood
  <2> QED
    BY <2>1, <2>2
<1>6. Authorized'
  <2> SUFFICES ASSUME NEW q \in Request, request'[q].phase \in {"authenticated", "committed"}
               PROVE  Stood(q)'
    BY DEF Authorized
  <2>1. CASE q = r
    BY <2>1, <1>5
  <2>2. CASE q # r
    BY <2>2, <1>2, SameRequest DEF IInv
  <2> QED
    BY <2>1, <2>2
<1>7. id \in Actor
  <2>1. CASE Admin(request[r].action)
    <3>1. Authenticated(request[r].server, request[r].token) \subseteq Grant
      BY DEF Authenticated, Recoverer, As, Open, Holding, Grant, Actor, IInv, TypeOK, Account
    <3> QED
      BY <3>1, <2>1, <1>1 DEF Grant
  <2>2. CASE ~ Admin(request[r].action)
    BY <2>2, <1>1 DEF Actor
  <2> QED
    BY <2>1, <2>2
<1>8. request' \in [Request ->
        [phase : {"idle", "arrived", "authenticated", "committed"},
         server : Server \cup {None}, action : Action \cup {None},
         token : Token \cup {Recovery, None}, actor : Actor \cup {None}]]
  <2> DEFINE new == [request[r] EXCEPT !.phase = "authenticated", !.actor = id]
  <2>1. request' = [request EXCEPT ![r] = new]
    BY <1>1 DEF IInv, TypeOK
  <2>2. new \in [phase : {"idle", "arrived", "authenticated", "committed"},
                 server : Server \cup {None}, action : Action \cup {None},
                 token : Token \cup {Recovery, None}, actor : Actor \cup {None}]
    BY <1>7 DEF IInv, TypeOK
  <2> HIDE DEF new
  <2> QED
    BY <2>1, <2>2 DEF IInv, TypeOK
<1> QED
  BY <1>1, <1>6, <1>8, ServingStep DEF IInv, TypeOK, Database

LEMMA CommitStep ==
  ASSUME IInv, Remember, NEW r \in Request, Commit(r) PROVE IInv'
<1>1. /\ request[r].phase = "authenticated"
      /\ request' = [request EXCEPT ![r].phase = "committed"]
      /\ UNCHANGED <<account, files, command, recovery, now>>
  BY DEF Commit
<1>2. Authorized'
  <2> SUFFICES ASSUME NEW q \in Request, request'[q].phase \in {"authenticated", "committed"}
               PROVE  Stood(q)'
    BY DEF Authorized
  <2>1. /\ request[q].phase \in {"authenticated", "committed"}
        /\ request'[q].action = request[q].action /\ request'[q].actor = request[q].actor
    BY <1>1 DEF IInv, TypeOK
  <2> QED
    BY <2>1, SameRequest DEF IInv
<1> QED
  BY <1>1, <1>2, ServingStep DEF IInv, TypeOK, Database

(* Requests that end, one by one or with their process.                    *)
LEMMA EndingStep ==
  ASSUME IInv, Remember, UNCHANGED <<account, files, command, now>>,
         recovery' \subseteq Server,
         request' \in [Request ->
           [phase : {"idle", "arrived", "authenticated", "committed"},
            server : Server \cup {None}, action : Action \cup {None},
            token : Token \cup {Recovery, None}, actor : Actor \cup {None}]],
         \A q \in Request : request'[q] \in {request[q], Unused}
  PROVE  IInv'
<1>1. Authorized'
  <2> SUFFICES ASSUME NEW q \in Request, request'[q].phase \in {"authenticated", "committed"}
               PROVE  Stood(q)'
    BY DEF Authorized
  <2>1. request'[q] = request[q]
    BY DEF Unused
  <2> QED
    BY <2>1, SameRequest DEF IInv
<1> QED
  BY <1>1, ServingStep DEF IInv, TypeOK, Database

LEMMA FinishStep ==
  ASSUME IInv, Remember, NEW r \in Request, Finish(r) PROVE IInv'
<1>1. /\ request' = [request EXCEPT ![r] = Unused]
      /\ UNCHANGED <<account, files, command, recovery, now>>
  BY DEF Finish
<1> QED
  BY <1>1, EndingStep DEF IInv, TypeOK, Unused

LEMMA RestartStep ==
  ASSUME IInv, Remember, NEW s \in Server, NEW on \in BOOLEAN, Restart(s, on) PROVE IInv'
<1>1. /\ recovery' = IF on THEN recovery \cup {s} ELSE recovery \ {s}
      /\ request' = [r \in Request |-> IF request[r].server = s THEN Unused ELSE request[r]]
      /\ UNCHANGED <<account, files, command, now>>
  BY DEF Restart
<1> QED
  BY <1>1, EndingStep DEF IInv, TypeOK, Unused

LEMMA NextIInv == IInv /\ [Next]_vars => IInv'
<1> SUFFICES ASSUME IInv, [Next]_vars PROVE IInv'
  OBVIOUS
<1>1. CASE Tick /\ Remember
  BY <1>1, TickStep
<1>2. CASE Administration /\ Remember
  BY <1>2, ProvisionStep, DisableStep, ExecuteStep DEF Administration, Provisions
<1>3. CASE Serve /\ Remember
  BY <1>3, ArriveStep, AuthenticateStep, CommitStep, FinishStep, RestartStep DEF Serve
<1>4. CASE UNCHANGED vars
  <2>1. \A r \in Request : Stood(r)' <=> Stood(r)
    BY <1>4 DEF Stood, vars
  <2> QED
    BY <1>4, <2>1 DEF vars, IInv, TypeOK, Filed, NobodyStranded, Authorized
<1> QED
  BY <1>1, <1>2, <1>3, <1>4 DEF Next

LEMMA Inductive == Spec => []IInv
BY InitIInv, NextIInv, PTL DEF Spec

(* Whatever takes effect was asked for with a credential that was good for *)
(* it at some moment while the request was served, whoever is disabled,    *)
(* rotated or restarted in between.                                        *)
THEOREM Stands == Spec => []ActorStood
<1>1. IInv => ActorStood
  BY DEF IInv, Authorized, ActorStood, Stood
<1> QED
  BY <1>1, Inductive, PTL

(* However the commands overlap, fail or land late, an account's           *)
(* credential is in a file of its operator's, and in nobody else's.        *)
THEOREM NoneStranded == Spec => []NobodyStranded
<1>1. IInv => NobodyStranded
  BY DEF IInv
<1> QED
  BY <1>1, Inductive, PTL

-----------------------------------------------------------------------------
(* The issuer page (ConsoleSpec).                                          *)

Page ==
  [token : Token \cup {Recovery, None}, input : Enrollment \cup {None},
   offer : Enrollment \cup {None}, reference : Credential \cup {None},
   confirmed : BOOLEAN, doing : {None, "approve", "revoke"},
   asked : Enrollment \cup Credential \cup {None}, sent : Request \cup {None}]

(* While the page is at something it waits for a request of its own, and   *)
(* what is being approved is still on display.                             *)
PageInv ==
  /\ page \in Page
  /\ ~ Free => page.sent \in Request
  /\ page.doing = "approve" => page.asked = page.input
  /\ ActsAsShown

LEMMA InitPageInv == ConsoleInit => PageInv
BY DEF ConsoleInit, PageInv, Page, Blank, Free, ActsAsShown

(* The controls, one by one.                                               *)
LEMMA EnterTokenStep ==
  ASSUME PageInv, NEW token \in Token \cup {Recovery}, EnterToken(token) PROVE PageInv'
<1>1. /\ page' = [page EXCEPT !.token = token] /\ UNCHANGED ticked
      /\ page.doing = None
  BY DEF EnterToken, Free
<1>2. /\ page' \in Page
      /\ page'.input = page.input /\ page'.offer = page.offer
      /\ page'.reference = page.reference /\ page'.confirmed = page.confirmed
      /\ page.doing = None /\ page'.doing = None /\ page'.sent = page.sent
  BY <1>1 DEF PageInv, Page
<1> QED
  BY <1>1, <1>2, ConsoleAssumption DEF PageInv, Free, ActsAsShown

LEMMA EnterEnrollmentStep ==
  ASSUME PageInv, NEW e \in Enrollment, EnterEnrollment(e) PROVE PageInv'
<1>1. /\ page' = [page EXCEPT !.input = e, !.offer = None] /\ UNCHANGED ticked
      /\ page.doing = None
  BY DEF EnterEnrollment, Free
<1>2. /\ page' \in Page
      /\ page'.input = e /\ page'.offer = None
      /\ page'.reference = page.reference /\ page'.confirmed = page.confirmed
      /\ page.doing = None /\ page'.doing = None /\ page'.sent = page.sent
  BY <1>1 DEF PageInv, Page
<1> QED
  BY <1>1, <1>2, ConsoleAssumption DEF PageInv, Free, ActsAsShown

LEMMA EnterReferenceStep ==
  ASSUME PageInv, NEW k \in Credential, EnterReference(k) PROVE PageInv'
<1>1. /\ page' = [page EXCEPT !.reference = k, !.confirmed = FALSE] /\ UNCHANGED ticked
      /\ page.doing = None
  BY DEF EnterReference, Free
<1>2. /\ page' \in Page
      /\ page'.input = page.input /\ page'.offer = page.offer /\ ~ page'.confirmed
      /\ page.doing = None /\ page'.doing = None /\ page'.sent = page.sent
  BY <1>1 DEF PageInv, Page
<1> QED
  BY <1>1, <1>2, ConsoleAssumption DEF PageInv, Free, ActsAsShown

LEMMA TickBoxStep ==
  ASSUME PageInv, NEW on \in BOOLEAN, Confirm(on) PROVE PageInv'
<1>1. /\ page' = [page EXCEPT !.confirmed = on]
      /\ ticked' = IF on THEN page.reference ELSE ticked
      /\ page.doing = None
  BY DEF Confirm, Free
<1>2. /\ page' \in Page
      /\ page'.input = page.input /\ page'.offer = page.offer
      /\ page'.reference = page.reference /\ page'.confirmed = on
      /\ page.doing = None /\ page'.doing = None /\ page'.sent = page.sent
  BY <1>1 DEF PageInv, Page
<1> QED
  BY <1>1, <1>2, ConsoleAssumption DEF PageInv, Free, ActsAsShown

LEMMA ActStep ==
  ASSUME PageInv, NEW action \in {"approve", "revoke"}, act(action) PROVE PageInv'
<1>1. PICK r \in Request :
        page' = [page EXCEPT !.doing = action, !.asked = Asked(action), !.sent = r]
  BY DEF act
<1>2. /\ page' \in Page
      /\ page'.input = page.input /\ page'.offer = page.offer
      /\ page'.reference = page.reference /\ page'.confirmed = page.confirmed
      /\ page'.sent = r /\ page'.doing = action /\ page'.asked = Asked(action)
  <2>1. page \in Page
    BY DEF PageInv
  <2>2. PICK e \in Enrollment \cup Credential \cup {None} : e = Asked(action)
    BY <2>1 DEF Page, Asked
  <2> QED
    BY <1>1, <2>1, <2>2 DEF Page
<1>3. UNCHANGED ticked
  BY DEF act
<1>4. action = "revoke" => page.confirmed /\ page.reference # None
  BY DEF act, Enabled
<1> QED
  BY <1>2, <1>3, <1>4, ConsoleAssumption DEF PageInv, Free, ActsAsShown, Asked

LEMMA AnsweredStep == ASSUME PageInv, Answered PROVE PageInv'
<1>1. CASE /\ page.doing = "approve"
           /\ page' = [page EXCEPT !.offer = page.asked, !.doing = None, !.asked = None,
                                  !.sent = None]
  <2>1. /\ page' \in Page
        /\ page'.input = page.input /\ page'.offer = page.input
        /\ page'.reference = page.reference /\ page'.confirmed = page.confirmed
        /\ page'.doing = None
    BY <1>1 DEF PageInv, Page
  <2> QED
    BY <2>1, ConsoleAssumption DEF Answered, PageInv, Free, ActsAsShown
<1>2. CASE page' = [page EXCEPT !.reference = None, !.confirmed = FALSE, !.doing = None,
                               !.asked = None, !.sent = None]
  <2>1. /\ page' \in Page
        /\ page'.input = page.input /\ page'.offer = page.offer
        /\ page'.reference = None /\ page'.doing = None
    BY <1>2 DEF PageInv, Page
  <2> QED
    BY <2>1, ConsoleAssumption DEF Answered, PageInv, Free, ActsAsShown
<1> QED
  BY <1>1, <1>2 DEF Answered

LEMMA FailedStep == ASSUME PageInv, Failed PROVE PageInv'
<1>1. /\ page' = [page EXCEPT !.doing = None, !.asked = None, !.sent = None]
      /\ UNCHANGED ticked
  BY DEF Failed
<1>2. /\ page' \in Page
      /\ page'.input = page.input /\ page'.offer = page.offer
      /\ page'.reference = page.reference /\ page'.confirmed = page.confirmed
      /\ page'.doing = None
  BY <1>1 DEF PageInv, Page
<1> QED
  BY <1>1, <1>2, ConsoleAssumption DEF PageInv, Free, ActsAsShown

LEMMA BlankStep == ASSUME PageInv, Clear \/ Reload PROVE PageInv'
<1>1. /\ page' \in Page /\ page'.offer = None /\ page'.reference = None
      /\ page'.doing = None
  <2>1. CASE page' = [Blank EXCEPT !.confirmed = page.confirmed]
    BY <2>1 DEF PageInv, Page, Blank
  <2>2. CASE page' = Blank
    BY <2>2 DEF Page, Blank
  <2> QED
    BY <2>1, <2>2 DEF Clear, Reload
<1> QED
  BY <1>1, ConsoleAssumption DEF PageInv, Free, ActsAsShown

LEMMA NextPageInv == PageInv /\ [ConsoleNext]_consoleVars => PageInv'
<1> SUFFICES ASSUME PageInv, [ConsoleNext]_consoleVars PROVE PageInv'
  OBVIOUS
<1>1. CASE UNCHANGED <<page, ticked>>
  BY <1>1 DEF PageInv, Free, ActsAsShown
<1>2. CASE Console
  BY <1>2, EnterTokenStep, EnterEnrollmentStep, EnterReferenceStep, TickBoxStep, ActStep,
     AnsweredStep, FailedStep, BlankStep DEF Console
<1> QED
  BY <1>1, <1>2 DEF ConsoleNext, consoleVars

LEMMA PageInductive == ConsoleSpec => []PageInv
BY InitPageInv, NextPageInv, PTL DEF ConsoleSpec

(* Each step of the page is a step of the service, or none.                *)
LEMMA PageStep == PageInv /\ [ConsoleNext]_consoleVars => [Next]_vars
<1> SUFFICES ASSUME PageInv, [ConsoleNext]_consoleVars PROVE [Next]_vars
  OBVIOUS
<1>1. CASE Others /\ Remember
  BY <1>1 DEF Others, Next, Serve
<1>2. ASSUME NEW action \in {"approve", "revoke"}, act(action) PROVE Next
  <2>1. page.token \in Tokens(action) /\ action \in Action
    BY <1>2, ConsoleAssumption DEF act, Enabled, PageInv, Page, Tokens, Admin
  <2> QED
    BY <1>2, <2>1 DEF act, Next, Serve
<1>3. ASSUME ~ Free, Finish(page.sent), Remember PROVE Next
  BY <1>3 DEF PageInv, Next, Serve
<1>4. CASE Answered
  BY <1>3, <1>4 DEF Answered
<1>5. CASE Failed
  BY <1>3, <1>5 DEF Failed
<1>6. CASE UNCHANGED consoleVars
  BY <1>6 DEF consoleVars
<1>7. CASE Clear \/ Reload
  BY <1>7 DEF Clear, Reload
<1>8. ASSUME NEW token, EnterToken(token) PROVE UNCHANGED vars
  BY <1>8 DEF EnterToken
<1>9. ASSUME NEW e, EnterEnrollment(e) PROVE UNCHANGED vars
  BY <1>9 DEF EnterEnrollment
<1>10. ASSUME NEW k, EnterReference(k) PROVE UNCHANGED vars
  BY <1>10 DEF EnterReference
<1>11. ASSUME NEW on, Confirm(on) PROVE UNCHANGED vars
  BY <1>11 DEF Confirm
<1> QED
  BY <1>1, <1>2, <1>4, <1>5, <1>6, <1>7, <1>8, <1>9, <1>10, <1>11 DEF ConsoleNext, Console

(* The page, with its one operation at a time, its lost answers and its    *)
(* reloads, asks nothing of the service that the service does not answer   *)
(* for: whatever the service guarantees, it guarantees to the page.        *)
THEOREM PageIsAClient == ConsoleSpec => Spec
<1>1. ConsoleInit => Init
  BY DEF ConsoleInit
<1> QED
  BY <1>1, PageStep, PageInductive, PTL DEF ConsoleSpec, Spec

(* An offer on display was approved for what is on display, and a          *)
(* revocation can be sent only for the reference that was on display when  *)
(* the operator confirmed it, whatever answers are lost in between.        *)
THEOREM PageActsAsShown == ConsoleSpec => []ActsAsShown
<1>1. PageInv => ActsAsShown
  BY DEF PageInv
<1> QED
  BY <1>1, PageInductive, PTL

(* What takes effect through the page took effect with a credential that   *)
(* was good for it, and no operator of the page is stranded.               *)
THEOREM PageStands == ConsoleSpec => [](ActorStood /\ NobodyStranded)
BY PageIsAClient, Stands, NoneStranded, PTL
=============================================================================
