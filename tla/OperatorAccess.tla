--------------------------- MODULE OperatorAccess ---------------------------
(***************************************************************************)
(* Who may do what on the hosted issuer service.                           *)
(*                                                                         *)
(* Operator accounts live in the database and change only through the      *)
(* command line (scripts/operator-admin.ts), while requests authenticate   *)
(* against them (apps/web/app/api/issuance/route.ts).  A request is        *)
(* authenticated once and awaits the budget, the modules and the database  *)
(* before it takes effect, so an account can change in between.  What an   *)
(* operation does is the matter of IssuerService, how often one is         *)
(* admitted that of RequestLimits.                                         *)
(***************************************************************************)
EXTENDS Integers, FiniteSets

CONSTANTS
  Operator,        \* account names
  Token,           \* random credentials
  Recovery,        \* the recovery secret of the environment
  None,
  Server,          \* server processes
  Request,         \* requests served at once
  Command,         \* runs of operator-admin
  Role, Action,    \* the roles and actions of an instance
  Lifetime,        \* seconds an account is good for
  MaxTime

ASSUME OperatorAssumption ==
  /\ Role \subseteq {"issuer", "revoker", "administrator"}
  /\ Action \subseteq {"approve", "issue", "revoke", "deactivate"}
  /\ Recovery \notin Token /\ None \notin Token \cup {Recovery}
  /\ None \notin Operator
  /\ "holder" \notin Operator /\ "recovery-operator" \notin Operator
  /\ Lifetime \in Nat \ {0} /\ MaxTime \in Nat

VARIABLES
  account,    \* veilpass_operators
  files,      \* the private credential files
  command,    \* each run of operator-admin
  recovery,   \* the processes that accept the recovery secret
  request,    \* each request with its locals
  now,
  standing    \* history: what a request's credential granted since it arrived

vars == <<account, files, command, recovery, request, now, standing>>

Actor == Operator \cup {"holder", "recovery-operator"}
Grant == [id : Actor, role : Role \cup {"administrator"}]
Account == [role : Role, token : Token, disabled : BOOLEAN, until : Nat]

Statement ==
  [kind : {"create", "rotate"}, id : Operator, role : Role, token : Token, until : Nat]
    \cup [kind : {"disable"}, id : Operator]

operatorAllowed(role, action) ==
  \/ role = "administrator" /\ action \in {"approve", "revoke", "deactivate"}
  \/ role = "issuer" /\ action = "approve"
  \/ role = "revoker" /\ action = "revoke"

(* Mutant: a disabled account authenticates until it expires.              *)
OpenUntilExpiry(t) == {o \in Operator : account[o] # None /\ account[o].until > t}

(* The accounts a token can authenticate as: enabled and not expired.      *)
Open(t) ==
  {o \in Operator : /\ account[o] # None
                    /\ ~ account[o].disabled
                    /\ account[o].until > t}

Holding(token) ==
  {o \in Operator : account[o] # None /\ account[o].token = token}

As(o) == [id |-> o, role |-> account[o].role]
Recoverer == [id |-> "recovery-operator", role |-> "administrator"]

(* What a request with this token acts as: the recovery secret comes       *)
(* first, then the account that has the token's digest.                    *)
Authenticated(s, token) ==
  IF s \in recovery /\ token = Recovery
  THEN {Recoverer}
  ELSE {As(o) : o \in Open(now) \cap Holding(token)}

-----------------------------------------------------------------------------
Unused == [phase |-> "idle", server |-> None, action |-> None, token |-> None,
           actor |-> None]

Init ==
  /\ account = [o \in Operator |-> None]
  /\ files = {}
  /\ command = [c \in Command |-> [kind |-> "idle"]]
  /\ recovery = Server
  /\ request = [r \in Request |-> Unused]
  /\ now = 0
  /\ standing = [r \in Request |-> {}]

Tick ==
  /\ now < MaxTime
  /\ now' = now + 1
  /\ UNCHANGED <<account, files, command, recovery, request>>

-----------------------------------------------------------------------------
(* operator-admin                                                          *)

(* Mutant: the statement goes out before the file is written.              *)
HastyProvision(c, kind, o, role) ==
  /\ command[c].kind = "idle"
  /\ \E token \in Token \ {f.token : f \in files} :
       command' = [command EXCEPT ![c] =
         [kind |-> kind, id |-> o, role |-> role, token |-> token, until |-> now + Lifetime]]
  /\ UNCHANGED <<account, files, recovery, request, now>>

(* create or rotate: a fresh credential goes into a file of its own before *)
(* the statement is sent.                                                  *)
Provision(c, kind, o, role) ==
  /\ command[c].kind = "idle"
  /\ \E token \in Token \ {f.token : f \in files} :
       /\ files' = files \cup {[id |-> o, token |-> token]}
       /\ command' = [command EXCEPT ![c] =
            [kind |-> kind, id |-> o, role |-> role, token |-> token,
             until |-> now + Lifetime]]
  /\ UNCHANGED <<account, recovery, request, now>>

Disable(c, o) ==
  /\ command[c].kind = "idle"
  /\ command' = [command EXCEPT ![c] = [kind |-> "disable", id |-> o]]
  /\ UNCHANGED <<account, files, recovery, request, now>>

(* What a statement makes of the table: one that finds no row to change,   *)
(* or a row where it wants to insert one, has no effect.                   *)
Changed(d) ==
  IF (d.kind = "create") # (account[d.id] = None) THEN account
  ELSE [account EXCEPT ![d.id] =
          IF d.kind = "disable" THEN [@ EXCEPT !.disabled = TRUE]
          ELSE [role |-> d.role, token |-> d.token, disabled |-> FALSE, until |-> d.until]]

(* The statement executes, sooner or later, whether or not the command is  *)
(* still there to hear of it.                                              *)
Execute(c) ==
  /\ command[c].kind \notin {"idle", "done"}
  /\ account' = Changed(command[c])
  /\ command' = [command EXCEPT ![c] = [kind |-> "done"]]
  /\ UNCHANGED <<files, recovery, request, now>>

-----------------------------------------------------------------------------
(* The route                                                               *)

Admin(action) == action # "issue"
Tokens(action) == IF Admin(action) THEN Token \cup {Recovery} ELSE {None}

Arrive(r, s, action, token) ==
  /\ request[r].phase = "idle"
  /\ request' = [request EXCEPT ![r] =
       [phase |-> "arrived", server |-> s, action |-> action, token |-> token,
        actor |-> None]]
  /\ UNCHANGED <<account, files, command, recovery, now>>

(* The answer of authenticateOperator, and the role check on it.           *)
Authenticate(r) ==
  /\ request[r].phase = "arrived"
  /\ \E id \in IF Admin(request[r].action)
               THEN {a.id : a \in {b \in Authenticated(request[r].server, request[r].token) :
                                     operatorAllowed(b.role, request[r].action)}}
               ELSE {"holder"} :
       request' = [request EXCEPT ![r].phase = "authenticated", ![r].actor = id]
  /\ UNCHANGED <<account, files, command, recovery, now>>

(* The authority and the audit row, with the actor's name, change in one   *)
(* statement.  The account is not looked at again.                         *)
Commit(r) ==
  /\ request[r].phase = "authenticated"
  /\ request' = [request EXCEPT ![r].phase = "committed"]
  /\ UNCHANGED <<account, files, command, recovery, now>>

(* The answer; or, before the commit, 401, 403, 429 or an operation that   *)
(* throws, none of which has an effect.                                    *)
Finish(r) ==
  /\ request[r].phase # "idle"
  /\ request' = [request EXCEPT ![r] = Unused]
  /\ UNCHANGED <<account, files, command, recovery, now>>

(* The process ends and another takes its place, maybe deployed with the   *)
(* recovery path switched off or on again.                                 *)
Restart(s, on) ==
  /\ recovery' = IF on THEN recovery \cup {s} ELSE recovery \ {s}
  /\ request' = [r \in Request |-> IF request[r].server = s THEN Unused ELSE request[r]]
  /\ UNCHANGED <<account, files, command, now>>

-----------------------------------------------------------------------------
Administration ==
  \/ \E c \in Command, kind \in {"create", "rotate"}, o \in Operator, role \in Role :
       Provision(c, kind, o, role)
  \/ \E c \in Command, o \in Operator : Disable(c, o)
  \/ \E c \in Command : Execute(c)

Serve ==
  \/ \E r \in Request, s \in Server, action \in Action :
       \E token \in Tokens(action) : Arrive(r, s, action, token)
  \/ \E r \in Request : Authenticate(r) \/ Commit(r) \/ Finish(r)
  \/ \E s \in Server, on \in BOOLEAN : Restart(s, on)

(* What the credential of a request lets its bearer act as, at this moment.*)
Grants(r) ==
  {As(o) : o \in {p \in Holding(request[r].token) :
                    ~ account[p].disabled /\ account[p].until > now}}
    \cup {g \in {Recoverer} :
             request[r].server \in recovery /\ request[r].token = Recovery}

(* History: a request that arrives starts with what its token grants then, *)
(* a request that is served adds what it grants next, one that is idle has *)
(* none.                                                                   *)
Remember ==
  standing' = [r \in Request |->
    IF request'[r].phase = "idle" THEN {} ELSE standing[r] \cup Grants(r)']

Next == (Tick \/ Administration \/ Serve) /\ Remember
Spec == Init /\ [][Next]_vars

-----------------------------------------------------------------------------
TypeOK ==
  /\ account \in [Operator -> Account \cup {None}]
  /\ files \subseteq [id : Operator, token : Token]
  /\ command \in [Command -> Statement \cup [kind : {"idle", "done"}]]
  /\ recovery \subseteq Server
  /\ request \in [Request ->
       [phase : {"idle", "arrived", "authenticated", "committed"},
        server : Server \cup {None}, action : Action \cup {None},
        token : Token \cup {Recovery, None}, actor : Actor \cup {None}]]
  /\ standing \in [Request -> SUBSET Grant]
  /\ now \in Nat

(* An operation that takes effect in an operator's name was asked for with *)
(* the credential of that operator, in a role that permits it, and the     *)
(* account was open at some moment while the request was served.  What was *)
(* disabled, rotated away or expired before a request came does not act,   *)
(* and what is disabled meanwhile acts at most in the requests under way.  *)
ActorStood ==
  \A r \in Request : request[r].phase = "committed" =>
    IF Admin(request[r].action)
    THEN \E g \in standing[r] :
           g.id = request[r].actor /\ operatorAllowed(g.role, request[r].action)
    ELSE request[r].actor = "holder"

(* An account that can be used has its credential in a file of the         *)
(* operator's, however commands overlap, fail or land late, and no two     *)
(* accounts share one: a rotation cannot strand its operator.              *)
NobodyStranded ==
  /\ \A o \in Operator : account[o] # None =>
       [id |-> o, token |-> account[o].token] \in files
  /\ \A f, g \in files : f.token = g.token => f = g

=============================================================================
