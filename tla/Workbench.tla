------------------------------ MODULE Workbench ------------------------------
(***************************************************************************)
(* The developer workbench: the sessions of its route (apps/web/app/api/   *)
(* lifecycle/route.ts), the engine of a session (packages/lifecycle/       *)
(* workbench.ts) over the lifecycle contract, and the page with the        *)
(* buttons (apps/web/app/lifecycle/page.tsx), opened in tabs that share a  *)
(* cookie.                                                                 *)
(*                                                                         *)
(* The route looks its session up and runs an action without an await,     *)
(* but creating and verifying a challenge wait for the challenge files,    *)
(* and what another tab does comes in between.  The store and the          *)
(* verifier are those of LifecycleKit, here one read and one creation.     *)
(***************************************************************************)
EXTENDS Integers, FiniteSets

CONSTANTS
  Tab, Session, Challenge, None,
  MaxSessions,     \* sessions the route keeps
  SessionTTL,      \* their life
  ChallengeTTL,
  MaxTime

Policy  == {"approved-training", "professional-level"}
View    == [revoked : BOOLEAN, active : BOOLEAN]
Entry   == [expires : Nat]
Posed   == [session : Session, policy : Policy, until : Nat]
Receipt == [status : View, level : 1 .. 2]

(* What a verification found; its session and the status it saw are        *)
(* history.                                                                *)
Result  == [c : Challenge, policy : Policy, session : Session, status : View]

Action  == {"initialize", "challenge", "authorize", "verify", "revoke", "deactivate"}

(* The bounds are numbers, and no value is taken for none.                 *)
ASSUME WorkbenchAssumption ==
  /\ {MaxSessions, SessionTTL, ChallengeTTL} \subseteq Nat \ {0}
  /\ MaxTime \in Nat
  /\ None \notin Tab \cup Session \cup Challenge \cup Action
  /\ None \notin View \cup Entry \cup Posed \cup Receipt \cup Result

VARIABLES
  now,
  sessions,    \* the route's map: each session's entry, or None
  status,      \* the status bits of each session's contract
  minted,      \* the session ids drawn so far
  cookie,      \* the browser's
  challenge,   \* the challenges drawn: session, policy and end, or None
  known,       \* the challenges an engine has in its map
  receipt,     \* per challenge: what its authorization recorded, or None
  used,        \* challenges the verifier's store has consumed
  tab,         \* the state of each page
  call         \* what each page's request has come to

engine == <<challenge, known, receipt, used>>
vars == <<now, sessions, status, minted, cookie, engine, tab, call>>

Needs(policy) == IF policy = "approved-training" THEN 1 ELSE 2
LevelOf(basic) == IF basic THEN 1 ELSE 2

Closed == [view |-> None, policy |-> "approved-training", basic |-> FALSE,
           challenge |-> None, presentation |-> None, result |-> None, busy |-> None]
NoCall == [at |-> "none"]

Init ==
  /\ now = 0
  /\ sessions = [s \in Session |-> None]
  /\ status = [s \in Session |-> [revoked |-> FALSE, active |-> TRUE]]
  /\ minted = {} /\ cookie = None
  /\ challenge = [c \in Challenge |-> None] /\ known = {}
  /\ receipt = [c \in Challenge |-> None] /\ used = {}
  /\ tab = [b \in Tab |-> Closed]
  /\ call = [b \in Tab |-> NoCall]

Tick ==
  /\ now < MaxTime
  /\ now' = now + 1
  /\ UNCHANGED <<sessions, status, minted, cookie, engine, tab, call>>

-----------------------------------------------------------------------------
(* The route                                                               *)

(* Mutant: expired sessions stay.                                          *)
EverKept == {s \in Session : sessions[s] # None}

Kept == {s \in Session : sessions[s] # None /\ sessions[s].expires >= now}

(* The session of a call: the one its cookie names, or for initialize a    *)
(* new one while there is room.                                            *)
Found(b, s) ==
  IF call[b].cookie \in Kept THEN s = call[b].cookie
  ELSE /\ call[b].action = "initialize"
       /\ Cardinality(Kept) < MaxSessions
       /\ s \in Session \ minted

(* What a call leaves in the map: expired sessions are gone, and a session *)
(* it begins is there; no call extends one.                                *)
Entered(s) ==
  [t \in Session |->
     IF t \in Kept THEN sessions[t] ELSE IF t = s THEN [expires |-> now + SessionTTL] ELSE None]

Served(b, s) ==
  /\ call[b].at = "sent"
  /\ Found(b, s)
  /\ sessions' = Entered(s)
  /\ minted' = minted \cup {s}
  /\ UNCHANGED <<now, cookie, tab>>

Reply(b, s, result) ==
  call' = [call EXCEPT ![b] =
    [at |-> "replied", session |-> s, view |-> status'[s], result |-> result]]
Fail(b) == call' = [call EXCEPT ![b] = [at |-> "failed"]]

(* initialize, revoke and deactivate.                                      *)
Administer(b, s) ==
  /\ Served(b, s)
  /\ call[b].action \in {"initialize", "revoke", "deactivate"}
  /\ status' = [status EXCEPT ![s].revoked = @ \/ call[b].action = "revoke",
                              ![s].active = @ /\ call[b].action # "deactivate"]
  /\ Reply(b, s, None)
  /\ UNCHANGED engine

(* The circuit.  The qualified credential is the left leaf, which is what  *)
(* the page revokes; the basic one, of level 1, the right leaf.            *)
MayAuthorize(s, c, basic) ==
  /\ status[s].active /\ (status[s].revoked => basic)
  /\ now < challenge[c].until
  /\ LevelOf(basic) >= Needs(challenge[c].policy)
  /\ receipt[c] = None

Knows(s, c) == c \in known /\ challenge[c].session = s

authorize(b, s) ==
  /\ Served(b, s)
  /\ call[b].action = "authorize"
  /\ Knows(s, call[b].challenge)
  /\ MayAuthorize(s, call[b].challenge, call[b].basic)
  /\ receipt' = [receipt EXCEPT ![call[b].challenge] =
       [status |-> status[s], level |-> LevelOf(call[b].basic)]]
  /\ UNCHANGED <<status, challenge, known, used>>
  /\ Reply(b, s, call[b].challenge)

(* challenge draws one and waits for its file.                             *)
BeginChallenge(b, s) ==
  /\ Served(b, s)
  /\ call[b].action = "challenge"
  /\ \E c \in Challenge :
       /\ challenge[c] = None
       /\ challenge' = [challenge EXCEPT ![c] =
            [session |-> s, policy |-> call[b].policy, until |-> now + ChallengeTTL]]
       /\ call' = [call EXCEPT ![b] = [at |-> "putting", session |-> s, c |-> c]]
  /\ UNCHANGED <<status, known, receipt, used>>

(* verify begins: the verifier of the policy reads the challenge's file.   *)
BeginVerify(b, s) ==
  /\ Served(b, s)
  /\ call[b].action = "verify"
  /\ call' = [call EXCEPT ![b] =
       [at |-> "reading", session |-> s, c |-> call[b].presentation, policy |-> call[b].policy]]
  /\ UNCHANGED <<status, engine>>

(* There is no session and no room for one; or there is one, and the call  *)
(* is over its rate of 60 a minute, which is not counted here, or throws   *)
(* before it changes the engine.                                           *)
Refused(b) ==
  /\ call[b].at = "sent"
  /\ \/ /\ ~ \E s \in Session : Found(b, s)
        /\ sessions' = [s \in Session |-> IF s \in Kept THEN sessions[s] ELSE None]
        /\ UNCHANGED minted
     \/ \E s \in Kept :
          /\ Found(b, s)
          /\ sessions' = Entered(s)
          /\ UNCHANGED minted
  /\ Fail(b)
  /\ UNCHANGED <<now, status, cookie, engine, tab>>

(* A tab that is not modelled, of this browser or another, initializes,    *)
(* revokes or deactivates; the cookie may become that of its session.      *)
Elsewhere(s) ==
  /\ s \in Kept \/ (s \notin minted /\ Cardinality(Kept) < MaxSessions)
  /\ sessions' = Entered(s)
  /\ minted' = minted \cup {s}
  /\ status' \in {status, [status EXCEPT ![s].revoked = TRUE],
                  [status EXCEPT ![s].active = FALSE]}
  /\ cookie' \in {cookie, s}
  /\ UNCHANGED <<now, engine, tab, call>>

-----------------------------------------------------------------------------
(* After an await the engine goes on, whether or not the map still has its *)
(* session.  The view is taken when the reply is written.                  *)

(* The engine knows a challenge when its file is there.                    *)
ChallengeMade(b) ==
  /\ call[b].at = "putting"
  /\ known' = known \cup {call[b].c}
  /\ UNCHANGED <<now, sessions, status, minted, cookie, challenge, receipt, used, tab>>
  /\ Reply(b, call[b].session, call[b].c)

(* Mutant: an authorization from before a change of status is as good.     *)
StaleAcceptable(b) ==
  LET c == call[b].c  s == call[b].session IN
  /\ challenge[c].session = s /\ challenge[c].policy = call[b].policy
  /\ now < challenge[c].until
  /\ receipt[c] # None
  /\ status[s].active

(* What the verifier compares once it has read the challenge: each policy  *)
(* of each session has a store of its own, and the contract's status is    *)
(* read live.                                                              *)
Acceptable(b) ==
  LET c == call[b].c  s == call[b].session IN
  /\ challenge[c].session = s /\ challenge[c].policy = call[b].policy
  /\ now < challenge[c].until
  /\ receipt[c] # None /\ receipt[c].status = status[s]
  /\ status[s].active

(* It decides and begins to consume the challenge.                         *)
Decide(b) ==
  /\ call[b].at = "reading"
  /\ Acceptable(b)
  /\ call[b].c \notin used
  /\ used' = used \cup {call[b].c}
  /\ LET d == call[b] IN
     call' = [call EXCEPT ![b] =
       [at |-> "consuming", session |-> d.session, c |-> d.c, policy |-> d.policy,
        status |-> status[d.session]]]
  /\ UNCHANGED <<now, sessions, status, minted, cookie, challenge, known, receipt, tab>>

Verified(b) ==
  /\ call[b].at = "consuming"
  /\ UNCHANGED <<now, sessions, status, minted, cookie, engine, tab>>
  /\ LET d == call[b] IN
     Reply(b, d.session, [c |-> d.c, policy |-> d.policy, session |-> d.session,
                          status |-> d.status])

(* A check of the verifier or the disk fails.                              *)
Thrown(b) ==
  /\ call[b].at \in {"putting", "reading", "consuming"}
  /\ Fail(b)
  /\ UNCHANGED <<now, sessions, status, minted, cookie, engine, tab>>

(* The process ends, and with it the sessions and the calls.               *)
Restart ==
  /\ sessions' = [s \in Session |-> None]
  /\ call' = [b \in Tab |-> IF call[b].at = "none" THEN NoCall ELSE [at |-> "failed"]]
  /\ UNCHANGED <<now, status, minted, cookie, engine, tab>>

-----------------------------------------------------------------------------
(* The page: every control is disabled while an action runs.               *)

Free(b) == tab[b].busy = None

Set(b, new) ==
  /\ Free(b)
  /\ tab' = [tab EXCEPT ![b] = new]
  /\ UNCHANGED <<now, sessions, status, minted, cookie, engine, call>>

choosePolicy(b, policy) ==
  Set(b, [tab[b] EXCEPT !.policy = policy, !.challenge = None, !.presentation = None,
                        !.result = None])

ChooseBasic(b, basic) ==
  Set(b, [tab[b] EXCEPT !.basic = basic, !.presentation = None, !.result = None])

Reload(b) == Set(b, Closed)

Offered(b, action) ==
  CASE action = "initialize" -> tab[b].view = None
    [] action = "challenge"  -> tab[b].view # None
    [] action = "authorize"  -> tab[b].challenge # None
    [] action = "verify"     -> tab[b].presentation # None
    [] action = "revoke"     -> tab[b].view # None /\ ~ tab[b].view.revoked
    [] action = "deactivate" -> tab[b].view # None /\ tab[b].view.active

Press(b, action) ==
  /\ Free(b) /\ Offered(b, action)
  /\ tab' = [tab EXCEPT ![b].busy = action, ![b].result = None]
  /\ call' = [call EXCEPT ![b] =
       [at |-> "sent", action |-> action, cookie |-> cookie, policy |-> tab[b].policy,
        basic |-> tab[b].basic, challenge |-> tab[b].challenge,
        presentation |-> tab[b].presentation]]
  /\ UNCHANGED <<now, sessions, status, minted, cookie, engine>>

(* A reply brings the cookie of its session with it.                       *)
Receive(b) ==
  LET reply == call[b]  t == [tab[b] EXCEPT !.busy = None, !.view = call[b].view] IN
  /\ reply.at = "replied"
  /\ cookie' = reply.session
  /\ tab' = [tab EXCEPT ![b] =
       CASE tab[b].busy = "challenge" ->
              [t EXCEPT !.challenge = reply.result, !.presentation = None]
         [] tab[b].busy = "authorize" -> [t EXCEPT !.presentation = reply.result]
         [] tab[b].busy = "verify"    -> [t EXCEPT !.result = reply.result]
         [] OTHER -> t]
  /\ call' = [call EXCEPT ![b] = NoCall]
  /\ UNCHANGED <<now, sessions, status, minted, engine>>

(* An error, or a reply that is lost: the page learns nothing.             *)
Missed(b) ==
  /\ call[b].at \in {"replied", "failed"}
  /\ tab' = [tab EXCEPT ![b].busy = None]
  /\ call' = [call EXCEPT ![b] = NoCall]
  /\ UNCHANGED <<now, sessions, status, minted, cookie, engine>>

Route(b) ==
  \/ \E s \in Session :
       Administer(b, s) \/ authorize(b, s) \/ BeginChallenge(b, s) \/ BeginVerify(b, s)
  \/ Refused(b) \/ ChallengeMade(b) \/ Decide(b) \/ Verified(b) \/ Thrown(b)

Lifecycle(b) ==
  \/ \E policy \in Policy : choosePolicy(b, policy)
  \/ \E basic \in BOOLEAN : ChooseBasic(b, basic)
  \/ \E action \in Action : Press(b, action)
  \/ Reload(b) \/ Receive(b) \/ Missed(b)

Next ==
  \/ Tick \/ Restart
  \/ \E s \in Session : Elsewhere(s)
  \/ \E b \in Tab : Route(b) \/ Lifecycle(b)
Spec == Init /\ [][Next]_vars

-----------------------------------------------------------------------------
(* Types: a page waits for an answer exactly while its call is under way,  *)
(* and what an engine knows, recorded or consumed is a challenge drawn.    *)
TabOK(t) ==
  /\ DOMAIN t = DOMAIN Closed
  /\ t.view \in View \cup {None} /\ t.policy \in Policy /\ t.basic \in BOOLEAN
  /\ {t.challenge, t.presentation} \subseteq Challenge \cup {None}
  /\ t.result = None \/ t.result \in Result
  /\ t.busy \in Action \cup {None}

CallOK(c) ==
  CASE c.at = "none"      -> c = NoCall
    [] c.at = "failed"    -> c = [at |-> "failed"]
    [] c.at = "sent"      -> c.action \in Action /\ c.cookie \in Session \cup {None}
    [] c.at = "replied"   -> c.session \in Session /\ c.view \in View
    [] c.at = "putting"   -> c.session \in Session /\ c.c \in Challenge
    [] c.at \in {"reading", "consuming"} ->
         c.session \in Session /\ c.c \in Challenge /\ c.policy \in Policy
    [] OTHER -> FALSE

TypeOK ==
  /\ now \in 0 .. MaxTime
  /\ sessions \in [Session -> [expires : 0 .. now + SessionTTL] \cup {None}]
  /\ status \in [Session -> View]
  /\ minted \subseteq Session /\ cookie \in minted \cup {None}
  /\ challenge \in [Challenge ->
       [session : Session, policy : Policy, until : 0 .. now + ChallengeTTL] \cup {None}]
  /\ \A c \in Challenge :
       (c \in known \cup used \/ receipt[c] # None) => challenge[c] # None
  /\ receipt \in [Challenge -> [status : View, level : 1 .. 2] \cup {None}]
  /\ \A b \in Tab :
       TabOK(tab[b]) /\ CallOK(call[b]) /\ (tab[b].busy = None <=> call[b] = NoCall)

-----------------------------------------------------------------------------
(* A result on display belongs to what is displayed around it: the policy  *)
(* chosen, the challenge shown and the credential selected, whose level    *)
(* the policy admits.  And it was decided rightly, whatever other tabs did *)
(* to the session or the cookie meanwhile: by the session that posed the   *)
(* challenge, while its contract had the status of the authorization, its  *)
(* issuer active and the credential selected not revoked.                  *)
ResultFits ==
  \A b \in Tab : tab[b].result # None =>
    LET c == tab[b].result.c IN
    /\ tab[b].result.policy = tab[b].policy /\ challenge[c].policy = tab[b].policy
    /\ c = tab[b].challenge /\ c = tab[b].presentation
    /\ receipt[c].level = LevelOf(tab[b].basic)
    /\ receipt[c].level >= Needs(tab[b].policy)
    /\ tab[b].result.session = challenge[c].session
    /\ tab[b].result.status = receipt[c].status
    /\ tab[b].result.status.active
    /\ tab[b].result.status.revoked => tab[b].basic

(* A session lasts its whole life: only its end or the end of the process  *)
(* takes it away, never the need for room; there are never more than       *)
(* MaxSessions; and no call that begins after its end changes its contract.*)
SessionsStand ==
  [][/\ Cardinality({s \in Session : sessions'[s] # None}) <= MaxSessions
     /\ \A s \in Session :
          /\ sessions[s] # None /\ sessions'[s] = None =>
               sessions[s].expires < now \/ Restart
          /\ status'[s] # status[s] => sessions'[s] # None /\ now <= sessions'[s].expires]_vars
=============================================================================
