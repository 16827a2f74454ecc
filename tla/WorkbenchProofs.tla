--------------------------- MODULE WorkbenchProofs ---------------------------
(***************************************************************************)
(* The workbench, for any number of tabs, sessions and challenges and any  *)
(* bounds: a result on display fits what is displayed around it, and a     *)
(* session lasts its whole life.                                           *)
(***************************************************************************)
EXTENDS Workbench, FiniteSetTheorems, TLAPS

Page == [view : View \cup {None}, policy : Policy, basic : BOOLEAN,
         challenge : Challenge \cup {None}, presentation : Challenge \cup {None},
         result : Result \cup {None}, busy : Action \cup {None}]

(* The state of the process, its engines and its pages.                    *)
Typed ==
  /\ now \in Nat
  /\ sessions \in [Session -> Entry \cup {None}]
  /\ status \in [Session -> View]
  /\ challenge \in [Challenge -> Posed \cup {None}]
  /\ receipt \in [Challenge -> Receipt \cup {None}]
  /\ tab \in [Tab -> Page]
  /\ DOMAIN call = Tab

(* Nothing is authorized for a policy it is not good enough for, nor in a  *)
(* status that forbids it.                                                 *)
Admitted ==
  \A c \in Challenge : receipt[c] # None =>
    /\ challenge[c] # None /\ receipt[c].level >= Needs(challenge[c].policy)
    /\ receipt[c].status.active
    /\ receipt[c].status.revoked => receipt[c].level = 1

Open == {s \in Session : sessions[s] # None}
Bounded == IsFiniteSet(Open) /\ Cardinality(Open) <= MaxSessions

(* A challenge the page may show, and a presentation.                      *)
Suits(b, c) ==
  c \in Challenge /\ challenge[c] # None /\ challenge[c].policy = tab[b].policy
Presents(b, c) ==
  /\ c \in Challenge /\ c = tab[b].challenge
  /\ receipt[c] # None /\ receipt[c].level = LevelOf(tab[b].basic)
Verdict(b) ==
  LET c == tab[b].presentation IN
  [c |-> c, policy |-> tab[b].policy, session |-> challenge[c].session,
   status |-> receipt[c].status]

(* What a page shows goes together.                                        *)
PageFits(b) ==
  /\ tab[b].challenge # None => Suits(b, tab[b].challenge)
  /\ tab[b].presentation # None => Presents(b, tab[b].presentation)
  /\ tab[b].result # None =>
       tab[b].busy = None /\ tab[b].presentation # None /\ tab[b].result = Verdict(b)

(* What a call of a page is about is what the page still shows.            *)
SentFits(b) ==
  call[b].at = "sent" =>
    /\ call[b].action = tab[b].busy /\ call[b].action \in Action
    /\ call[b].policy = tab[b].policy /\ call[b].basic = tab[b].basic
    /\ call[b].challenge = tab[b].challenge /\ call[b].presentation = tab[b].presentation
    /\ call[b].action = "authorize" => call[b].challenge # None
    /\ call[b].action = "verify" => call[b].presentation # None

AwaitFits(b) ==
  /\ call[b].at = "putting" =>
       tab[b].busy = "challenge" /\ call[b].session \in Session /\ Suits(b, call[b].c)
  /\ call[b].at = "reading" =>
       /\ tab[b].busy = "verify" /\ tab[b].presentation # None
       /\ call[b] \in [at : {"reading"}, session : Session,
                       c : {tab[b].presentation}, policy : {tab[b].policy}]
  /\ call[b].at = "consuming" =>
       /\ tab[b].busy = "verify" /\ tab[b].presentation # None
       /\ call[b] \in [at : {"consuming"}, session : {Verdict(b).session},
                       c : {tab[b].presentation}, policy : {tab[b].policy},
                       status : {Verdict(b).status}]

RepliedFits(b) ==
  call[b].at = "replied" =>
    /\ call[b].view \in View /\ tab[b].busy \in Action
    /\ tab[b].busy = "challenge" => Suits(b, call[b].result)
    /\ tab[b].busy = "authorize" => Presents(b, call[b].result)
    /\ tab[b].busy = "verify" => tab[b].presentation # None /\ call[b].result = Verdict(b)

CallFits(b) ==
  /\ call[b].at = "none" \/ tab[b].busy \in Action
  /\ SentFits(b) /\ AwaitFits(b) /\ RepliedFits(b)

Fits(b) == PageFits(b) /\ CallFits(b)

BInv == Typed /\ Admitted /\ Bounded /\ \A b \in Tab : Fits(b)

-----------------------------------------------------------------------------
(* A page that shows a presentation has the challenge and the receipt the  *)
(* verdict is about.                                                       *)
LEMMA VerdictTyped ==
  ASSUME BInv, NEW b \in Tab, tab[b].presentation # None
  PROVE  Verdict(b) \in Result
<1>1. /\ PageFits(b) /\ tab[b] \in Page /\ None \notin Challenge
      /\ challenge \in [Challenge -> Posed \cup {None}]
      /\ receipt \in [Challenge -> Receipt \cup {None}]
  BY WorkbenchAssumption DEF BInv, Fits, Typed
<1>2. PICK c : c = tab[b].presentation
  OBVIOUS
<1>3. c \in Challenge /\ challenge[c] \in Posed /\ receipt[c] \in Receipt
  BY <1>1, <1>2 DEF PageFits, Presents, Suits
<1>4. challenge[c].session \in Session /\ receipt[c].status \in View
  BY <1>3 DEF Posed, Receipt
<1> QED
  BY <1>1, <1>2, <1>3, <1>4 DEF Verdict, Result, Page

LEMMA InitBInv == Init => BInv
<1> SUFFICES ASSUME Init PROVE BInv
  OBVIOUS
<1>1. Typed
  <2>1. Closed \in Page
    BY DEF Closed, Page, Policy
  <2> QED
    BY <2>1 DEF Init, Typed, View
<1>2. Admitted
  BY DEF Init, Admitted
<1>3. Bounded
  <2>1. Open = {}
    BY DEF Init, Open
  <2> QED
    BY <2>1, FS_EmptySet, WorkbenchAssumption DEF Bounded
<1>4. \A b \in Tab : Fits(b)
  BY DEF Init, Closed, NoCall, Fits, PageFits, CallFits,
         SentFits, AwaitFits, RepliedFits
<1> QED
  BY <1>1, <1>2, <1>3, <1>4 DEF BInv

(* What was posed and authorized stays so.                                 *)
Recorded ==
  \A c \in Challenge :
    /\ challenge[c] # None => challenge'[c] = challenge[c]
    /\ receipt[c] # None => receipt'[c] = receipt[c]

(* A page and a call that nothing happens to keep what they show.          *)
LEMMA StillFits ==
  ASSUME BInv, Recorded, NEW b \in Tab, tab'[b] = tab[b], call'[b] = call[b]
  PROVE  Fits(b)'
<1>1. Fits(b)
  BY DEF BInv
<1>2. \A c : Suits(b, c) => Suits(b, c)'
  BY DEF Recorded, Suits
<1>3. \A c : Presents(b, c) => Presents(b, c)'
  BY DEF Recorded, Presents
<1>4. tab[b].presentation # None => Verdict(b)' = Verdict(b)
  <2>1. PageFits(b) /\ None \notin Challenge
    BY <1>1, WorkbenchAssumption DEF Fits
  <2> QED
    BY <2>1 DEF PageFits, Suits, Presents, Recorded, Verdict
<1>5. PageFits(b)'
  BY <1>1, <1>2, <1>3, <1>4 DEF Fits, PageFits
<1>6. CallFits(b)'
  BY <1>1, <1>2, <1>3, <1>4 DEF Fits, CallFits, SentFits, AwaitFits, RepliedFits
<1> QED
  BY <1>5, <1>6 DEF Fits

(* A step of one page: what is left to look at.                            *)
LEMMA OnePage ==
  ASSUME BInv, Recorded, NEW b \in Tab, Typed', Admitted', Bounded', Fits(b)',
         \A o \in Tab \ {b} : tab'[o] = tab[o] /\ call'[o] = call[o]
  PROVE  BInv'
<1>1. \A o \in Tab : Fits(o)'
  BY StillFits
<1> QED
  BY <1>1 DEF BInv

(* A page whose displays stay while its call goes on.                      *)
LEMMA StillShown ==
  ASSUME BInv, Recorded, NEW b \in Tab,
         tab'[b] = tab[b], CallFits(b)'
  PROVE  Fits(b)'
<1>1. PageFits(b)
  BY DEF BInv, Fits
<1>2. \A c : Suits(b, c) => Suits(b, c)'
  BY DEF Recorded, Suits
<1>3. \A c : Presents(b, c) => Presents(b, c)'
  BY DEF Recorded, Presents
<1>4. tab[b].presentation # None => Verdict(b)' = Verdict(b)
  BY <1>1, WorkbenchAssumption DEF PageFits, Suits, Presents, Recorded, Verdict
<1> QED
  BY <1>1, <1>2, <1>3, <1>4 DEF Fits, PageFits

(* The map of sessions after a call.                                       *)
LEMMA Entering ==
  ASSUME BInv, NEW s \in Session, sessions' = Entered(s),
         s \in Kept \/ Cardinality(Kept) < MaxSessions
  PROVE  /\ sessions' \in [Session -> Entry \cup {None}] /\ Bounded'
         /\ sessions'[s] # None /\ now <= sessions'[s].expires
         /\ \A t \in Session :
              sessions[t] # None /\ sessions'[t] = None => sessions[t].expires < now
<1>1. /\ sessions \in [Session -> Entry \cup {None}] /\ now \in Nat
      /\ SessionTTL \in Nat /\ MaxSessions \in Nat /\ None \notin Entry
      /\ IsFiniteSet(Open) /\ Cardinality(Open) <= MaxSessions
  BY WorkbenchAssumption DEF BInv, Typed, Bounded
<1> DEFINE entry == [expires |-> now + SessionTTL]
<1>2. entry \in Entry /\ now <= entry.expires
  BY <1>1 DEF Entry
<1>3. /\ Kept \subseteq Open
      /\ \A t \in Open : sessions[t] \in Entry /\ sessions[t].expires \in Nat
                         /\ (t \in Kept <=> now <= sessions[t].expires)
  BY <1>1 DEF Kept, Open, Entry
<1>4. sessions' = [t \in Session |->
                     IF t \in Kept THEN sessions[t] ELSE IF t = s THEN entry ELSE None]
  BY DEF Entered
<1> HIDE DEF entry
<1>5. sessions' \in [Session -> Entry \cup {None}]
  BY <1>1, <1>2, <1>4
<1>6. sessions'[s] # None /\ now <= sessions'[s].expires
  BY <1>1, <1>2, <1>3, <1>4 DEF Open
<1>7. \A t \in Session : sessions[t] # None /\ sessions'[t] = None => sessions[t].expires < now
  BY <1>1, <1>3, <1>4 DEF Open
<1>8. Open' = Kept \cup {s}
  BY <1>1, <1>2, <1>3, <1>4 DEF Open
<1>9. /\ IsFiniteSet(Kept) /\ Cardinality(Kept) <= Cardinality(Open)
      /\ Cardinality(Kept) \in Nat /\ Cardinality(Open) \in Nat
  BY <1>1, <1>3, FS_Subset, FS_CardinalityType
<1>10. /\ IsFiniteSet(Kept \cup {s})
       /\ Cardinality(Kept \cup {s}) =
            IF s \in Kept THEN Cardinality(Kept) ELSE Cardinality(Kept) + 1
  BY <1>9, FS_AddElement
<1>11. Bounded'
  BY <1>1, <1>8, <1>9, <1>10 DEF Bounded
<1> QED
  BY <1>5, <1>6, <1>7, <1>11

(* What a call does that the route serves, apart from the engine.          *)
LEMMA Serving ==
  ASSUME BInv, NEW b \in Tab, NEW s \in Session, Served(b, s)
  PROVE  /\ sessions' \in [Session -> Entry \cup {None}] /\ Bounded'
         /\ sessions'[s] # None /\ now <= sessions'[s].expires
         /\ \A t \in Session :
              sessions[t] # None /\ sessions'[t] = None => sessions[t].expires < now
         /\ call[b].at = "sent" /\ UNCHANGED <<now, cookie, tab>>
         /\ tab[b] \in Page /\ PageFits(b) /\ tab[b].busy = call[b].action /\ SentFits(b)
<1>1. /\ sessions' = Entered(s) /\ Found(b, s) /\ call[b].at = "sent"
      /\ UNCHANGED <<now, cookie, tab>>
  BY DEF Served
<1>2. s \in Kept \/ Cardinality(Kept) < MaxSessions
  BY <1>1 DEF Found
<1>3. tab[b] \in Page /\ PageFits(b) /\ SentFits(b)
  BY DEF BInv, Typed, Fits, CallFits
<1>4. tab[b].busy = call[b].action
  BY <1>1, <1>3 DEF SentFits
<1> QED
  BY <1>1, <1>2, <1>3, <1>4, Entering

LEMMA AdministerStep ==
  ASSUME BInv, NEW b \in Tab, NEW s \in Session, Administer(b, s) PROVE BInv'
<1>1. /\ sessions' \in [Session -> Entry \cup {None}] /\ Bounded'
      /\ call[b].at = "sent" /\ UNCHANGED <<now, cookie, tab>>
      /\ tab[b].busy = call[b].action
  BY Serving DEF Administer
<1>2. /\ call[b].action \in {"initialize", "revoke", "deactivate"}
      /\ UNCHANGED <<challenge, known, receipt, used>>
      /\ call' = [call EXCEPT ![b] =
           [at |-> "replied", session |-> s, view |-> status'[s], result |-> None]]
      /\ DOMAIN call = Tab /\ status \in [Session -> View]
  BY DEF Administer, Reply, engine, BInv, Typed
<1>3. status' \in [Session -> View]
  <2> DEFINE revoked == status[s].revoked \/ call[b].action = "revoke"
             active  == status[s].active /\ call[b].action # "deactivate"
  <2>1. status' = [status EXCEPT ![s].revoked = revoked, ![s].active = active]
    BY DEF Administer
  <2>2. revoked \in BOOLEAN /\ active \in BOOLEAN
    BY <1>2 DEF View
  <2> HIDE DEF revoked, active
  <2>3. [status[s] EXCEPT !.revoked = revoked, !.active = active] \in View
    BY <1>2, <2>2 DEF View
  <2> QED
    BY <1>2, <2>1, <2>2 DEF View
<1>4. status'[s] \in View
  BY <1>3
<1>5. PICK reply : reply = [at |-> "replied", session |-> s, view |-> status'[s], result |-> None]
  OBVIOUS
<1>6. reply.at = "replied" /\ reply.view \in View
  BY <1>4, <1>5
<1>7. call' = [call EXCEPT ![b] = reply]
  BY <1>2, <1>5
<1>8. /\ DOMAIN call' = Tab /\ call'[b] = reply
      /\ \A o \in Tab \ {b} : call'[o] = call[o]
  BY <1>2, <1>7
<1>9. Recorded /\ Typed' /\ Admitted'
  BY <1>1, <1>2, <1>3, <1>8 DEF BInv, Typed, Admitted, Recorded
<1>10. CallFits(b)'
  BY <1>1, <1>2, <1>6, <1>8 DEF CallFits, SentFits, AwaitFits, RepliedFits, Action
<1>11. Fits(b)'
  BY <1>1, <1>9, <1>10, StillShown
<1> QED
  BY <1>1, <1>8, <1>9, <1>11, OnePage

LEMMA AuthorizeStep ==
  ASSUME BInv, NEW b \in Tab, NEW s \in Session, authorize(b, s) PROVE BInv'
<1>0. PICK c, new :
        /\ c = call[b].challenge
        /\ new = [status |-> status[s], level |-> LevelOf(call[b].basic)]
  OBVIOUS
<1>1. /\ sessions' \in [Session -> Entry \cup {None}] /\ Bounded'
      /\ call[b].at = "sent" /\ UNCHANGED <<now, cookie, tab>>
      /\ tab[b] \in Page /\ PageFits(b) /\ tab[b].busy = call[b].action /\ SentFits(b)
  BY Serving DEF authorize
<1>2. /\ call[b].action = "authorize" /\ MayAuthorize(s, c, call[b].basic)
      /\ receipt' = [receipt EXCEPT ![c] = new]
      /\ UNCHANGED <<status, challenge, known, used>>
      /\ call' = [call EXCEPT ![b] =
           [at |-> "replied", session |-> s, view |-> status'[s], result |-> c]]
      /\ DOMAIN call = Tab /\ status \in [Session -> View]
      /\ receipt \in [Challenge -> Receipt \cup {None}] /\ None \notin Receipt
  BY <1>0, WorkbenchAssumption DEF authorize, Reply, BInv, Typed
<1>3. /\ c = tab[b].challenge /\ c \in Challenge /\ call[b].basic = tab[b].basic
      /\ Suits(b, c)
  BY <1>0, <1>1, <1>2 DEF SentFits, PageFits, Page
<1>4. /\ receipt[c] = None /\ LevelOf(call[b].basic) >= Needs(challenge[c].policy)
      /\ status[s].active /\ (status[s].revoked => LevelOf(call[b].basic) = 1)
  BY <1>2 DEF MayAuthorize, LevelOf
<1>5. new \in Receipt /\ new.level = LevelOf(call[b].basic) /\ new.status = status[s]
  BY <1>0, <1>2 DEF Receipt, LevelOf
<1>6. /\ receipt' \in [Challenge -> Receipt \cup {None}] /\ receipt'[c] = new
      /\ \A d \in Challenge \ {c} : receipt'[d] = receipt[d]
  BY <1>2, <1>3, <1>5
<1>7. Recorded
  BY <1>2, <1>4, <1>6 DEF Recorded
<1>8. PICK reply : reply = [at |-> "replied", session |-> s, view |-> status'[s], result |-> c]
  OBVIOUS
<1>9. reply.at = "replied" /\ reply.view \in View /\ reply.result = c
  BY <1>2, <1>8
<1>10. call' = [call EXCEPT ![b] = reply]
  BY <1>2, <1>8
<1>11. /\ DOMAIN call' = Tab /\ call'[b] = reply
       /\ \A o \in Tab \ {b} : call'[o] = call[o]
  BY <1>2, <1>10
<1>12. Typed'
  BY <1>1, <1>2, <1>6, <1>11 DEF BInv, Typed
<1>13. Admitted'
  BY <1>2, <1>3, <1>4, <1>5, <1>6 DEF BInv, Admitted, Suits
<1>14. Presents(b, c)'
  BY <1>1, <1>2, <1>3, <1>5, <1>6 DEF Presents
<1>15. CallFits(b)'
  BY <1>1, <1>2, <1>9, <1>11, <1>14
     DEF CallFits, SentFits, AwaitFits, RepliedFits, Action
<1>16. Fits(b)'
  BY <1>1, <1>7, <1>15, StillShown
<1> QED
  BY <1>1, <1>7, <1>11, <1>12, <1>13, <1>16, OnePage

LEMMA BeginChallengeStep ==
  ASSUME BInv, NEW b \in Tab, NEW s \in Session, BeginChallenge(b, s) PROVE BInv'
<1>1. /\ sessions' \in [Session -> Entry \cup {None}] /\ Bounded'
      /\ call[b].at = "sent" /\ UNCHANGED <<now, cookie, tab>>
      /\ tab[b] \in Page /\ PageFits(b) /\ tab[b].busy = call[b].action /\ SentFits(b)
  BY Serving DEF BeginChallenge
<1>2. PICK c \in Challenge :
        /\ challenge[c] = None
        /\ challenge' = [challenge EXCEPT ![c] =
             [session |-> s, policy |-> call[b].policy, until |-> now + ChallengeTTL]]
        /\ call' = [call EXCEPT ![b] = [at |-> "putting", session |-> s, c |-> c]]
  BY DEF BeginChallenge
<1>3. /\ call[b].action = "challenge" /\ UNCHANGED <<status, known, receipt, used>>
      /\ DOMAIN call = Tab /\ now \in Nat /\ ChallengeTTL \in Nat /\ None \notin Posed
      /\ challenge \in [Challenge -> Posed \cup {None}]
  BY WorkbenchAssumption DEF BeginChallenge, BInv, Typed
<1>4. call[b].policy = tab[b].policy /\ call[b].policy \in Policy
  BY <1>1 DEF SentFits, Page
<1>5. PICK posed :
        posed = [session |-> s, policy |-> call[b].policy, until |-> now + ChallengeTTL]
  OBVIOUS
<1>6. posed \in Posed /\ posed.policy = tab[b].policy
  BY <1>3, <1>4, <1>5 DEF Posed
<1>7. /\ challenge' \in [Challenge -> Posed \cup {None}] /\ challenge'[c] = posed
      /\ \A d \in Challenge \ {c} : challenge'[d] = challenge[d]
  BY <1>2, <1>3, <1>5, <1>6
<1>8. Recorded
  BY <1>2, <1>3, <1>7 DEF Recorded
<1>9. PICK put : put = [at |-> "putting", session |-> s, c |-> c]
  OBVIOUS
<1>10. put.at = "putting" /\ put.session = s /\ put.c = c
  BY <1>9
<1>11. call' = [call EXCEPT ![b] = put]
  BY <1>2, <1>9
<1>12. /\ DOMAIN call' = Tab /\ call'[b] = put
       /\ \A o \in Tab \ {b} : call'[o] = call[o]
  BY <1>3, <1>11
<1>13. Typed'
  BY <1>1, <1>3, <1>7, <1>12 DEF BInv, Typed
<1>14. Admitted'
  BY <1>3, <1>8 DEF BInv, Admitted, Recorded
<1>15. Suits(b, c)'
  BY <1>1, <1>3, <1>6, <1>7 DEF Suits
<1>16. CallFits(b)'
  BY <1>1, <1>3, <1>10, <1>12, <1>15
     DEF CallFits, SentFits, AwaitFits, RepliedFits, Action
<1>17. Fits(b)'
  BY <1>1, <1>8, <1>16, StillShown
<1> QED
  BY <1>1, <1>8, <1>12, <1>13, <1>14, <1>17, OnePage

LEMMA BeginVerifyStep ==
  ASSUME BInv, NEW b \in Tab, NEW s \in Session, BeginVerify(b, s) PROVE BInv'
<1>1. /\ sessions' \in [Session -> Entry \cup {None}] /\ Bounded'
      /\ call[b].at = "sent" /\ UNCHANGED <<now, cookie, tab>>
      /\ tab[b] \in Page /\ PageFits(b) /\ tab[b].busy = call[b].action /\ SentFits(b)
  BY Serving DEF BeginVerify
<1>2. /\ call[b].action = "verify" /\ UNCHANGED <<status, challenge, known, receipt, used>>
      /\ call' = [call EXCEPT ![b] = [at |-> "reading", session |-> s,
                     c |-> call[b].presentation, policy |-> call[b].policy]]
      /\ DOMAIN call = Tab
  BY DEF BeginVerify, engine, BInv, Typed
<1>3. /\ call[b].presentation = tab[b].presentation /\ call[b].policy = tab[b].policy
      /\ tab[b].presentation # None
  BY <1>1, <1>2 DEF SentFits
<1>4. PICK read : read = [at |-> "reading", session |-> s, c |-> tab[b].presentation,
                          policy |-> tab[b].policy]
  OBVIOUS
<1>5. read \in [at : {"reading"}, session : Session,
                c : {tab[b].presentation}, policy : {tab[b].policy}] /\ read.at = "reading"
  BY <1>4
<1>6. call' = [call EXCEPT ![b] = read]
  BY <1>2, <1>3, <1>4
<1>7. /\ DOMAIN call' = Tab /\ call'[b] = read
      /\ \A o \in Tab \ {b} : call'[o] = call[o]
  BY <1>2, <1>6
<1>8. Recorded /\ Typed' /\ Admitted'
  BY <1>1, <1>2, <1>7 DEF BInv, Typed, Admitted, Recorded
<1>9. CallFits(b)'
  BY <1>1, <1>2, <1>3, <1>5, <1>7 DEF CallFits, SentFits, AwaitFits, RepliedFits, Action
<1>10. Fits(b)'
  BY <1>1, <1>8, <1>9, StillShown
<1> QED
  BY <1>1, <1>7, <1>8, <1>10, OnePage

(* A call that fails leaves the rest alone.                                *)
LEMMA Failing ==
  ASSUME BInv, NEW b \in Tab, call[b].at # "none", Fail(b),
         sessions' \in [Session -> Entry \cup {None}], Bounded',
         UNCHANGED <<now, status, engine, tab>>
  PROVE  BInv'
<1>1. PICK failed : failed = [at |-> "failed"]
  OBVIOUS
<1>2. failed.at = "failed"
  BY <1>1
<1>3. call' = [call EXCEPT ![b] = failed] /\ DOMAIN call = Tab
  BY <1>1 DEF Fail, BInv, Typed
<1>4. /\ DOMAIN call' = Tab /\ call'[b] = failed
      /\ \A o \in Tab \ {b} : call'[o] = call[o]
  BY <1>3
<1>5. Recorded /\ Typed' /\ Admitted'
  BY <1>4 DEF BInv, Typed, Admitted, Recorded, engine
<1>6. CallFits(b)'
  BY <1>2, <1>4 DEF BInv, Fits, CallFits, SentFits, AwaitFits, RepliedFits
<1>7. Fits(b)'
  BY <1>5, <1>6, StillShown
<1> QED
  BY <1>4, <1>5, <1>7, OnePage

(* A call that is refused may find sessions whose time is over.            *)
LEMMA Refusing ==
  ASSUME BInv, NEW b \in Tab, Refused(b)
  PROVE  /\ sessions' \in [Session -> Entry \cup {None}] /\ Bounded'
         /\ \A t \in Session :
              sessions[t] # None /\ sessions'[t] = None => sessions[t].expires < now
<1>1. CASE sessions' = [s \in Session |-> IF s \in Kept THEN sessions[s] ELSE None]
  <2>1. /\ sessions \in [Session -> Entry \cup {None}] /\ now \in Nat /\ MaxSessions \in Nat
        /\ IsFiniteSet(Open) /\ Cardinality(Open) <= MaxSessions
    BY WorkbenchAssumption DEF BInv, Typed, Bounded
  <2>2. sessions' \in [Session -> Entry \cup {None}] /\ Open' \subseteq Open
    BY <1>1, <2>1 DEF Open
  <2>3. \A t \in Session : sessions[t] # None /\ sessions'[t] = None => sessions[t].expires < now
    BY <1>1, <2>1 DEF Kept, Entry
  <2>4. /\ IsFiniteSet(Open') /\ Cardinality(Open') <= Cardinality(Open)
        /\ Cardinality(Open') \in Nat /\ Cardinality(Open) \in Nat
    BY <2>1, <2>2, FS_Subset, FS_CardinalityType
  <2> QED
    BY <2>1, <2>2, <2>3, <2>4 DEF Bounded
<1>2. ASSUME NEW s \in Kept, sessions' = Entered(s)
      PROVE  /\ sessions' \in [Session -> Entry \cup {None}] /\ Bounded'
             /\ \A t \in Session :
                  sessions[t] # None /\ sessions'[t] = None => sessions[t].expires < now
  <2>1. s \in Session
    BY DEF Kept
  <2> QED
    BY <1>2, <2>1, Entering
<1> QED
  BY <1>1, <1>2 DEF Refused

LEMMA RefusedStep == ASSUME BInv, NEW b \in Tab, Refused(b) PROVE BInv'
<1>1. /\ sessions' \in [Session -> Entry \cup {None}] /\ Bounded'
  BY Refusing
<1>2. /\ call[b].at # "none" /\ Fail(b) /\ UNCHANGED <<now, status, engine, tab>>
  BY DEF Refused
<1> QED
  BY <1>1, <1>2, Failing

LEMMA ThrownStep == ASSUME BInv, NEW b \in Tab, Thrown(b) PROVE BInv'
<1>1. /\ call[b].at # "none" /\ Fail(b) /\ UNCHANGED <<now, status, engine, tab>>
      /\ sessions' \in [Session -> Entry \cup {None}] /\ Bounded'
  BY DEF Thrown, BInv, Typed, Bounded, Open
<1> QED
  BY <1>1, Failing

LEMMA ChallengeMadeStep == ASSUME BInv, NEW b \in Tab, ChallengeMade(b) PROVE BInv'
<1>1. /\ call[b].at = "putting" /\ DOMAIN call = Tab /\ status \in [Session -> View]
      /\ UNCHANGED <<now, sessions, status, challenge, receipt, tab>>
      /\ call' = [call EXCEPT ![b] = [at |-> "replied", session |-> call[b].session,
                     view |-> status'[call[b].session], result |-> call[b].c]]
  BY DEF ChallengeMade, Reply, BInv, Typed
<1>2. tab[b].busy = "challenge" /\ call[b].session \in Session /\ Suits(b, call[b].c)
  BY <1>1 DEF BInv, Fits, CallFits, AwaitFits
<1>3. PICK c : c = call[b].c
  OBVIOUS
<1>4. PICK reply : reply = [at |-> "replied", session |-> call[b].session,
                            view |-> status'[call[b].session], result |-> c]
  OBVIOUS
<1>5. reply.at = "replied" /\ reply.view \in View /\ reply.result = c
  BY <1>1, <1>2, <1>4
<1>6. call' = [call EXCEPT ![b] = reply]
  BY <1>1, <1>3, <1>4
<1>7. /\ DOMAIN call' = Tab /\ call'[b] = reply
      /\ \A o \in Tab \ {b} : call'[o] = call[o]
  BY <1>1, <1>6
<1>8. Recorded /\ Typed' /\ Admitted' /\ Bounded'
  BY <1>1, <1>7 DEF BInv, Typed, Admitted, Bounded, Open, Recorded
<1>9. Suits(b, c)'
  BY <1>1, <1>2, <1>3 DEF Suits
<1>10. CallFits(b)'
  BY <1>1, <1>2, <1>5, <1>7, <1>9 DEF CallFits, SentFits, AwaitFits, RepliedFits, Action
<1>11. Fits(b)'
  BY <1>1, <1>8, <1>10, StillShown
<1> QED
  BY <1>1, <1>7, <1>8, <1>11, OnePage

LEMMA DecideStep == ASSUME BInv, NEW b \in Tab, Decide(b) PROVE BInv'
<1>. DEFINE d == call[b]
<1>1. /\ d.at = "reading" /\ DOMAIN call = Tab /\ Acceptable(b)
      /\ UNCHANGED <<now, sessions, status, challenge, receipt, tab>>
      /\ call' = [call EXCEPT ![b] =
           [at |-> "consuming", session |-> d.session, c |-> d.c, policy |-> d.policy,
            status |-> status[d.session]]]
  BY DEF Decide, BInv, Typed
<1>2. /\ tab[b].busy = "verify" /\ tab[b].presentation # None
      /\ d \in [at : {"reading"}, session : Session,
                c : {tab[b].presentation}, policy : {tab[b].policy}]
  BY <1>1 DEF BInv, Fits, CallFits, AwaitFits
<1>3. d.c = tab[b].presentation /\ d.policy = tab[b].policy
  BY <1>2
<1>4. d.session = Verdict(b).session /\ status[d.session] = Verdict(b).status
  BY <1>1, <1>3 DEF Acceptable, Verdict
<1>5. PICK new : new = [at |-> "consuming", session |-> d.session, c |-> d.c,
                        policy |-> d.policy, status |-> status[d.session]]
  OBVIOUS
<1>6. /\ new.at = "consuming"
      /\ new \in [at : {"consuming"}, session : {Verdict(b).session},
                  c : {tab[b].presentation}, policy : {tab[b].policy},
                  status : {Verdict(b).status}]
  BY <1>3, <1>4, <1>5
<1>7. call' = [call EXCEPT ![b] = new]
  BY <1>1, <1>5
<1>8. /\ DOMAIN call' = Tab /\ call'[b] = new
      /\ \A o \in Tab \ {b} : call'[o] = call[o]
  BY <1>1, <1>7
<1>9. Recorded /\ Typed' /\ Admitted' /\ Bounded' /\ Verdict(b)' = Verdict(b)
  BY <1>1, <1>8 DEF BInv, Typed, Admitted, Bounded, Open, Recorded, Verdict
<1>10. CallFits(b)'
  BY <1>1, <1>2, <1>6, <1>8, <1>9 DEF CallFits, SentFits, AwaitFits, RepliedFits, Action
<1>11. Fits(b)'
  BY <1>1, <1>9, <1>10, StillShown
<1> QED
  BY <1>1, <1>8, <1>9, <1>11, OnePage

LEMMA VerifiedStep == ASSUME BInv, NEW b \in Tab, Verified(b) PROVE BInv'
<1>. DEFINE d == call[b]
<1>1. /\ d.at = "consuming" /\ DOMAIN call = Tab /\ status \in [Session -> View]
      /\ UNCHANGED <<now, sessions, status, challenge, receipt, tab>>
      /\ call' = [call EXCEPT ![b] = [at |-> "replied", session |-> d.session,
                     view |-> status'[d.session],
                     result |-> [c |-> d.c, policy |-> d.policy, session |-> d.session,
                                 status |-> d.status]]]
  BY DEF Verified, Reply, BInv, Typed, engine
<1>2. /\ tab[b].busy = "verify" /\ tab[b].presentation # None
      /\ d \in [at : {"consuming"}, session : {Verdict(b).session},
                c : {tab[b].presentation}, policy : {tab[b].policy},
                status : {Verdict(b).status}]
  BY <1>1 DEF BInv, Fits, CallFits, AwaitFits
<1>3. Verdict(b).session \in Session
  BY <1>2, VerdictTyped DEF Result
<1>4. PICK verdict : verdict = Verdict(b)
  OBVIOUS
<1>5. PICK reply : reply = [at |-> "replied", session |-> d.session,
                            view |-> status'[d.session], result |-> verdict]
  OBVIOUS
<1>6. reply.at = "replied" /\ reply.view \in View /\ reply.result = verdict
  BY <1>1, <1>2, <1>3, <1>5
<1>7. call' = [call EXCEPT ![b] = reply]
  <2>1. [c |-> d.c, policy |-> d.policy, session |-> d.session, status |-> d.status] = verdict
    BY <1>2, <1>4 DEF Verdict
  <2> QED
    BY <1>1, <1>5, <2>1
<1>8. /\ DOMAIN call' = Tab /\ call'[b] = reply
      /\ \A o \in Tab \ {b} : call'[o] = call[o]
  BY <1>1, <1>7
<1>9. Recorded /\ Typed' /\ Admitted' /\ Bounded'
  BY <1>1, <1>8 DEF BInv, Typed, Admitted, Bounded, Open, Recorded
<1>10. verdict = Verdict(b)'
  BY <1>1, <1>4 DEF Verdict
<1>11. CallFits(b)'
  BY <1>1, <1>2, <1>6, <1>8, <1>10 DEF CallFits, SentFits, AwaitFits, RepliedFits, Action
<1>12. Fits(b)'
  BY <1>1, <1>9, <1>11, StillShown
<1> QED
  BY <1>1, <1>8, <1>9, <1>12, OnePage

(* What a person does on a page that waits for nothing.                    *)
LEMMA SetStep ==
  ASSUME BInv, NEW b \in Tab, NEW new \in Page, Set(b, new),
         new.busy = tab[b].busy,
         new.challenge # None => new.challenge = tab[b].challenge /\ new.policy = tab[b].policy,
         new.presentation # None =>
           /\ new.presentation = tab[b].presentation /\ new.challenge = tab[b].challenge
           /\ new.basic = tab[b].basic,
         new.result = None
  PROVE  BInv'
<1>1. /\ tab[b].busy = None /\ tab' = [tab EXCEPT ![b] = new] /\ tab \in [Tab -> Page]
      /\ UNCHANGED <<now, sessions, status, challenge, receipt, call>>
  BY DEF Set, Free, engine, BInv, Typed
<1>2. /\ tab' \in [Tab -> Page] /\ tab'[b] = new
      /\ \A o \in Tab \ {b} : tab'[o] = tab[o]
  BY <1>1
<1>3. Recorded /\ Typed' /\ Admitted' /\ Bounded'
  BY <1>1, <1>2 DEF BInv, Typed, Admitted, Bounded, Open, Recorded
<1>4. PageFits(b) /\ CallFits(b) /\ None \notin Action
  BY WorkbenchAssumption DEF BInv, Fits
<1>5. PageFits(b)'
  BY <1>1, <1>2, <1>4 DEF PageFits, Suits, Presents
<1>6. CallFits(b)'
  BY <1>1, <1>2, <1>4 DEF CallFits, SentFits, AwaitFits, RepliedFits
<1>7. Fits(b)'
  BY <1>5, <1>6 DEF Fits
<1> QED
  BY <1>1, <1>2, <1>3, <1>7, OnePage

LEMMA ChooseStep ==
  ASSUME BInv, NEW b \in Tab,
         \/ \E policy \in Policy : choosePolicy(b, policy)
         \/ \E basic \in BOOLEAN : ChooseBasic(b, basic)
         \/ Reload(b)
  PROVE  BInv'
<1>1. tab[b] \in Page
  BY DEF BInv, Typed
<1>2. ASSUME NEW policy \in Policy, choosePolicy(b, policy) PROVE BInv'
  <2>1. PICK new : new = [tab[b] EXCEPT !.policy = policy, !.challenge = None,
                                        !.presentation = None, !.result = None]
    OBVIOUS
  <2>2. /\ new \in Page /\ new.busy = tab[b].busy /\ new.challenge = None
        /\ new.presentation = None /\ new.result = None
    BY <1>1, <2>1 DEF Page
  <2>3. Set(b, new)
    BY <1>2, <2>1 DEF choosePolicy
  <2> QED
    BY <2>2, <2>3, SetStep
<1>3. ASSUME NEW basic \in BOOLEAN, ChooseBasic(b, basic) PROVE BInv'
  <2>1. PICK new : new = [tab[b] EXCEPT !.basic = basic, !.presentation = None,
                                        !.result = None]
    OBVIOUS
  <2>2. /\ new \in Page /\ new.busy = tab[b].busy /\ new.challenge = tab[b].challenge
        /\ new.policy = tab[b].policy /\ new.presentation = None /\ new.result = None
    BY <1>1, <2>1 DEF Page
  <2>3. Set(b, new)
    BY <1>3, <2>1 DEF ChooseBasic
  <2> QED
    BY <2>2, <2>3, SetStep
<1>4. CASE Reload(b)
  <2>1. /\ Closed \in Page /\ Closed.busy = None /\ Closed.challenge = None
        /\ Closed.presentation = None /\ Closed.result = None
    BY DEF Closed, Page, Policy
  <2>2. Set(b, Closed) /\ tab[b].busy = None
    BY <1>4 DEF Reload, Set, Free
  <2> QED
    BY <2>1, <2>2, SetStep
<1> QED
  BY <1>2, <1>3, <1>4

LEMMA PressStep ==
  ASSUME BInv, NEW b \in Tab, NEW action \in Action, Press(b, action) PROVE BInv'
<1>1. /\ tab[b].busy = None /\ Offered(b, action) /\ tab \in [Tab -> Page]
      /\ tab' = [tab EXCEPT ![b].busy = action, ![b].result = None]
      /\ call' = [call EXCEPT ![b] =
           [at |-> "sent", action |-> action, cookie |-> cookie, policy |-> tab[b].policy,
            basic |-> tab[b].basic, challenge |-> tab[b].challenge,
            presentation |-> tab[b].presentation]]
      /\ DOMAIN call = Tab /\ UNCHANGED <<now, sessions, status, challenge, receipt>>
      /\ None \notin Action
  BY WorkbenchAssumption DEF Press, Free, engine, BInv, Typed
<1>2. PICK new : new = [tab[b] EXCEPT !.busy = action, !.result = None]
  OBVIOUS
<1>3. /\ new \in Page /\ new.busy = action /\ new.result = None /\ new.policy = tab[b].policy
      /\ new.basic = tab[b].basic /\ new.challenge = tab[b].challenge
      /\ new.presentation = tab[b].presentation
  <2>1. tab[b] \in Page
    BY <1>1
  <2>2. PICK busy : busy = [tab[b] EXCEPT !.busy = action]
    OBVIOUS
  <2>3. /\ busy \in Page /\ busy.busy = action /\ busy.policy = tab[b].policy
        /\ busy.basic = tab[b].basic /\ busy.challenge = tab[b].challenge
        /\ busy.presentation = tab[b].presentation
    BY <2>1, <2>2 DEF Page
  <2>4. new = [busy EXCEPT !.result = None]
    BY <1>2, <2>1, <2>2 DEF Page
  <2> QED
    BY <2>3, <2>4 DEF Page
<1>4. tab' = [tab EXCEPT ![b] = new]
  BY <1>1, <1>2
<1>5. /\ tab' \in [Tab -> Page] /\ tab'[b] = new
      /\ \A o \in Tab \ {b} : tab'[o] = tab[o]
  BY <1>1, <1>3, <1>4
<1>6. PICK sent : sent = [at |-> "sent", action |-> action, cookie |-> cookie,
        policy |-> tab[b].policy, basic |-> tab[b].basic, challenge |-> tab[b].challenge,
        presentation |-> tab[b].presentation]
  OBVIOUS
<1>7. /\ sent.at = "sent" /\ sent.action = action /\ sent.policy = tab[b].policy
      /\ sent.basic = tab[b].basic /\ sent.challenge = tab[b].challenge
      /\ sent.presentation = tab[b].presentation
  BY <1>6
<1>8. call' = [call EXCEPT ![b] = sent]
  BY <1>1, <1>6
<1>9. /\ DOMAIN call' = Tab /\ call'[b] = sent
      /\ \A o \in Tab \ {b} : call'[o] = call[o]
  BY <1>1, <1>8
<1>10. Recorded /\ Typed' /\ Admitted' /\ Bounded'
  BY <1>1, <1>5, <1>9 DEF BInv, Typed, Admitted, Bounded, Open, Recorded
<1>11. PageFits(b)
  BY DEF BInv, Fits
<1>12. PageFits(b)'
  BY <1>1, <1>3, <1>5, <1>11 DEF PageFits, Suits, Presents
<1>13. /\ action = "authorize" => tab[b].challenge # None
       /\ action = "verify" => tab[b].presentation # None
  BY <1>1 DEF Offered
<1>14. CallFits(b)'
  BY <1>3, <1>5, <1>7, <1>9, <1>13 DEF CallFits, SentFits, AwaitFits, RepliedFits
<1>15. Fits(b)'
  BY <1>12, <1>14 DEF Fits
<1> QED
  BY <1>5, <1>9, <1>10, <1>15, OnePage

(* A page that stops waiting.                                              *)
LEMMA Settling ==
  ASSUME BInv, NEW b \in Tab, NEW new \in Page, tab' = [tab EXCEPT ![b] = new],
         call' = [call EXCEPT ![b] = NoCall],
         UNCHANGED <<now, sessions, status, engine>>, PageFits(b)'
  PROVE  BInv'
<1>1. /\ tab' \in [Tab -> Page] /\ DOMAIN call' = Tab /\ call'[b].at = "none"
      /\ \A o \in Tab \ {b} : tab'[o] = tab[o] /\ call'[o] = call[o]
  BY DEF BInv, Typed, NoCall
<1>2. Recorded /\ Typed' /\ Admitted' /\ Bounded'
  BY <1>1 DEF BInv, Typed, Admitted, Bounded, Open, Recorded, engine
<1>3. CallFits(b)'
  BY <1>1 DEF CallFits, SentFits, AwaitFits, RepliedFits
<1>4. Fits(b)'
  BY <1>3 DEF Fits
<1> QED
  BY <1>1, <1>2, <1>4, OnePage

LEMMA MissedStep == ASSUME BInv, NEW b \in Tab, Missed(b) PROVE BInv'
<1>1. /\ tab \in [Tab -> Page] /\ tab' = [tab EXCEPT ![b].busy = None]
      /\ call' = [call EXCEPT ![b] = NoCall]
      /\ UNCHANGED <<now, sessions, status, engine>>
  BY DEF Missed, BInv, Typed
<1>2. PICK new : new = [tab[b] EXCEPT !.busy = None]
  OBVIOUS
<1>3. /\ new \in Page /\ new.policy = tab[b].policy /\ new.result = tab[b].result
      /\ new.basic = tab[b].basic /\ new.challenge = tab[b].challenge
      /\ new.presentation = tab[b].presentation
  BY <1>1, <1>2 DEF Page
<1>4. tab' = [tab EXCEPT ![b] = new] /\ tab'[b] = new
  BY <1>1, <1>2
<1>5. PageFits(b)
  BY DEF BInv, Fits
<1>6. PageFits(b)'
  BY <1>1, <1>3, <1>4, <1>5 DEF PageFits, Suits, Presents, Verdict, engine
<1> QED
  BY <1>1, <1>3, <1>4, <1>6, Settling

LEMMA ReceiveStep == ASSUME BInv, NEW b \in Tab, Receive(b) PROVE BInv'
<1>1. PICK new :
        /\ tab' = [tab EXCEPT ![b] = new]
        /\ new = CASE tab[b].busy = "challenge" ->
                        [[tab[b] EXCEPT !.busy = None, !.view = call[b].view]
                           EXCEPT !.challenge = call[b].result, !.presentation = None]
                   [] tab[b].busy = "authorize" ->
                        [[tab[b] EXCEPT !.busy = None, !.view = call[b].view]
                           EXCEPT !.presentation = call[b].result]
                   [] tab[b].busy = "verify" ->
                        [[tab[b] EXCEPT !.busy = None, !.view = call[b].view]
                           EXCEPT !.result = call[b].result]
                   [] OTHER -> [tab[b] EXCEPT !.busy = None, !.view = call[b].view]
  BY DEF Receive
<1>2. /\ call[b].at = "replied" /\ tab \in [Tab -> Page] /\ tab[b] \in Page
      /\ call' = [call EXCEPT ![b] = NoCall]
      /\ UNCHANGED <<now, sessions, status, engine>>
      /\ PageFits(b) /\ RepliedFits(b) /\ None \notin Challenge
  BY WorkbenchAssumption DEF Receive, BInv, Typed, Fits, CallFits
<1>3. PICK t : t = [tab[b] EXCEPT !.busy = None, !.view = call[b].view]
  OBVIOUS
<1>4. /\ t \in Page /\ t.policy = tab[b].policy /\ t.result = tab[b].result
      /\ t.basic = tab[b].basic /\ t.challenge = tab[b].challenge
      /\ t.presentation = tab[b].presentation
  BY <1>2, <1>3 DEF Page, RepliedFits
<1>5. tab'[b] = new
  BY <1>1, <1>2
<1>6. CASE tab[b].busy = "challenge"
  <2>1. new = [t EXCEPT !.challenge = call[b].result, !.presentation = None]
    BY <1>1, <1>3, <1>6
  <2>2. Suits(b, call[b].result) /\ call[b].result \in Challenge
    BY <1>2, <1>6 DEF RepliedFits, Suits
  <2>3. /\ new \in Page /\ new.policy = tab[b].policy /\ new.result = tab[b].result
        /\ new.challenge = call[b].result /\ new.presentation = None
    BY <1>4, <2>1, <2>2 DEF Page
  <2>4. tab[b].result = None
    BY <1>2, <1>6, WorkbenchAssumption DEF PageFits, BInv, Action
  <2>5. PageFits(b)'
    BY <1>2, <1>5, <2>2, <2>3, <2>4 DEF PageFits, Suits, engine
  <2> QED
    BY <1>1, <1>2, <2>3, <2>5, Settling
<1>7. CASE tab[b].busy = "authorize"
  <2>1. new = [t EXCEPT !.presentation = call[b].result]
    BY <1>1, <1>3, <1>7
  <2>2. Presents(b, call[b].result) /\ call[b].result \in Challenge
    BY <1>2, <1>7 DEF RepliedFits, Presents
  <2>3. /\ new \in Page /\ new.policy = tab[b].policy /\ new.result = tab[b].result
        /\ new.basic = tab[b].basic /\ new.challenge = tab[b].challenge
        /\ new.presentation = call[b].result
    BY <1>4, <2>1, <2>2 DEF Page
  <2>4. tab[b].result = None
    BY <1>2, <1>7, WorkbenchAssumption DEF PageFits, BInv, Action
  <2>5. PageFits(b)'
    BY <1>2, <1>5, <2>2, <2>3, <2>4 DEF PageFits, Suits, Presents, engine
  <2> QED
    BY <1>1, <1>2, <2>3, <2>5, Settling
<1>8. CASE tab[b].busy = "verify"
  <2>1. new = [t EXCEPT !.result = call[b].result]
    BY <1>1, <1>3, <1>8
  <2>2. tab[b].presentation # None /\ call[b].result = Verdict(b)
    BY <1>2, <1>8 DEF RepliedFits
  <2>3. Verdict(b) \in Result
    BY <2>2, VerdictTyped
  <2>4. /\ new \in Page /\ new.policy = tab[b].policy /\ new.result = Verdict(b)
        /\ new.basic = tab[b].basic /\ new.challenge = tab[b].challenge
        /\ new.presentation = tab[b].presentation /\ new.busy = None
    BY <1>3, <1>4, <2>1, <2>2, <2>3 DEF Page
  <2>5. Verdict(b)' = Verdict(b)
    BY <1>2, <1>5, <2>4 DEF Verdict, engine
  <2>6. PageFits(b)'
    BY <1>2, <1>5, <2>2, <2>4, <2>5 DEF PageFits, Suits, Presents, engine
  <2> QED
    BY <1>1, <1>2, <2>4, <2>6, Settling
<1>9. CASE tab[b].busy \notin {"challenge", "authorize", "verify"}
  <2>1. new = t
    BY <1>1, <1>3, <1>9
  <2>2. tab[b].result = None
    BY <1>2, WorkbenchAssumption DEF RepliedFits, PageFits, BInv
  <2>3. PageFits(b)'
    BY <1>2, <1>4, <1>5, <2>1, <2>2 DEF PageFits, Suits, Presents, engine
  <2> QED
    BY <1>1, <1>2, <1>4, <2>1, <2>3, Settling
<1> QED
  BY <1>6, <1>7, <1>8, <1>9

LEMMA ElsewhereStep ==
  ASSUME BInv, NEW s \in Session, Elsewhere(s)
  PROVE  /\ BInv' /\ sessions'[s] # None /\ now <= sessions'[s].expires
         /\ \A t \in Session :
              sessions[t] # None /\ sessions'[t] = None => sessions[t].expires < now
         /\ \A t \in Session \ {s} : status'[t] = status[t]
<1>1. /\ s \in Kept \/ Cardinality(Kept) < MaxSessions
      /\ sessions' = Entered(s) /\ UNCHANGED <<now, engine, tab, call>>
      /\ status' \in {status, [status EXCEPT ![s].revoked = TRUE],
                      [status EXCEPT ![s].active = FALSE]}
      /\ status \in [Session -> View]
  BY DEF Elsewhere, BInv, Typed
<1>2. /\ sessions' \in [Session -> Entry \cup {None}] /\ Bounded'
      /\ sessions'[s] # None /\ now <= sessions'[s].expires
      /\ \A t \in Session :
              sessions[t] # None /\ sessions'[t] = None => sessions[t].expires < now
  BY <1>1, Entering
<1>3. status' \in [Session -> View] /\ \A t \in Session \ {s} : status'[t] = status[t]
  <2>1. /\ [status[s] EXCEPT !.revoked = TRUE] \in View
        /\ [status[s] EXCEPT !.active = FALSE] \in View
    BY <1>1 DEF View
  <2> QED
    BY <1>1, <2>1
<1>4. Typed' /\ Recorded /\ Admitted'
  BY <1>1, <1>2, <1>3 DEF BInv, Typed, Recorded, Admitted, engine
<1>5. \A b \in Tab : Fits(b)'
  BY <1>1, <1>4, StillFits
<1> QED
  BY <1>2, <1>3, <1>4, <1>5 DEF BInv

LEMMA RestartStep == ASSUME BInv, Restart PROVE BInv'
<1>1. /\ sessions' = [s \in Session |-> None] /\ UNCHANGED <<now, status, engine, tab>>
      /\ call' = [b \in Tab |-> IF call[b].at = "none" THEN NoCall ELSE [at |-> "failed"]]
  BY DEF Restart
<1>2. Bounded'
  <2>1. Open' = {}
    BY <1>1 DEF Open
  <2> QED
    BY <2>1, FS_EmptySet, WorkbenchAssumption DEF Bounded, BInv
<1>3. Typed' /\ Recorded /\ Admitted'
  BY <1>1 DEF BInv, Typed, Recorded, Admitted, engine
<1>4. ASSUME NEW b \in Tab PROVE Fits(b)'
  <2>1. /\ call'[b].at \in {"none", "failed"}
        /\ call'[b].at = "none" <=> call[b].at = "none"
    BY <1>1 DEF NoCall
  <2>2. CallFits(b)'
    BY <1>1, <2>1 DEF BInv, Fits, CallFits, SentFits, AwaitFits, RepliedFits
  <2> QED
    BY <1>1, <1>3, <2>2, StillShown
<1> QED
  BY <1>2, <1>3, <1>4 DEF BInv

(* Steps that touch neither the map, the engine nor a page.                *)
LEMMA QuietStep ==
  ASSUME BInv, UNCHANGED <<sessions, status, challenge, receipt, tab, call>>, now' \in Nat
  PROVE  BInv'
<1>1. Typed' /\ Recorded /\ Admitted' /\ Bounded'
  BY DEF BInv, Typed, Recorded, Admitted, Bounded, Open
<1>2. \A b \in Tab : Fits(b)'
  BY <1>1, StillFits
<1> QED
  BY <1>1, <1>2 DEF BInv

LEMMA NextBInv == BInv /\ [Next]_vars => BInv'
<1> SUFFICES ASSUME BInv, [Next]_vars PROVE BInv'
  OBVIOUS
<1>1. CASE Tick
  BY <1>1, QuietStep DEF Tick, engine, BInv, Typed
<1>2. CASE Restart
  BY <1>2, RestartStep
<1>3. ASSUME NEW s \in Session, Elsewhere(s) PROVE BInv'
  BY <1>3, ElsewhereStep
<1>4. ASSUME NEW b \in Tab, Route(b) PROVE BInv'
  BY <1>4, AdministerStep, AuthorizeStep, BeginChallengeStep, BeginVerifyStep, RefusedStep,
     ChallengeMadeStep, DecideStep, VerifiedStep, ThrownStep DEF Route
<1>5. ASSUME NEW b \in Tab, Lifecycle(b) PROVE BInv'
  BY <1>5, ChooseStep, PressStep, ReceiveStep, MissedStep DEF Lifecycle
<1>6. CASE UNCHANGED vars
  BY <1>6, QuietStep DEF vars, engine, BInv, Typed
<1> QED
  BY <1>1, <1>2, <1>3, <1>4, <1>5, <1>6 DEF Next

-----------------------------------------------------------------------------
(* What a step does to the sessions.                                       *)
LEMMA SessionsStep ==
  ASSUME BInv, BInv', Next
  PROVE  /\ Cardinality({s \in Session : sessions'[s] # None}) <= MaxSessions
         /\ \A s \in Session :
              /\ sessions[s] # None /\ sessions'[s] = None =>
                   sessions[s].expires < now \/ Restart
              /\ status'[s] # status[s] => sessions'[s] # None /\ now <= sessions'[s].expires
<1> DEFINE Stood(s) ==
      /\ sessions[s] # None /\ sessions'[s] = None => sessions[s].expires < now \/ Restart
      /\ status'[s] # status[s] => sessions'[s] # None /\ now <= sessions'[s].expires
<1>1. Cardinality({s \in Session : sessions'[s] # None}) <= MaxSessions
  <2>1. Open' = {s \in Session : sessions'[s] # None}
    BY DEF Open
  <2> QED
    BY <2>1 DEF BInv, Bounded
<1>2. CASE UNCHANGED <<sessions, status>>
  BY <1>1, <1>2
<1>3. CASE Restart
  BY <1>1, <1>3 DEF Restart
<1>4. ASSUME NEW t \in Session, Elsewhere(t), NEW s \in Session PROVE Stood(s)
  BY <1>4, ElsewhereStep
<1>5. ASSUME NEW b \in Tab, NEW t \in Session, Served(b, t), NEW s \in Session,
             status'[s] # status[s] => s = t
      PROVE  Stood(s)
  BY <1>5, Serving
<1>6. ASSUME NEW b \in Tab, Route(b), NEW s \in Session PROVE Stood(s)
  <2>1. ASSUME NEW t \in Session, Administer(b, t) PROVE Stood(s)
    <3>1. Served(b, t) /\ (status'[s] # status[s] => s = t)
      BY <2>1 DEF Administer, BInv, Typed
    <3> QED
      BY <3>1, <1>5
  <2>2. ASSUME NEW t \in Session,
               authorize(b, t) \/ BeginChallenge(b, t) \/ BeginVerify(b, t)
        PROVE  Stood(s)
    <3>1. Served(b, t) /\ status' = status
      BY <2>2 DEF authorize, BeginChallenge, BeginVerify
    <3> QED
      BY <3>1, <1>5
  <2>3. CASE Refused(b)
    <3>1. status' = status
      BY <2>3 DEF Refused
    <3> QED
      BY <2>3, <3>1, Refusing
  <2>4. CASE ChallengeMade(b) \/ Decide(b) \/ Verified(b) \/ Thrown(b)
    BY <2>4 DEF ChallengeMade, Decide, Verified, Thrown
  <2> QED
    BY <1>6, <2>1, <2>2, <2>3, <2>4 DEF Route
<1>7. ASSUME NEW b \in Tab, Lifecycle(b) PROVE UNCHANGED <<sessions, status>>
  BY <1>7 DEF Lifecycle, choosePolicy, ChooseBasic, Reload, Set,
             Press, Receive, Missed
<1>8. Tick => UNCHANGED <<sessions, status>>
  BY DEF Tick
<1> QED
  BY <1>1, <1>2, <1>3, <1>4, <1>6, <1>7, <1>8 DEF Next

(* What a page displays goes together, what its pending call is about is   *)
(* what it still displays, an authorization was good enough for the policy *)
(* of its challenge, and the route's map is within its bound: in every     *)
(* state the route, its engines, a restart, the clock and the pages lead   *)
(* to.                                                                     *)
THEOREM BenchInvariant == Spec => []BInv
<1>1. Init => BInv
  BY InitBInv
<1> QED
  BY <1>1, NextBInv, PTL DEF Spec

(* A result on display is that of the challenge and the presentation       *)
(* displayed with it, for the policy chosen on the page and a credential   *)
(* of the level chosen there, and that level is enough for the policy; it  *)
(* was decided by the challenge's own session, in the status of the        *)
(* authorization, which allowed it: whatever other tabs did to the session *)
(* while the page waited.                                                  *)
THEOREM ResultsFit == Spec => []ResultFits
<1>1. BInv => ResultFits
  <2> SUFFICES ASSUME BInv, NEW b \in Tab, tab[b].result # None
               PROVE  LET c == tab[b].result.c IN
                      /\ tab[b].result.policy = tab[b].policy
                      /\ challenge[c].policy = tab[b].policy
                      /\ c = tab[b].challenge /\ c = tab[b].presentation
                      /\ receipt[c].level = LevelOf(tab[b].basic)
                      /\ receipt[c].level >= Needs(tab[b].policy)
                      /\ tab[b].result.session = challenge[c].session
                      /\ tab[b].result.status = receipt[c].status
                      /\ tab[b].result.status.active
                      /\ tab[b].result.status.revoked => tab[b].basic
    BY DEF ResultFits
  <2>1. PageFits(b) /\ Admitted /\ None \notin Challenge
    BY WorkbenchAssumption DEF BInv, Fits
  <2>2. tab[b].presentation # None /\ tab[b].result = Verdict(b)
    BY <2>1 DEF PageFits
  <2>3. Presents(b, tab[b].presentation)
    BY <2>1, <2>2 DEF PageFits
  <2>4. Suits(b, tab[b].presentation)
    BY <2>1, <2>3 DEF PageFits, Presents
  <2>5. LevelOf(tab[b].basic) = 1 => tab[b].basic
    BY DEF LevelOf
  <2> QED
    BY <2>1, <2>2, <2>3, <2>4, <2>5 DEF Presents, Suits, Admitted, Verdict
<1> QED
  BY <1>1, BenchInvariant, PTL

(* A session of the workbench's route leaves the map at the end of its     *)
(* life or with the process, never to make room; the map never holds more  *)
(* than MaxSessions; and no call changes the contract of a session that is *)
(* over.                                                                   *)
THEOREM SessionsKept == Spec => SessionsStand
<1>1. BInv /\ BInv' /\ [Next]_vars =>
        [/\ Cardinality({s \in Session : sessions'[s] # None}) <= MaxSessions
         /\ \A s \in Session :
              /\ sessions[s] # None /\ sessions'[s] = None =>
                   sessions[s].expires < now \/ Restart
              /\ status'[s] # status[s] =>
                   sessions'[s] # None /\ now <= sessions'[s].expires]_vars
  BY SessionsStep
<1> QED
  BY <1>1, BenchInvariant, PTL DEF Spec, SessionsStand
=============================================================================
