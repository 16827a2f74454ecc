---------------------------- MODULE IssuerConsole ----------------------------
(***************************************************************************)
(* The issuer page (apps/web/app/issuer/page.tsx), where an operator       *)
(* approves enrollments and revokes credentials, as a client of the        *)
(* service of OperatorAccess.  One operation is under way at a time and    *)
(* every control is disabled meanwhile; an operation may take effect       *)
(* although the page hears of a failure, or is gone.                       *)
(***************************************************************************)
EXTENDS OperatorAccess

CONSTANTS
  Enrollment,  \* what may be approved: identities with a level
  Credential

ASSUME ConsoleAssumption ==
  /\ None \notin Enrollment \cup Credential \cup Request \cup Action
  /\ {"approve", "revoke"} \subseteq Action

VARIABLES
  page,        \* the state of the component
  ticked       \* history: the reference shown when the box was last ticked

consoleVars == <<vars, page, ticked>>

Blank == [token |-> None, input |-> None, offer |-> None, reference |-> None,
          confirmed |-> FALSE, doing |-> None, asked |-> None, sent |-> None]

ConsoleInit == Init /\ page = Blank /\ ticked = None

Free == page.doing = None

EnterToken(token) ==
  /\ Free
  /\ page' = [page EXCEPT !.token = token]
  /\ UNCHANGED <<vars, ticked>>

(* Mutant: the inputs may change while an operation is under way.          *)
BusyEnterEnrollment(e) ==
  /\ page' = [page EXCEPT !.input = e, !.offer = None]
  /\ UNCHANGED <<vars, ticked>>

(* The identity or the level: an offer approved for others goes.           *)
EnterEnrollment(e) ==
  /\ Free
  /\ page' = [page EXCEPT !.input = e, !.offer = None]
  /\ UNCHANGED <<vars, ticked>>

EnterReference(k) ==
  /\ Free
  /\ page' = [page EXCEPT !.reference = k, !.confirmed = FALSE]
  /\ UNCHANGED <<vars, ticked>>

Confirm(on) ==
  /\ Free
  /\ page' = [page EXCEPT !.confirmed = on]
  /\ ticked' = IF on THEN page.reference ELSE ticked
  /\ UNCHANGED vars

(* The two buttons.                                                        *)
Enabled(action) ==
  /\ Free /\ page.token # None
  /\ \/ action = "approve" /\ page.input # None
     \/ action = "revoke" /\ page.reference # None /\ page.confirmed

(* What a click asks for is read from the page at the click.               *)
Asked(action) == IF action = "approve" THEN page.input ELSE page.reference

act(action) ==
  /\ Enabled(action)
  /\ \E r \in Request, s \in Server :
       /\ Arrive(r, s, action, page.token)
       /\ page' = [page EXCEPT !.doing = action, !.asked = Asked(action), !.sent = r]
  /\ Remember
  /\ UNCHANGED ticked

(* The page hears that the operation took effect.                          *)
Answered ==
  /\ ~ Free
  /\ request[page.sent].phase = "committed"
  /\ Finish(page.sent)
  /\ Remember
  /\ page' = IF page.doing = "approve"
             THEN [page EXCEPT !.offer = page.asked, !.doing = None, !.asked = None,
                              !.sent = None]
             ELSE [page EXCEPT !.reference = None, !.confirmed = FALSE, !.doing = None,
                              !.asked = None, !.sent = None]
  /\ UNCHANGED ticked

(* It hears of a failure: a refusal, or a connection lost, maybe after the *)
(* operation took effect.                                                  *)
Failed ==
  /\ ~ Free
  /\ \/ Finish(page.sent) /\ Remember
     \/ request[page.sent].phase = "idle" /\ UNCHANGED vars
  /\ page' = [page EXCEPT !.doing = None, !.asked = None, !.sent = None]
  /\ UNCHANGED ticked

(* Clear operator session leaves the box as it is.                         *)
Clear ==
  /\ Free
  /\ page' = [Blank EXCEPT !.confirmed = page.confirmed]
  /\ UNCHANGED <<vars, ticked>>

(* The page is closed or reloaded; a request under way goes on.            *)
Reload ==
  /\ page' = Blank
  /\ ticked' = None
  /\ UNCHANGED vars

Others ==
  \/ Tick \/ Administration
  \/ \E r \in Request : Authenticate(r) \/ Commit(r)
  \/ \E r \in Request \ {page.sent} :
       \/ Finish(r)
       \/ \E s \in Server, action \in Action :
            \E token \in Tokens(action) : Arrive(r, s, action, token)
  \/ \E s \in Server, on \in BOOLEAN : Restart(s, on)

Console ==
  \/ \E token \in Token \cup {Recovery} : EnterToken(token)
  \/ \E e \in Enrollment : EnterEnrollment(e)
  \/ \E k \in Credential : EnterReference(k)
  \/ \E on \in BOOLEAN : Confirm(on)
  \/ \E action \in {"approve", "revoke"} : act(action)
  \/ Answered \/ Failed \/ Clear \/ Reload

ConsoleNext == (Others /\ Remember /\ UNCHANGED <<page, ticked>>) \/ Console
ConsoleSpec == ConsoleInit /\ [][ConsoleNext]_consoleVars

-----------------------------------------------------------------------------
(* What the page shows and sends is what the operator looked at, however   *)
(* late an answer comes: an offer on display was approved for the identity *)
(* and level on display, a revocation is ready to be sent, or under way,   *)
(* only for the reference that was on display when the operator last       *)
(* confirmed one.                                                          *)
ActsAsShown ==
  /\ page.offer # None => page.offer = page.input
  /\ page.confirmed /\ page.reference # None => ticked = page.reference
  /\ page.doing = "revoke" => ticked = page.asked

=============================================================================
