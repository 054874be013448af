----------------------------- MODULE TermsConsent -----------------------------
(***************************************************************************)
(* How the consent to the terms reaches the server: the terms page, from    *)
(* which the user leaves for Google, in a popup on a desktop and in the tab *)
(* itself elsewhere (TermsPage, authNavigation); the two ways back, a       *)
(* message to the window that opened the popup (OAuthMessageHandler) or the *)
(* callback page (AuthCallbackPage); and agreeTerms of auth.service.        *)
(*                                                                         *)
(* Google is external: it returns with an account that the user chooses.   *)
(***************************************************************************)
EXTENDS FiniteSets

CONSTANTS Accounts, None

VARIABLES
  popup,      \* the terms are shown in a popup
  opener,     \* the window that opened it is there
  view,       \* the terms window: closed, terms, text, google, callback
  boxes,      \* agreement: the boxes that are checked
  pending,    \* PENDING_TERMS_KEY of the terms window
  started,    \* TERMS_OAUTH_STARTED_KEY
  leaving,    \* isLoading: the way to Google is taken
  ahead,      \* the page of Google is the next one in the window's history
  reloaded,   \* the terms window was loaded by a reload
  readied,    \* pendingTermsRef of the opener
  mail,       \* OAUTH_SUCCESS on its way to the opener, or None
  back,       \* the account with which the callback page was opened, or None
  request,    \* the agreement under way, or None
  agreed,     \* User.isTermsAgreed
  me,         \* who is logged in, once the login is complete
  stands,     \* history: the user has left for Google with all boxes checked; in a tab,
              \* and they are checked still
  undisturbed,\* history: nothing has happened since but the way back
  given       \* history: the accounts that came back while the consent stood

page  == <<boxes, pending, started, leaving, ahead, reloaded>>
login == <<readied, mail, back, request, me>>
past  == <<stands, undisturbed, given>>
vars  == <<popup, opener, view, page, login, agreed, past>>

Boxes == {"none", "some", "all"}

ConsentTypeOK ==
  /\ popup \in BOOLEAN /\ opener \in BOOLEAN
  /\ view \in {"closed", "terms", "text", "google", "callback"}
  /\ boxes \in Boxes /\ pending \in Boxes
  /\ {started, leaving, ahead, reloaded, readied, stands, undisturbed} \subseteq BOOLEAN
  /\ mail \in Accounts \cup {None} /\ back \in Accounts \cup {None}
  /\ request \in [as : Accounts, pc : {"find", "write", "ok"}, sure : BOOLEAN] \cup {None}
  /\ agreed \subseteq Accounts /\ given \subseteq Accounts
  /\ me \in [who : Accounts, sure : BOOLEAN] \cup {None}

Init ==
  /\ popup \in BOOLEAN /\ opener = TRUE /\ view = "closed" /\ boxes = "none" /\ pending = "none"
  /\ started = FALSE /\ leaving = FALSE /\ ahead = FALSE /\ reloaded = FALSE
  /\ readied = FALSE /\ mail = None /\ back = None /\ request = None
  /\ agreed = {} /\ me = None /\ stands = FALSE /\ undisturbed = FALSE /\ given = {}

-----------------------------------------------------------------------------
(* The terms page *)

Shows(b) == boxes' = b /\ pending' = b
Stands(b) == stands' = IF popup THEN stands ELSE b

\* startTermsAgreementLogin: a popup that is open already is used again, a new one
\* has its own storage.  The login button is there until the login is complete.
Begin ==
  /\ opener /\ me = None /\ (popup \/ view = "closed")
  /\ view' = "terms" /\ Shows("none") /\ leaving' = FALSE /\ ahead' = FALSE
  /\ IF popup THEN reloaded' = FALSE /\ started' \in {started /\ view # "closed", FALSE}
     ELSE UNCHANGED <<reloaded, started>>
  /\ stands' = readied /\ undisturbed' = FALSE
  /\ UNCHANGED <<popup, opener, login, agreed, given>>

\* The boxes can be changed until the window is gone.
Toggle ==
  /\ view = "terms" /\ \E b \in Boxes \ {boxes} : Shows(b) /\ Stands(leaving /\ b = "all")
  /\ undisturbed' = FALSE
  /\ UNCHANGED <<popup, opener, view, started, leaving, ahead, reloaded, login, agreed, given>>

\* The full text is another page; coming back, the boxes are as they were left,
\* unless the user has come back from Google or has reloaded the window.
ReadText ==
  /\ view = "terms" /\ ~leaving /\ view' = "text" /\ ahead' = FALSE
  /\ UNCHANGED <<popup, opener, boxes, pending, started, leaving, reloaded, login, agreed, past>>
ReturnToTerms ==
  /\ view = "text" /\ view' = "terms" /\ Shows(IF started \/ reloaded THEN "none" ELSE pending)
  /\ started' = FALSE /\ UNCHANGED <<popup, opener, leaving, ahead, reloaded, login, agreed, past>>

Reload ==
  /\ view = "terms" /\ Shows("none") /\ started' = FALSE /\ leaving' = FALSE /\ reloaded' = TRUE
  /\ Stands(FALSE) /\ undisturbed' = FALSE
  /\ UNCHANGED <<popup, opener, view, ahead, login, agreed, given>>

\* handleGoogleLogin: the opener is told first.
Leave ==
  /\ view = "terms" /\ boxes = "all" /\ ~leaving /\ leaving' = TRUE /\ started' = TRUE
  /\ pending' = boxes /\ readied' = (readied \/ (popup /\ opener))
  /\ stands' = TRUE /\ undisturbed' = opener
  /\ UNCHANGED <<popup, opener, view, boxes, ahead, reloaded, mail, back, request, me, agreed, given>>

Arrive ==
  /\ view = "terms" /\ leaving /\ view' = "google" /\ ahead' = FALSE
  /\ UNCHANGED <<popup, opener, boxes, pending, started, leaving, reloaded, login, agreed, past>>

\* Back from Google, to the page as it was (pageshow) or loaded again: the boxes
\* are cleared.
Back ==
  /\ view = "google" /\ view' = "terms" /\ ahead' = TRUE
  /\ IF started THEN Shows("none") ELSE Shows(pending)
  /\ started' = FALSE /\ leaving' = FALSE /\ reloaded' \in {reloaded, FALSE}
  /\ Stands(FALSE) /\ undisturbed' = FALSE
  /\ UNCHANGED <<popup, opener, login, agreed, given>>

\* The browser's forward button needs no box.
Forward ==
  /\ view = "terms" /\ ahead /\ ~leaving /\ view' = "google" /\ ahead' = FALSE
  /\ Stands(boxes = "all")
  /\ UNCHANGED <<popup, opener, boxes, pending, started, leaving, reloaded, login, agreed, undisturbed, given>>

\* The popup is closed, or the tab goes back to where it came from.
GiveUp ==
  /\ view = "terms" \/ (popup /\ view \in {"text", "google"}) \/ (view = "callback" /\ request = None /\ back = None)
  /\ ~leaving \/ popup
  /\ view' = "closed" /\ leaving' = FALSE /\ ahead' = FALSE
  /\ UNCHANGED <<popup, opener, boxes, pending, started, reloaded, login, agreed, past>>

-----------------------------------------------------------------------------
(* The way back *)

\* The server's page tells the opener and closes the popup, or goes to the callback page.
Return(i) ==
  /\ view = "google" /\ leaving' = FALSE /\ ahead' = FALSE
  /\ given' = IF stands THEN given \cup {i} ELSE given
  /\ IF popup /\ opener THEN mail' = i /\ view' = "closed" /\ UNCHANGED back
     ELSE back' = i /\ view' = "callback" /\ UNCHANGED mail
  /\ UNCHANGED <<popup, opener, boxes, pending, started, reloaded, readied, request, me, agreed, stands, undisturbed>>

Logged(i) == me' = [who |-> i, sure |-> undisturbed]
Ask(i)    == request' = [as |-> i, pc |-> "find", sure |-> undisturbed]

\* Mutant: the user is fetched while the consent is on its way.
HandleEager ==
  /\ mail # None /\ request = None /\ mail' = None
  /\ (IF readied THEN Ask(mail) ELSE UNCHANGED request) /\ Logged(mail)
  /\ UNCHANGED <<popup, opener, view, page, readied, back, agreed, past>>

\* handleMessage.  A second message waits (a bound) until the first login is complete.
Handle ==
  /\ mail # None /\ request = None /\ mail' = None
  /\ IF readied THEN Ask(mail) /\ UNCHANGED me ELSE Logged(mail) /\ UNCHANGED request
  /\ UNCHANGED <<popup, opener, view, page, readied, back, agreed, past>>

\* completeLogin
Callback ==
  /\ view = "callback" /\ back # None /\ back' = None
  /\ IF pending = "all" THEN Ask(back) /\ UNCHANGED <<me, view, pending, started>>
     ELSE Logged(back) /\ view' = "closed" /\ pending' = "none" /\ started' = FALSE /\ UNCHANGED request
  /\ UNCHANGED <<popup, opener, boxes, leaving, ahead, reloaded, readied, mail, agreed, past>>

\* agreeTerms of the server, once for each account.
AgreeFind ==
  /\ request # None /\ request.pc = "find"
  /\ request' = [request EXCEPT !.pc = IF request.as \in agreed THEN "ok" ELSE "write"]
  /\ UNCHANGED <<popup, opener, view, page, readied, mail, back, me, agreed, past>>
AgreeWrite ==
  /\ request # None /\ request.pc = "write" /\ request' = [request EXCEPT !.pc = "ok"]
  /\ agreed' = agreed \cup {request.as}
  /\ UNCHANGED <<popup, opener, view, page, readied, mail, back, me, past>>

\* The consent has been written; the opener forgets the one it holds by now.
Agreed ==
  /\ request # None /\ request.pc = "ok" /\ request' = None
  /\ me' = [who |-> request.as, sure |-> request.sure]
  /\ IF view = "callback"
     THEN view' = "closed" /\ pending' = "none" /\ started' = FALSE /\ UNCHANGED <<readied, undisturbed>>
     ELSE readied' = FALSE /\ undisturbed' = FALSE /\ UNCHANGED <<view, pending, started>>
  /\ UNCHANGED <<popup, opener, boxes, leaving, ahead, reloaded, mail, back, agreed, stands, given>>

\* The request or its answer is lost: the user is told, and nothing is undone.
Lose ==
  /\ request # None /\ request' = None
  /\ UNCHANGED <<popup, opener, view, page, readied, mail, back, me, agreed, past>>

\* The opener is reloaded, and forgets what it was told, or closed.
ReloadOpener ==
  /\ popup /\ opener /\ opener' \in BOOLEAN
  /\ readied' = FALSE /\ mail' = None /\ undisturbed' = FALSE
  /\ request' = (IF view = "callback" THEN request ELSE None)
  /\ UNCHANGED <<popup, view, page, back, me, agreed, stands, given>>

Logout ==
  /\ me # None /\ me' = None
  /\ UNCHANGED <<popup, opener, view, page, readied, mail, back, request, agreed, past>>

ConsentNext ==
  \/ Begin \/ Toggle \/ ReadText \/ ReturnToTerms \/ Reload \/ Leave \/ Arrive \/ Back \/ Forward
  \/ GiveUp \/ \E i \in Accounts : Return(i)
  \/ Handle \/ Callback \/ AgreeFind \/ AgreeWrite \/ Agreed \/ Lose \/ ReloadOpener \/ Logout

ConsentSpec == Init /\ [][ConsentNext]_vars

-----------------------------------------------------------------------------
(* Properties *)

\* An account has agreed only if its user left for Google with every box checked;
\* and, in a tab, only if they were so to the end: coming back from Google clears
\* them.  (A popup that comes back clears them too, but its opener keeps what it was
\* told, and sends it should the user go forward again.)
AgreedGiven == agreed \subseteq given

\* Whoever is logged in by an attempt that nothing disturbed has agreed.
LoggedInAgreed == me # None /\ me.sure => me.who \in agreed

\* The consent that the server has is the one that was given.
ConsentMeant == AgreedGiven /\ LoggedInAgreed
=============================================================================
