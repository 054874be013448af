------------------------------ MODULE PagesProofs ------------------------------
(***************************************************************************)
(* What the browser does is what the modules of its screens allow, one of  *)
(* them at a time: what is proved of those holds in the browser too.       *)
(***************************************************************************)
EXTENDS MCPages, RoomsProofs, ResultsProofs, TabsProofs

-----------------------------------------------------------------------------
(* The browser *)

pages == <<screen, vars, roomPage, results, accounts, times, tab, notices, library, lists, terms>>

LEMMA PagesStart == PagesInit => /\ Init /\ R!Init /\ W!Init /\ A!Init /\ M!Init /\ N!Init
                                /\ P!Init /\ S!Init /\ L!Init /\ C!Init
BY DEF PagesInit

LEMMA PagesStep ==
  ASSUME [PagesNext]_pages
  PROVE  /\ [Next]_vars
         /\ [R!Next]_(R!page) /\ [W!Next]_(W!view) /\ [A!Next]_(A!all) /\ [M!Next]_(M!vars)
         /\ [N!NavNext]_(N!vars) /\ [P!PushNext]_(P!vars) /\ [S!RulesNext]_(S!vars)
         /\ [L!ListsNext]_(L!vars) /\ [C!ConsentNext]_(C!vars)
<1>0. [Next]_vars
  BY DEF PagesNext, pages
<1>1. UNCHANGED roomPage \/ R!Next
  BY DEF PagesNext, pages
<1>2. UNCHANGED results \/ W!Next
  BY DEF PagesNext, pages
<1>3. UNCHANGED accounts \/ A!Next
  BY DEF PagesNext, pages
<1>4. UNCHANGED times \/ M!Next
  BY DEF PagesNext, pages
<1>5. UNCHANGED tab \/ N!NavNext
  BY DEF PagesNext, pages
<1>6. UNCHANGED notices \/ P!PushNext
  BY DEF PagesNext, pages
<1>7. UNCHANGED library \/ S!RulesNext
  BY DEF PagesNext, pages
<1>8. UNCHANGED lists \/ L!ListsNext
  BY DEF PagesNext, pages
<1>9. UNCHANGED terms \/ C!ConsentNext
  BY DEF PagesNext, pages
<1>10. UNCHANGED roomPage => UNCHANGED R!page
  BY DEF roomPage, R!page, R!shakes, R!network, R!browser, R!history
<1>11. UNCHANGED results => UNCHANGED W!view
  BY DEF results, W!view, W!server, W!wheel, W!knobs, W!count
<1>12. UNCHANGED accounts => UNCHANGED A!all
  BY DEF accounts, A!all, A!rooms, A!who
<1>13. UNCHANGED times => UNCHANGED M!vars
  BY DEF times, M!vars
<1>14. UNCHANGED tab => UNCHANGED N!vars
  BY DEF tab, N!vars, N!room, N!session, N!moves, N!tab, N!socket, N!pages
<1>15. UNCHANGED notices => UNCHANGED P!vars
  BY DEF notices, P!vars, P!devices, P!keys
<1>16. UNCHANGED library => UNCHANGED S!vars
  BY DEF library, S!vars
<1>17. UNCHANGED lists => UNCHANGED L!vars
  BY DEF lists, L!vars, L!listed, L!kept
<1>18. UNCHANGED terms => UNCHANGED C!vars
  BY DEF terms, C!vars, C!page, C!login, C!past
<1>19. [R!Next]_(R!page) /\ [W!Next]_(W!view) /\ [A!Next]_(A!all) /\ [M!Next]_(M!vars)
  BY <1>1, <1>2, <1>3, <1>4, <1>10, <1>11, <1>12, <1>13
<1>20. [N!NavNext]_(N!vars) /\ [P!PushNext]_(P!vars) /\ [S!RulesNext]_(S!vars)
  BY <1>5, <1>6, <1>7, <1>14, <1>15, <1>16
<1>21. [L!ListsNext]_(L!vars) /\ [C!ConsentNext]_(C!vars)
  BY <1>8, <1>9, <1>17, <1>18
<1> QED BY <1>0, <1>19, <1>20, <1>21

\* The browser implements each of its screens: it does what their modules allow.
THEOREM PagesRun ==
  PagesSpec => /\ Spec /\ R!Spec /\ W!Spec /\ A!Spec /\ M!Spec /\ N!NavSpec
               /\ P!PushSpec /\ S!RulesSpec /\ L!ListsSpec /\ C!ConsentSpec
BY PagesStart, PagesStep, PTL DEF PagesSpec, pages, Spec, R!Spec, W!Spec, A!Spec, M!Spec, N!NavSpec,
   P!PushSpec, S!RulesSpec, L!ListsSpec, C!ConsentSpec

\* In the browser too, a contract that one page at a time has edited can be started, and
\* everybody in a session signed the contract it runs by (TierSettings, createRoomRule).
THEOREM PageContract == PagesSpec => [](Startable /\ RunsAsSeen)
BY PagesRun, AlwaysStartable, AlwaysRunsAsSeen, PTL

\* In the browser too, a settled room page shows the room, but for what a copy read
\* before a change may hide (handleConnection, SocketContext).
THEOREM PageRoom == PagesSpec => []PageAgrees
<1>1. R!PageAgrees => PageAgrees
  BY DEF PageAgrees
<1> QED BY <1>1, PagesRun, PageShowsRoom, PTL

\* In the browser too, the roulette shows a member the penalties the server has dealt,
\* in its order, and whoever leaves has made them public (useRouletteLogic, exit, skip).
THEOREM PageDraws == PagesSpec => []DrawnAndPublished
<1>1. W!DrawnAndPublished => DrawnAndPublished
  BY DEF DrawnAndPublished
<1> QED BY <1>1, PagesRun, DrawsAndPublishes, PTL

\* In the browser too, the roulette can always be gone on with (handleSpin, handleSkip).
THEOREM PageGoesOn == PagesSpec => []CanGoOn
<1>1. W!CanGoOn => CanGoOn
  BY DEF CanGoOn
<1> QED BY <1>1, PagesRun, RouletteGoesOn, PTL

\* In the browser too, the page's clock and the server's timetable name the same
\* minutes as focus, and end together (FocusTimer, calculateFocusEscape).
THEOREM PageClock == PagesSpec => []TimetableAgrees
<1>1. M!TimetableAgrees => TimetableAgrees
  BY DEF TimetableAgrees
<1> QED BY <1>1, PagesRun, Timetable, TimesGiven, PTL

\* In the browser too, a list that offers no more lacks nothing, and ranks are shared
\* and skipped as they should (getMyHistory, MyPageHistory, buildResponse).
THEOREM PageLists == PagesSpec => []ListsTrue
<1>1. L!ListsTrue => ListsTrue
  BY DEF ListsTrue
<1> QED BY <1>1, PagesRun, ListsHold, PTL

\* In the browser too, an account has agreed only if its user left for Google with
\* every box checked, and an undisturbed login is of one that has (handleGoogleLogin,
\* handleMessage, completeLogin, agreeTerms).
THEOREM PageConsent == PagesSpec => []ConsentMeant
<1>1. C!ConsentMeant => ConsentMeant
  BY DEF ConsentMeant
<1> QED BY <1>1, PagesRun, ConsentGiven, PTL

\* In the browser too, a break warning that goes through has been shown to all who
\* could be reached (sendToRoom, sendBreakWarning).
THEOREM PageWarnings == ASSUME Bounded PROVE PagesSpec => []WarnsAll
<1>1. P!WarnsAll => WarnsAll
  BY DEF WarnsAll
<1> QED BY <1>1, PagesRun, EverybodyWarned, PTL

\* In the browser too, a saved contract is one save's, and the current list of a tab
\* lacks nothing (saveRuleTemplate, updateRuleTemplate, handleSave).
THEOREM PageSaves == ASSUME Titles # {} PROVE PagesSpec => []SavedAsMeant
<1>1. S!SavedAsMeant => SavedAsMeant
  BY DEF SavedAsMeant
<1> QED BY <1>1, PagesRun, SavesAreMeant, PTL

\* In the browser too, an account hosts one room, and whoever has a seat can come
\* back to it, but for the overlaps that are excused (create, join, deleteMe,
\* useActiveRoom).
THEOREM PageSeats == ASSUME IdsDistinct PROVE PagesSpec => []SeatsHold
<1>1. A!SeatsHold => SeatsHold
  BY DEF SeatsHold
<1> QED BY <1>1, PagesRun, SeatsAreHeld, PTL

\* In the browser too, whoever serves in a session enters no other room, unless the
\* session began while they were joining (join, findMemberInTimerRoom).
THEOREM PageEnters == ASSUME IdsDistinct PROVE PagesSpec => EntersOne
BY PagesRun, EntersNoOther, PTL DEF EntersOne

\* In the browser too, what the user sees is where the room is, and the address bar
\* says so (handlePopState, ContractForm, Timer).
THEOREM PageIsShown == PagesSpec => []PageShown
<1>1. N!PageShown => PageShown
  BY DEF PageShown
<1> QED BY <1>1, PagesRun, ShowsWhereTheRoomIs, PTL

\* In the browser too, nobody who serves is sent home by what a page looked up
\* (JoinRoom, SocketContext).
THEOREM PageWelcomes == PagesSpec => Welcome
BY PagesRun, WelcomesMembers, PTL DEF Welcome
=============================================================================
