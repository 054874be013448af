-------------------------------- MODULE MCTabs --------------------------------
(***************************************************************************)
(* What a browser keeps whichever screen it is on: the history of its tab,  *)
(* the subscriptions to messages, and the consent to the terms.            *)
(***************************************************************************)
EXTENDS ContractEditing

CONSTANTS
  MaxClicks,                                                   \* Navigation
  Members, Androids, Alerts, MaxSubs, MaxPushTurns             \* PushNotices

VARIABLES
  tphase, mine, thost, tguest, owes, ttoken, entries, pos, shown, guard, nav, going, leaving,
  from, tfresh, blocked, link, told, twire, tasked, step, tseen, card, tlate, tlost, clicks,
  ended, subscribed, posts, pushSub, quitters, cooldown, alert, warning, notified, steady, rejected, pturns,
  popup, opener, window, boxes, pending, oauth, departing, ahead, reloaded, readied, mail, back, sending,
  agreed, me, stands, undisturbed, given

N == INSTANCE Navigation WITH phase <- tphase, host <- thost, guest <- tguest, token <- ttoken,
       asked <- tasked, seen <- tseen, late <- tlate, lost <- tlost, fresh <- tfresh, wire <- twire
P == INSTANCE PushNotices WITH made <- subscribed, shown <- notified, turns <- pturns, MaxTurns <- MaxPushTurns
C == INSTANCE TermsConsent WITH Accounts <- Pages, view <- window, request <- sending, leaving <- departing,
       started <- oauth

ASSUME NothingGiven == N!NothingAssumption
=============================================================================
