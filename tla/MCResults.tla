------------------------------- MODULE MCResults -------------------------------
(***************************************************************************)
(* What a browser shows of a session and after it: the timer with the       *)
(* arithmetic behind it, the result of one member, and the two lists.      *)
(***************************************************************************)
EXTENDS ContractEditing

CONSTANTS
  Pool, Dealt, Threshold, MaxLosses, MaxRefetches,             \* ResultPages
  Focuses, Breaks, RoundCounts, TierLists, MaxTotal, LogIds, MaxLate,  \* PenaltyMath
  Escapes, PageSize, MaxResults, MaxListTurns, Third           \* ResultLists

VARIABLES
  giveUp, guest, order, hidden, token, place, seen, list, index, spinning, landing,
  pinned, drawn, finished, dialog, timeUp, skipping, offered, asked, lost, refetches,
  contract, now, logs, opening, closing, gaveUpAt, endedAt, result, away,
  held, where, records, total, page, request, failed, restore, cache, board, since, torn, lturns

W == INSTANCE ResultPages WITH Penalties <- Dealt
M == INSTANCE PenaltyMath WITH Never <- None
\* three members, so that a rank can be skipped
L == INSTANCE ResultLists WITH results <- held, history <- records, turns <- lturns, MaxTurns <- MaxListTurns,
       Members <- Pages \cup {Third}

ASSUME RouletteGiven == W!PenaltiesAssumption
ASSUME TimesGiven    == M!TimesAssumption
ASSUME ListsGiven    == L!ListsAssumption
=============================================================================
