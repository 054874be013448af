------------------------------ MODULE ResultLists ------------------------------
(***************************************************************************)
(* The two lists a user reads afterwards: all results of the user, newest   *)
(* first, page by page while the screen is scrolled (MyPageHistory, with    *)
(* getMyHistory of user.service), and the ranking of one of them, which a   *)
(* click on it opens (buildResponse of result.service, RankingSection).     *)
(*                                                                         *)
(* A result is the number of its turn.  The server counts and reads in two  *)
(* statements, and results may be added at any time.                       *)
(***************************************************************************)
EXTENDS Naturals, Sequences, SequencesExt

CONSTANTS
  Members,     \* of the room of a result
  Escapes,     \* the escape times looked at
  PageSize,    \* PAGE_SIZE
  MaxResults,  \* bound: results of the user
  MaxTurns,    \* bound: times a request fails or the cache becomes too old
  None

VARIABLES
  results,     \* the user's results are 1..results
  where,       \* the list, the result that was clicked, or another page
  history, total, page,     \* the list's state
  request,     \* the page that is asked for, or None
  failed,      \* errorMessage, loadMoreError
  restore,     \* mypageHistoryScrollRestore
  cache,       \* mypage-history-cache
  board,       \* the ranking shown
  since,       \* history: the results there were when the first page was read
  torn,        \* history: a result was added between the count and the rows that are shown
  turns

listed == <<history, total, page, request, failed, since, torn>>
kept   == <<restore, cache>>
vars   == <<results, where, listed, kept, board, turns>>

\* A page holds something.
ListsAssumption ==
  /\ IsFiniteSet(Members) /\ Escapes \subseteq Nat
  /\ PageSize \in Nat \ {0} /\ MaxResults \in Nat \ {0} /\ MaxTurns \in Nat

Rows     == Seq(1..MaxResults)
Counted  == 0..MaxResults
Snapshot == [history : Rows, total : Counted, page : Counted, since : Counted, torn : BOOLEAN,
             fresh : BOOLEAN]
Request  == [page : 1..(MaxResults + 1), at : {"count", "find", "answer"}, total : Counted,
             rows : Rows, since : Counted]

ListsTypeOK ==
  /\ results \in Counted /\ where \in {"list", "result", "elsewhere"}
  /\ history \in Rows /\ total \in Counted /\ page \in Counted
  /\ request \in Request \cup {None} /\ failed \in {"no", "first", "more"}
  /\ restore \in BOOLEAN /\ cache \in Snapshot \cup {None}
  /\ board \in Seq([member : Members, escape : Escapes, rank : Nat]) \cup {None}
  /\ since \in Counted /\ torn \in BOOLEAN /\ turns \in 0..MaxTurns

Init ==
  /\ results \in Counted /\ where = "elsewhere" /\ history = <<>> /\ total = 0 /\ page = 0
  /\ request = None /\ failed = "no" /\ restore = FALSE /\ cache = None /\ board = None
  /\ since = 0 /\ torn = FALSE /\ turns = 0

-----------------------------------------------------------------------------
(* The list *)

HasMore  == Len(history) < total
Asked(p) == [page |-> p, at |-> "count", total |-> 0, rows |-> <<>>, since |-> 0]

\* The screen opens: back from a result it shows what it showed, otherwise it
\* loads the first page.  The flag serves once.
Enter ==
  /\ where # "list" /\ where' = "list" /\ restore' = FALSE /\ board' = None /\ failed' = "no"
  /\ IF restore /\ cache # None /\ cache.fresh
     THEN /\ history' = cache.history /\ total' = cache.total /\ page' = cache.page
          /\ since' = cache.since /\ torn' = cache.torn /\ request' = None
     ELSE /\ history' = <<>> /\ total' = 0 /\ page' = 0 /\ request' = Asked(1)
          /\ since' = 0 /\ torn' = FALSE
  /\ UNCHANGED <<results, cache, turns>>

\* The end of the list is seen; after a failure the button asks again.
LoadMore ==
  /\ where = "list" /\ HasMore /\ request = None
  /\ request' = Asked(page + 1) /\ failed' = "no"
  /\ UNCHANGED <<results, where, history, total, page, since, torn, kept, board, turns>>

\* Unmounting keeps a list that is not empty; an answer on its way finds nobody.
Leave(to) ==
  /\ where = "list" /\ where' = to
  /\ cache' = IF history = <<>> THEN cache
              ELSE [history |-> history, total |-> total, page |-> page, since |-> since,
                    torn |-> torn, fresh |-> TRUE]
  /\ history' = <<>> /\ total' = 0 /\ page' = 0 /\ request' = None /\ failed' = "no"
  /\ since' = 0 /\ torn' = FALSE
  /\ UNCHANGED <<results, turns>>

GoElsewhere == Leave("elsewhere") /\ UNCHANGED <<restore, board>>

Loaded ==
  /\ request # None /\ request.at = "answer" /\ request' = None
  /\ history' = (IF request.page = 1 THEN request.rows ELSE history \o request.rows)
  /\ total' = request.total /\ page' = request.page
  /\ since' = (IF request.page = 1 THEN request.since ELSE since)
  /\ torn' = (request.total # request.since)
  /\ failed' = "no" /\ UNCHANGED <<results, where, kept, board, turns>>

\* A first page that fails leaves nothing, a later one what was there.
Fail ==
  /\ turns < MaxTurns /\ turns' = turns + 1 /\ request # None /\ request' = None
  /\ failed' = (IF request.page = 1 THEN "first" ELSE "more")
  /\ history' = (IF request.page = 1 THEN <<>> ELSE history)
  /\ UNCHANGED <<results, where, total, page, since, torn, kept, board>>

\* CACHE_TTL_MS pass.
Age ==
  /\ turns < MaxTurns /\ turns' = turns + 1 /\ cache # None /\ cache.fresh
  /\ cache' = [cache EXCEPT !.fresh = FALSE]
  /\ UNCHANGED <<results, where, listed, restore, board>>

-----------------------------------------------------------------------------
(* getMyHistory *)

Count ==
  /\ request # None /\ request.at = "count"
  /\ request' = [request EXCEPT !.at = "find", !.total = results]
  /\ UNCHANGED <<results, where, history, total, page, failed, since, torn, kept, board, turns>>

\* Mutant: a page starts with the last result of the one before.
PageOfOverlapping(n, p) ==
  LET skip == (p - 1) * (PageSize - 1)
      left == IF n > skip THEN n - skip ELSE 0
  IN  [i \in 1..(IF left < PageSize THEN left ELSE PageSize) |-> n - skip - i + 1]

\* Newest first, from the offset on.
PageOf(n, p) ==
  LET skip == (p - 1) * PageSize
      left == IF n > skip THEN n - skip ELSE 0
  IN  [i \in 1..(IF left < PageSize THEN left ELSE PageSize) |-> n - skip - i + 1]

Find ==
  /\ request # None /\ request.at = "find"
  /\ request' = [request EXCEPT !.at = "answer", !.rows = PageOf(results, request.page),
                                !.since = results]
  /\ UNCHANGED <<results, where, history, total, page, failed, since, torn, kept, board, turns>>

\* A session of the user is settled.
Settle ==
  /\ results < MaxResults /\ results' = results + 1
  /\ UNCHANGED <<where, listed, kept, board, turns>>

-----------------------------------------------------------------------------
(* buildResponse *)

\* The longest escape first; of two that are equal the smaller id, which says
\* nothing of the members.
Sorted(escape) ==
  {s \in SetToSeqs(Members) : \A i \in 1..(Len(s) - 1) : escape[s[i]] >= escape[s[i + 1]]}

\* An equal takes the rank of the one before, any other one its place.
Ranking(s, escape) ==
  LET rank[i \in 1..Len(s)] ==
        IF i > 1 /\ escape[s[i]] = escape[s[i - 1]] THEN rank[i - 1] ELSE i
  IN  [i \in 1..Len(s) |-> [member |-> s[i], escape |-> escape[s[i]], rank |-> rank[i]]]

\* Who was never away gets a thumb (0) instead of a rank.
Badge(row) == IF row.escape = 0 THEN 0 ELSE row.rank

\* A click on a result leaves the flag behind and opens the ranking.
OpenResult ==
  /\ history # <<>> /\ Leave("result") /\ restore' = TRUE
  /\ \E escape \in [Members -> Escapes] : \E s \in Sorted(escape) : board' = Ranking(s, escape)

\* From the result to a page that is not the list: the flag stays.
Away ==
  /\ where = "result" /\ where' = "elsewhere" /\ board' = None
  /\ UNCHANGED <<results, listed, kept, turns>>

ListsNext ==
  Enter \/ LoadMore \/ GoElsewhere \/ Loaded \/ Fail \/ Age \/ Count \/ Find \/ Settle
    \/ OpenResult \/ Away

ListsSpec == Init /\ [][ListsNext]_vars

-----------------------------------------------------------------------------
(* Properties *)

Shows(n) == \E i \in 1..Len(history) : history[i] = n

\* A list that offers no more has every result there was when its first page was
\* read, whatever failed, was asked for again, was added or was kept meanwhile;
\* unless one was added while the last page was read.  None is repeated unless
\* results were added.
HistoryComplete ==
  where = "list" /\ page > 0 =>
    /\ ~HasMore /\ request = None /\ ~torn => \A n \in 1..since : Shows(n)
    /\ results = since => \A i, j \in 1..Len(history) : history[i] = history[j] => i = j

\* A member who was away has the rank that is one more than the members who were
\* away for longer, so that equals share it and the next one is skipped; the others
\* have a thumb.
RankedFairly ==
  board # None =>
    \A i \in 1..Len(board) :
      Badge(board[i]) = IF board[i].escape = 0 THEN 0
                        ELSE 1 + Cardinality({j \in 1..Len(board) : board[j].escape > board[i].escape})

\* The lists show what there is.
ListsTrue == HistoryComplete /\ RankedFairly
=============================================================================
