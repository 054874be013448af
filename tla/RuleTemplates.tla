----------------------------- MODULE RuleTemplates -----------------------------
(***************************************************************************)
(* The contracts that a user has saved, as the tabs of the user save,       *)
(* overwrite, load and delete them: the rows of RULE_TEMPLATE and           *)
(* PENALTY_ITEM, the handlers of rule.service down to each statement, and   *)
(* the list of saved contracts that every tab caches (ContractActions, the  *)
(* two dialogs).                                                            *)
(*                                                                         *)
(* What is saved is the number of the save: the row keeps the settings of   *)
(* one save, its penalties are rows of their own.  createRoomRule assigns   *)
(* to a room only rows that are not saved, so deleteRuleTemplate never      *)
(* finds a saved one in use.  A tab has one request under way at a time.    *)
(***************************************************************************)
EXTENDS Naturals, FiniteSets

CONSTANTS
  Tabs,        \* the user's tabs, with a query cache each
  Titles,
  MaxSaves,    \* bound: saves and overwrites
  MaxTurns     \* bound: deletions, and what the network and the clock do

VARIABLES
  rules,     \* the saved rows
  task,      \* the request each tab has under way
  list,      \* the list each tab has cached; empty before the first
  stale,     \* tabs whose cached list is older than a minute, or invalidated
  opened,    \* the dialog that is open in a tab
  behind,    \* history: tabs that cannot know of a change made since they looked
  blended,   \* history: rows that two overwrites have replaced at once
  made,      \* the rows made so far
  saves, turns

vars == <<rules, task, list, stale, opened, behind, blended, made, saves, turns>>

Numbers == 1..MaxSaves
Row     == [title : Titles, settings : Numbers, penalties : SUBSET Numbers]
NoTask  == [pc |-> "idle", title |-> CHOOSE x \in Titles : TRUE,
            row |-> 0, save |-> 0, seen |-> {}]

\* A table: some ids, each with its row.
IsTable(f) == DOMAIN f \subseteq Numbers /\ \A i \in DOMAIN f : f[i] \in Row

RulesTypeOK ==
  /\ IsTable(rules) /\ list \in [Tabs -> {list[t] : t \in Tabs}] /\ \A t \in Tabs : IsTable(list[t])
  /\ task \in [Tabs -> [pc : {"idle", "save_find", "save_create", "update_find", "update_twin",
                              "update_clear", "update_write", "delete_find", "delete_row",
                              "done", "refused"},
                        title : Titles, row : 0..MaxSaves, save : 0..MaxSaves,
                        seen : SUBSET Numbers]]
  /\ stale \subseteq Tabs /\ behind \subseteq Tabs /\ blended \subseteq Numbers
  /\ opened \in [Tabs -> {"none", "save", "load"}]
  /\ made \in 1..saves /\ saves \in 1..MaxSaves /\ turns \in 0..MaxTurns

Empty == [i \in {} |-> {}]

Saved(x, n) == [title |-> x, settings |-> n, penalties |-> {n}]

\* One contract has been saved before.
Init ==
  /\ rules = [i \in {1} |-> Saved(CHOOSE x \in Titles : TRUE, 1)] /\ task = [t \in Tabs |-> NoTask]
  /\ list = [t \in Tabs |-> Empty] /\ stale = Tabs
  /\ opened = [t \in Tabs |-> "none"]
  /\ behind = {} /\ blended = {} /\ made = 1 /\ saves = 1 /\ turns = 0

Turn == turns < MaxTurns /\ turns' = turns + 1

-----------------------------------------------------------------------------
(* A tab *)

tab == <<list, stale, opened>>

Titled(table, x) == {i \in DOMAIN table : table[i].title = x}

Open(t, which) ==
  /\ opened[t] = "none" /\ opened' = [opened EXCEPT ![t] = which]
  /\ UNCHANGED <<rules, task, list, stale, behind, blended, made, saves, turns>>

\* Both dialogs look for the list when they open and it is stale.
Look(t) ==
  /\ opened[t] # "none" /\ t \in stale
  /\ list' = [list EXCEPT ![t] = rules] /\ stale' = stale \ {t} /\ behind' = behind \ {t}
  /\ UNCHANGED <<rules, task, opened, blended, made, saves, turns>>

Age(t) ==
  /\ Turn /\ t \notin stale /\ stale' = stale \cup {t}
  /\ UNCHANGED <<rules, task, list, opened, behind, blended, made, saves>>

Close(t) ==
  /\ opened[t] # "none" /\ opened' = [opened EXCEPT ![t] = "none"]
  /\ UNCHANGED <<rules, task, list, stale, behind, blended, made, saves, turns>>

Ask(t, pc, x, i, n) ==
  /\ task[t].pc = "idle"
  /\ task' = [task EXCEPT ![t] = [pc |-> pc, title |-> x, row |-> i, save |-> n, seen |-> {}]]
  /\ UNCHANGED <<rules, tab, behind, blended, made>>

\* A title of the cached list is overwritten, any other one is saved as new.  The
\* button waits for the answer.
Save(t, x) ==
  /\ opened[t] = "save" /\ saves < MaxSaves /\ saves' = saves + 1
  /\ IF Titled(list[t], x) = {} THEN Ask(t, "save_find", x, 0, saves')
     ELSE Ask(t, "update_find", x, CHOOSE i \in Titled(list[t], x) : TRUE, saves')
  /\ UNCHANGED turns

Delete(t, i) ==
  /\ Turn /\ opened[t] = "load" /\ i \in DOMAIN list[t]
  /\ Ask(t, "delete_find", list[t][i].title, i, 0) /\ UNCHANGED saves

\* Mutant: the list is taken for current after a save.
AnsweredKept(t) ==
  /\ task[t].pc \in {"done", "refused"} /\ task' = [task EXCEPT ![t] = NoTask]
  /\ opened' = IF task[t].pc = "done" /\ opened[t] = "save" THEN [opened EXCEPT ![t] = "none"] ELSE opened
  /\ UNCHANGED <<rules, list, stale, behind, blended, made, saves, turns>>

\* Success invalidates the list, and closes the dialog that saves.  A refusal is
\* shown, and that is all.
Answered(t) ==
  /\ task[t].pc \in {"done", "refused"} /\ task' = [task EXCEPT ![t] = NoTask]
  /\ stale' = IF task[t].pc = "done" THEN stale \cup {t} ELSE stale
  /\ opened' = IF task[t].pc = "done" /\ task[t].save > 0 /\ opened[t] = "save"
               THEN [opened EXCEPT ![t] = "none"] ELSE opened
  /\ UNCHANGED <<rules, list, behind, blended, made, saves, turns>>

-----------------------------------------------------------------------------
(* The server *)

To(t, from, pc) == task[t].pc = from /\ task' = [task EXCEPT ![t].pc = pc]
Reads     == UNCHANGED <<rules, tab, behind, blended, made, saves, turns>>
\* What a tab changes the other tabs are not told.
Changes(t) == behind' = behind \cup (Tabs \ {t}) /\ UNCHANGED <<tab, saves, turns>>

SaveFind(t) ==
  /\ To(t, "save_find", IF Titled(rules, task[t].title) = {} THEN "save_create" ELSE "refused")
  /\ Reads

\* Of two that have found the title free, the unique key (userId, title) refuses
\* the second.
SaveCreate(t) ==
  IF Titled(rules, task[t].title) # {} THEN To(t, "save_create", "refused") /\ Reads
  ELSE /\ To(t, "save_create", "done") /\ made' = made + 1
       /\ rules' = [i \in DOMAIN rules \cup {made'} |->
                      IF i = made' THEN Saved(task[t].title, task[t].save) ELSE rules[i]]
       /\ Changes(t) /\ UNCHANGED blended

UpdateFind(t) ==
  To(t, "update_find", IF task[t].row \in DOMAIN rules THEN "update_twin" ELSE "refused") /\ Reads

UpdateTwin(t) ==
  /\ To(t, "update_twin", IF Titled(rules, task[t].title) \subseteq {task[t].row} THEN "update_clear"
                          ELSE "refused")
  /\ Reads

\* deleteMany removes the penalties that were committed when it began.
UpdateClear(t) ==
  /\ task[t].pc = "update_clear"
  /\ LET i == task[t].row
         twins == {u \in Tabs \ {t} : task[u].pc = "update_write" /\ task[u].row = i}
     IN  /\ task' = [task EXCEPT ![t].pc = "update_write",
                                 ![t].seen = IF i \in DOMAIN rules THEN rules[i].penalties ELSE {}]
         /\ blended' = IF twins = {} THEN blended ELSE blended \cup {i}
  /\ UNCHANGED <<rules, tab, behind, made, saves, turns>>

\* The row is written with new penalties, and the transaction is committed.
UpdateWrite(t) ==
  IF task[t].row \notin DOMAIN rules THEN To(t, "update_write", "refused") /\ Reads
  ELSE /\ To(t, "update_write", "done")
       /\ rules' = [rules EXCEPT ![task[t].row] =
                      [title |-> task[t].title, settings |-> task[t].save,
                       penalties |-> (@.penalties \ task[t].seen) \cup {task[t].save}]]
       /\ Changes(t) /\ UNCHANGED <<blended, made>>

DeleteFind(t) ==
  To(t, "delete_find", IF task[t].row \in DOMAIN rules THEN "delete_row" ELSE "refused") /\ Reads

\* The penalties go with the row.
DeleteRow(t) ==
  IF task[t].row \notin DOMAIN rules THEN To(t, "delete_row", "refused") /\ Reads
  ELSE /\ To(t, "delete_row", "done")
       /\ rules' = [i \in DOMAIN rules \ {task[t].row} |-> rules[i]]
       /\ Changes(t) /\ UNCHANGED <<blended, made>>

\* The request fails, or its answer is lost: the tab does not learn what was done.
Lose(t) ==
  /\ Turn /\ task[t].pc \notin {"idle", "refused"} /\ task' = [task EXCEPT ![t].pc = "refused"]
  /\ behind' = IF task[t].pc = "done" THEN behind \cup {t} ELSE behind
  /\ UNCHANGED <<rules, tab, blended, made, saves>>

RulesNext ==
  \E t \in Tabs :
    \/ Open(t, "save") \/ Open(t, "load") \/ Look(t) \/ Age(t) \/ Close(t)
    \/ \E x \in Titles : Save(t, x)
    \/ \E i \in Numbers : Delete(t, i)
    \/ SaveFind(t) \/ SaveCreate(t) \/ UpdateFind(t) \/ UpdateTwin(t) \/ UpdateClear(t)
    \/ UpdateWrite(t) \/ DeleteFind(t) \/ DeleteRow(t) \/ Lose(t) \/ Answered(t)

RulesSpec == Init /\ [][RulesNext]_vars

-----------------------------------------------------------------------------
(* Properties *)

\* A title names one saved contract (saveRuleTemplate, updateRuleTemplate).
OneByTitle == \A x \in Titles : Cardinality(Titled(rules, x)) <= 1

\* The penalties of a saved contract are those of the save its settings are from,
\* unless two overwrites of it overlapped: then it has the penalties of both.
KeptWhole == \A i \in DOMAIN rules : i \in blended \/ rules[i].penalties = {rules[i].settings}

\* A list that a tab takes for current is current, but for what other tabs did
\* and what was done though the answer was lost (the invalidation of rules.saved).
ListCurrent == \A t \in Tabs \ (stale \cup behind) : task[t].pc = "idle" => list[t] = rules

\* What is saved is what was meant, and every tab that can know knows it.
SavedAsMeant == OneByTitle /\ KeptWhole /\ ListCurrent
=============================================================================
