------------------------------- MODULE Schedule -------------------------------
(***************************************************************************)
(* What a delay queue promises, without the heap: a set of deadlines.  A   *)
(* check takes exactly those that have passed and fires their ids, except  *)
(* the ids that fired less than a window ago.                              *)
(***************************************************************************)
EXTENDS Naturals

CONSTANTS
  Ids,
  Times     \* the times and the windows in use

VARIABLES
  due,      \* the deadlines: [id, at]
  window,   \* ids fire at least this far apart
  last,     \* when an id last fired, unless there is no window or it was to be forgotten
  checked,  \* the time of the last check
  fired     \* the ids it fired, if it was the last step

scheduleVars == <<due, window, last, checked, fired>>

ScheduleInit ==
  due = {} /\ window \in Times /\ last = [i \in {} |-> 0] /\ checked = 0 /\ fired = {}

Others(i) == {d \in due : d.id # i}
Forgotten(i) == [j \in DOMAIN last \ {i} |-> last[j]]

\* The deadline of an id replaces its previous one.
Put(i, at) ==
  /\ due' = Others(i) \cup {[id |-> i, at |-> at]}
  /\ fired' = {}
  /\ UNCHANGED <<window, last, checked>>

Renew(i, at) ==
  /\ due' = Others(i) \cup {[id |-> i, at |-> at]}
  /\ last' = Forgotten(i)
  /\ fired' = {}
  /\ UNCHANGED <<window, checked>>

Cancel(i) ==
  /\ due' = Others(i)
  /\ last' = Forgotten(i)
  /\ fired' = {}
  /\ UNCHANGED <<window, checked>>

SetWindow(w) ==
  /\ window' = w /\ last' = [i \in {} |-> 0]
  /\ fired' = {}
  /\ UNCHANGED <<due, checked>>

Check(now) ==
  LET ripe == {d \in due : d.at <= now} IN
  /\ checked' = now
  /\ due' = due \ ripe
  /\ fired' = {i \in {d.id : d \in ripe} : i \in DOMAIN last => now - last[i] >= window}
  /\ last' = IF window = 0 THEN last
             ELSE [i \in DOMAIN last \cup fired' |-> IF i \in fired' THEN now ELSE last[i]]
  /\ UNCHANGED window

ScheduleNext ==
  \/ \E i \in Ids, at \in Times : Put(i, at) \/ Renew(i, at)
  \/ \E i \in Ids : Cancel(i)
  \/ \E w \in Times : SetWindow(w)
  \/ \E now \in Times : Check(now)

ScheduleSpec == ScheduleInit /\ [][ScheduleNext]_scheduleVars
===============================================================================
