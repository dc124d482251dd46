------------------------------- MODULE MCApp -------------------------------
(* The jobs, the target and the closing of the window, while the tray stays   *)
(* empty; MCPicker moves the draft.                                          *)
EXTENDS App

CONSTANTS t1, t2, vim, url, d1

(* t1 lists vim, t2 does not. *)
MCContent == [t \in {t1, t2} |-> IF t = t1 THEN {vim} ELSE {}]
(* Starts of each job: the catalogue twice where it is restarted. *)
MCOnce == [k \in Kinds |-> 1]
MCCatalogTwice == [k \in Kinds |-> IF k = "catalog" THEN 2 ELSE 1]

JobsNext == Next /\ UNCHANGED <<draftVars, add>>
JobsSpec == Init /\ [][JobsNext]_vars /\ Fairness
=============================================================================
