-------------------------------- MODULE Wfp ---------------------------------
(***************************************************************************)
(* Quarantine by dynamic filters: the rule registry (rule.rs), the driver  *)
(* that owns one together with a set of filter ids, and its call to        *)
(* suspend a process (wfp_driver.rs).  Quarantining is registering: no     *)
(* operation of the driver reaches the filtering platform.                 *)
(***************************************************************************)
EXTENDS Naturals, Sequences, FiniteSets

CONSTANT Targets  \* QuarantineTarget

VARIABLES
  rules,           \* the registry: the target of each filter id
  next_filter_id,
  filters,         \* active_filter_ids of the driver
  is_live,         \* open_engine was called
  handles,         \* process handles that are open
  issued           \* history: every quarantine of this driver, in order: its
                   \* id and target, and whether its owner released it

wfpVars == <<rules, next_filter_id, filters, is_live, handles, issued>>

WfpInit ==
  /\ rules = [i \in {} |-> {}] /\ next_filter_id = 1
  /\ filters = {} /\ is_live = FALSE /\ handles = 0
  /\ issued = <<>>

-----------------------------------------------------------------------------
OpenEngine ==
  /\ is_live' = TRUE
  /\ UNCHANGED <<rules, next_filter_id, filters, handles, issued>>

\* Mutant of NextId: the number of rules in place of a counter.
NextIdByCount == Cardinality(DOMAIN rules) + 1

NextId == next_filter_id

\* add_quarantine, add_quarantine_rule: an entry of the registry and an id in
\* the set; also when the engine is not open, and a second rule for a target
\* that has one.
AddQuarantine(t) ==
  /\ rules' = [i \in DOMAIN rules \cup {NextId} |->
                 IF i = NextId THEN t ELSE rules[i]]
  /\ next_filter_id' = next_filter_id + 1
  /\ filters' = filters \cup {NextId}
  /\ issued' = Append(issued,
                      [id |-> NextId, target |-> t, released |-> FALSE])
  /\ UNCHANGED <<is_live, handles>>

\* remove_quarantine: an id that is not in the registry changes nothing.  The
\* code knows the id alone; n is the quarantine that the caller was given it
\* for, and in the history only that one is released.
RemoveQuarantine(id, n) ==
  /\ rules' = [i \in DOMAIN rules \ {id} |-> rules[i]]
  /\ filters' = filters \ (DOMAIN rules \cap {id})
  /\ issued' = [m \in DOMAIN issued |->
                  IF m = n THEN [issued[m] EXCEPT !.released = TRUE]
                  ELSE issued[m]]
  /\ UNCHANGED <<next_filter_id, is_live, handles>>

\* Where suspend_process can fail; the process id 0 is refused before.
SuspendFailures == {"open", "ntdll", "address", "status", "none"}

HandlesOpened(failure) == IF failure = "open" THEN 0 ELSE 1
HandlesClosed(failure) ==
  IF failure \in {"ntdll", "address", "status", "none"} THEN 1 ELSE 0

\* suspend_process of a process other than the idle process
SuspendProcess(failure) ==
  /\ handles' = (handles + HandlesOpened(failure)) - HandlesClosed(failure)
  /\ UNCHANGED <<rules, next_filter_id, filters, is_live, issued>>

\* The driver is dropped, and a new one is made.
DropDriver ==
  /\ rules' = [i \in {} |-> {}] /\ filters' = {}
  /\ next_filter_id' = 1 /\ is_live' = FALSE
  /\ issued' = <<>>
  /\ UNCHANGED handles

\* is_quarantined
IsQuarantined(t) == \E i \in DOMAIN rules : rules[i] = t

-----------------------------------------------------------------------------
\* A target is registered exactly as long as some quarantine of it was neither
\* released by its owner nor swept away with the driver: a release takes away
\* the quarantine its id was given out for and no other, also when that id is
\* released a second time after further rules were added; the driver's filter
\* ids are those of its registry, and no handle is left open (WfpDriver).
QuarantineIsExact ==
  /\ \A t \in Targets :
       IsQuarantined(t) <=>
         \E n \in DOMAIN issued : issued[n].target = t /\ ~issued[n].released
  /\ filters = DOMAIN rules
  /\ handles = 0

\* A rule that the driver reports as active was injected into the filtering
\* platform, which takes an open engine at the least (add_quarantine).
ActiveMeansInjected == filters # {} => is_live
=============================================================================
