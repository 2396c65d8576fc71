------------------------------ MODULE Blacklist ------------------------------
(***************************************************************************)
(* The official blacklist in the process of the service: it is fetched     *)
(* from time to time and enforced on the installed scripts and on the runs  *)
(* (src/blacklist.rs, src/blacklist/enforcement.rs), while clients change   *)
(* the scripts, the service reloads and runs start.                        *)
(*                                                                         *)
(* An entry names a package and is critical: it blocks and it cancels.      *)
(* Clients are other processes, whose copy of the list may be an old one:   *)
(* that an operation on a restricted package is refused is not relied on.   *)
(***************************************************************************)
EXTENDS ScriptService

CONSTANTS Refreshers,    \* threads that refresh: the worker, a command
          Withdrawn      \* packages the official list may name

ASSUME BlacklistAssumption == None \notin Refreshers /\ Withdrawn \subseteq Contents

VARIABLES official,      \* the official list
          refresh,       \* what every refresher is doing
          run            \* a run of a script

blacklist == <<entries, enforcer, official, refresh>>
vars == <<storeVars, serving, blacklist, run>>

Resting == [stage |-> "idle", got |-> {}, pending |-> {}, critical |-> {}]
AtRest  == [stage |-> "idle", script |-> None, content |-> None, cancelled |-> FALSE]

Turns(r, state) == refresh' = [refresh EXCEPT ![r] = state]

-----------------------------------------------------------------------------
(* A refresh.                                                              *)

Publish ==
  /\ official = {} /\ official' = Withdrawn
  /\ UNCHANGED <<storeVars, serving, entries, enforcer, refresh, run>>

\* The list is fetched without a lock: two refreshers may enforce what they got
\* in another order.
Fetch(r) ==
  /\ refresh[r] = Resting
  /\ Turns(r, [Resting EXCEPT !.stage = "fetched", !.got = official])
  /\ UNCHANGED <<storeVars, serving, entries, enforcer, official, run>>

\* Under the write lock the entries are replaced and the scripts listed.
RestrictedScripts(list) == {s \in Scripts : Installed(s) /\ rows[s].content \in list}
EnabledAmongNew(list) == RestrictedScripts(list \ entries) \cap Enabled
EnabledAmong(list)    == RestrictedScripts(list) \cap Enabled

\* Critical ones count whether they are enabled or not.
CriticalIfEnabled(list) == EnabledAmong(list)
CriticalScripts(list)   == RestrictedScripts(list)

Enforce(r) ==
  /\ refresh[r].stage = "fetched" /\ enforcer = None
  /\ enforcer' = r /\ entries' = refresh[r].got
  /\ Turns(r, [stage |-> "enforcing", got |-> {},
               pending  |-> EnabledAmong(refresh[r].got),
               critical |-> CriticalScripts(refresh[r].got)])
  /\ UNCHANGED <<storeVars, serving, official, run>>

\* An error ends the refresh; the entries stay replaced, the rest is not done.
Abandons(r) == enforcer' = None /\ Turns(r, Resting)

\* Scripts that were listed as enabled are disabled one by one; one that is
\* gone by now is an error.
DisableScript(r) ==
  /\ refresh[r].stage = "enforcing" /\ refresh[r].pending # {} /\ writer = None
  /\ LET s == CHOOSE t \in refresh[r].pending : TRUE
     IN  IF Installed(s)
         THEN /\ rows' = [rows EXCEPT ![s].enabled = FALSE]
              /\ Turns(r, [refresh[r] EXCEPT !.stage = "request", !.pending = @ \ {s}])
              /\ Outdates({}) /\ UNCHANGED enforcer
         ELSE Abandons(r) /\ UNCHANGED <<rows, outdated>>
  /\ UNCHANGED <<approvals, requested, files, writer, job, history, bounds, serving,
                 entries, official, run>>

RequestAfterDisabling(r) ==
  /\ refresh[r].stage = "request" /\ writer = None
  /\ requested' = TRUE /\ Outdates({})
  /\ Turns(r, [refresh[r] EXCEPT !.stage = "enforcing"])
  /\ UNCHANGED <<rows, approvals, files, writer, job, history, bounds, serving,
                 entries, enforcer, official, run>>

\* Last, the runs of critical scripts that registered are cancelled.
CancelCriticalRuns(r) ==
  /\ refresh[r].stage = "enforcing" /\ refresh[r].pending = {}
  /\ run' = IF run.stage = "running" /\ run.script \in refresh[r].critical
            THEN [run EXCEPT !.cancelled = TRUE] ELSE run
  /\ Abandons(r)
  /\ UNCHANGED <<storeVars, serving, entries, official>>

\* SQLite stays busy for too long.
EnforcementFails(r) ==
  /\ refresh[r].stage \in {"enforcing", "request"} /\ interruptions < MaxInterruptions
  /\ interruptions' = interruptions + 1
  /\ lost' = (lost \/ refresh[r].stage = "request")
  /\ Abandons(r)
  /\ UNCHANGED <<db, files, writer, outdated, job, consent, disturbed, ops, serving,
                 entries, official, run>>

RefreshStep(r) ==
  \/ Fetch(r) \/ Enforce(r) \/ DisableScript(r) \/ RequestAfterDisabling(r)
  \/ CancelCriticalRuns(r)

-----------------------------------------------------------------------------
(* A run: its last look at the list, its registration, its end.            *)

LastLook(s) ==
  /\ run = AtRest /\ s \in Enabled /\ Readable /\ ~Restricts(rows[s].content)
  /\ run' = [AtRest EXCEPT !.stage = "looked", !.script = s]
  /\ UNCHANGED <<storeVars, serving, blacklist>>

\* What it then loads is what is installed by then.
Register ==
  LET s == run.script
  IN  /\ run.stage = "looked"
      /\ run' = IF Installed(s) /\ Verified(rows[s]) /\ HasCurrentApproval(s, rows[s])
                THEN [run EXCEPT !.stage = "running", !.content = rows[s].content]
                ELSE AtRest
      /\ UNCHANGED <<storeVars, serving, blacklist>>

EndRun ==
  /\ run.stage = "running" /\ run' = AtRest
  /\ UNCHANGED <<storeVars, serving, blacklist>>

-----------------------------------------------------------------------------
Init ==
  /\ ServiceInit
  /\ official = {} /\ refresh = [r \in Refreshers |-> Resting] /\ run = AtRest

Next ==
  \/ ServiceNext /\ UNCHANGED <<official, refresh, run>>
  \/ Publish \/ \E r \in Refreshers : RefreshStep(r) \/ EnforcementFails(r)
  \/ (\E s \in Scripts : LastLook(s)) \/ Register \/ EndRun

\* A client finishes what it began, the loop of the service keeps turning, the
\* worker refreshes again and again and gets the locks it asks for.  A run need
\* not end.
Fairness ==
  /\ WF_vars(Loop /\ UNCHANGED <<blacklist, run>>)
  /\ \A p \in Clients : WF_vars(ClientStep(p) /\ UNCHANGED <<serving, blacklist, run>>)
  /\ \A r \in Refreshers : SF_vars(RefreshStep(r))
  /\ WF_vars(Register)

Spec == Init /\ [][Next]_vars /\ Fairness

-----------------------------------------------------------------------------
\* No change is forgotten: as long as the triggers differ from what is installed,
\* enabled and approved, a reload is requested or the change is not through yet.
\* (Restricted packages are left out: their triggers go with the list.)
Unrestricted(registrations) == {g \in registrations : g[2] \notin Withdrawn}

NoReloadIsLost ==
  service = "running" /\ Unrestricted(registered) # Unrestricted(Expected) =>
     requested \/ lost \/ \E p \in Clients : job[p].stage \in {"unlink", "request"}

\* And in the end they agree, requests lost in a crash included, unless the
\* service is down.
RegistrationsSettle ==
  <>[](service = "running" => registered = Expected)

\* Nothing the official list names stays enabled, whichever enforcement broke
\* off, whichever fetch came late, whoever enabled it again.
RestrictedEndDisabled ==
  <>[](\A s \in Enabled : rows[s].content \notin official)

\* And no run of it goes on, not even one that registered after its script was
\* disabled, as long as the package is installed.
CriticalRunsAreCancelled ==
  <>[](run.stage = "running" /\ run.script \in RestrictedScripts(official)
         /\ run.content = rows[run.script].content => run.cancelled)
=============================================================================
