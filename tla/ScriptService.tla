--------------------------- MODULE ScriptService ---------------------------
(***************************************************************************)
(* The store beside the service, which keeps its triggers up to date with  *)
(* the installed scripts: it is asked to reload by a row of the database    *)
(* and looks from time to time of itself (src/service/runtime.rs,          *)
(* triggers.rs, preflight.rs, list_trigger_registrations of                *)
(* crates/baudbound-core/src/lib.rs).  Module Blacklist completes it.       *)
(***************************************************************************)
EXTENDS ScriptStore

VARIABLES service,       \* where the service is
          todo,          \* scripts its pass has yet to load, as they were listed
          found,         \* the row of the one it loads
          loaded,        \* that row's package is read
          fresh,         \* registrations the pass has found
          registered,    \* registrations its triggers were built from
          entries,       \* packages the blacklist of its process restricts
          enforcer       \* who holds the write lock of that blacklist

passing == <<todo, found, loaded, fresh>>
serving == <<service, passing, registered>>

-----------------------------------------------------------------------------
\* A pass lists the enabled scripts and loads their packages one by one: first
\* to check what they require, then to list their triggers.
Lists(pass) ==
  /\ service' = pass
  /\ todo' = {<<s, rows[s].content>> : s \in Enabled}
  /\ found' = None /\ loaded' = FALSE /\ fresh' = {}

StartService ==
  /\ service \in {"stopped", "failed"}
  /\ Lists("requirements")
  /\ UNCHANGED <<storeVars, registered>>

\* The loop consumes the request before it looks at anything.
Reload ==
  /\ service = "running" /\ requested /\ writer = None
  /\ requested' = FALSE
  /\ Outdates({})
  /\ Lists("requirements")
  /\ UNCHANGED <<rows, approvals, files, writer, job, registered, history, bounds>>

NeverDue == requested
Due == ~requested

\* It also looks by itself, every reload_check_interval.
ReloadDue ==
  /\ service = "running" /\ Due
  /\ Lists("requirements")
  /\ UNCHANGED <<storeVars, registered>>

Loading == service \in {"requirements", "registrations"}

\* Any error in a pass ends the service.
Fails ==
  /\ service' = "failed" /\ registered' = {}
  /\ todo' = {} /\ found' = None /\ loaded' = FALSE /\ fresh' = {}

Listed  == CHOOSE l \in todo : TRUE
Current == Listed[1]

\* It is through with a script.
Passes == todo' = todo \ {Listed} /\ found' = None /\ loaded' = FALSE

\* Readers of the blacklist wait for the writer.
Restricts(content) == content \in entries
Readable == enforcer = None

\* Triggers of restricted packages are not registered.
SkipRestricted ==
  /\ service = "registrations" /\ found = None /\ todo # {}
  /\ Readable /\ Restricts(Listed[2])
  /\ Passes
  /\ UNCHANGED <<storeVars, service, fresh, registered>>

FindRow ==
  /\ Loading /\ found = None /\ todo # {}
  /\ service = "registrations" => Readable /\ ~Restricts(Listed[2])
  /\ IF Installed(Current)
     THEN found' = rows[Current] /\ UNCHANGED <<service, todo, loaded, fresh, registered>>
     ELSE Fails
  /\ UNCHANGED storeVars

\* The package must be the row's.
ReadPackage ==
  /\ Loading /\ found # None /\ ~loaded
  /\ IF Verified(found)
     THEN /\ IF service = "registrations"
             THEN loaded' = TRUE /\ UNCHANGED <<todo, found>>
             ELSE Passes
          /\ UNCHANGED <<service, fresh, registered>>
     ELSE Fails
  /\ UNCHANGED storeVars

\* Only approved scripts register their triggers.
CheckApproval ==
  /\ loaded
  /\ fresh' = IF HasCurrentApproval(Current, found)
              THEN fresh \cup {<<Current, found.content>>} ELSE fresh
  /\ Passes
  /\ UNCHANGED <<storeVars, service, registered>>

ListRegistrations ==
  /\ service = "requirements" /\ todo = {}
  /\ Lists("registrations")
  /\ lost' = FALSE
  /\ UNCHANGED <<db, files, writer, outdated, job, registered, consent, disturbed, bounds>>

\* What is left of requests that came during the passes.
ForgetsRequests == FALSE
KeepsRequests == requested

\* The triggers are kept as they are when nothing changed, built anew otherwise.
RegisterTriggers ==
  /\ service = "registrations" /\ todo = {}
  /\ service' = "running" /\ registered' = fresh /\ fresh' = {}
  /\ requested' = KeepsRequests
  /\ UNCHANGED <<rows, approvals, files, writer, outdated, job, todo, found, loaded,
                 history, bounds>>

\* A trigger cannot be built: a port that is taken, a key that is in use.
BuildFails ==
  /\ service = "registrations" /\ todo = {} /\ fresh # registered
  /\ Fails
  /\ UNCHANGED storeVars

StopService ==
  /\ service = "running"
  /\ service' = "stopped" /\ registered' = {}
  /\ UNCHANGED <<storeVars, passing>>

-----------------------------------------------------------------------------
ServiceInit ==
  /\ StoreInit
  /\ service = "stopped" /\ todo = {} /\ found = None /\ loaded = FALSE /\ fresh = {}
  /\ registered = {}
  /\ entries = {} /\ enforcer = None

Loop == \/ Reload \/ ReloadDue \/ SkipRestricted \/ FindRow \/ ReadPackage \/ CheckApproval
        \/ ListRegistrations \/ RegisterTriggers

ServiceNext ==
  /\ \/ StoreNext /\ UNCHANGED serving
     \/ StartService \/ Loop \/ BuildFails \/ StopService
  /\ UNCHANGED <<entries, enforcer>>

\* What the service ought to listen to.
Expected == {<<s, rows[s].content>> : s \in {t \in Enabled : HasCurrentApproval(t, rows[t])}}
=============================================================================
