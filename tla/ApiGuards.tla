------------------------------- MODULE ApiGuards -------------------------------
(***************************************************************************)
(* The guards in front of every handler (security/api-key.guard.ts,        *)
(* security/rate-limit.guard.ts, registered in that order by               *)
(* app.module.ts). A request with a bad key is turned away before it is    *)
(* counted. The counters live in the memory of the process: one window per *)
(* method and address, opened by its first request.                        *)
(***************************************************************************)
EXTENDS Autonomy, FiniteSets, FiniteSetsExt

CONSTANTS Addresses,    \* client addresses
          Limit,        \* the requests a window admits, by method
          WindowTicks,  \* WINDOW_MS
          MaxWindows,   \* MAX_WINDOWS
          MaxTime       \* bound: the clock

Methods == DOMAIN Limit

ASSUME GuardsAssumption ==
  /\ \A m \in Methods : Limit[m] \in Nat \ {0}
  /\ WindowTicks \in Nat \ {0}
  /\ MaxWindows \in Nat
  /\ MaxTime \in Nat

VARIABLES windows,  \* WINDOWS: [count, resetAt] by (method, address)
          now,      \* Date.now()
          opened,   \* history: when the newest window was opened
          admitted  \* history: requests this process let through, by key and age in ticks

guardVars == <<windows, now, opened, admitted>>

WindowKeys == Methods \X Addresses
Times == 0..MaxTime
Ages == 0..WindowTicks - 1

GuardsTypeOK ==
  /\ DOMAIN windows \subseteq WindowKeys
  /\ \A k \in DOMAIN windows : windows[k] \in [count : Nat \ {0}, resetAt : Nat]
  /\ now \in Times
  /\ opened \in Times
  /\ admitted \in [WindowKeys -> [Ages -> Nat]]

Quiet == [k \in WindowKeys |-> [u \in Ages |-> 0]]

GuardsInit == windows = <<>> /\ now = 0 /\ opened = 0 /\ admitted = Quiet

-----------------------------------------------------------------------------
\* (fault) A window ends a tick early.
ExpiredEarly(w) == now + 1 >= w.resetAt

Expired(w) == now >= w.resetAt

\* (fault) The map is never pruned.
NothingPruned == DOMAIN windows

\* pruneExpired: the windows kept when one more is opened; below the cap the
\* expired ones stay.
Kept == IF Cardinality(DOMAIN windows) >= MaxWindows
        THEN {k \in DOMAIN windows : ~Expired(windows[k])} ELSE DOMAIN windows

\* ApiKeyGuard: the role behind a request; nobody's request does not come in.
RoleOf(public) == IF public THEN "viewer" ELSE "owner"

\* The window of a key still runs.
Running(k) == k \in DOMAIN windows /\ ~Expired(windows[k])

\* RateLimitGuard opens a window.
OpenWindow(k) ==
  /\ ~Running(k)
  /\ windows' = [x \in Kept \cup {k} |->
                   IF x = k THEN [count |-> 1, resetAt |-> now + WindowTicks] ELSE windows[x]]
  /\ opened' = now

\* RateLimitGuard counts on, refused requests included.
CountIn(k) ==
  /\ Running(k)
  /\ windows' = [windows EXCEPT ![k].count = @ + 1]
  /\ UNCHANGED opened

\* A request that both guards let through.
Admit(k) ==
  /\ \/ OpenWindow(k)
     \/ CountIn(k) /\ windows'[k].count <= Limit[k[1]]
  /\ admitted' = [admitted EXCEPT ![k][0] = @ + 1]
  /\ UNCHANGED now

\* 429: counted and refused.
TurnAway(k) ==
  /\ CountIn(k)
  /\ windows'[k].count > Limit[k[1]]
  /\ UNCHANGED <<now, admitted>>

Tick ==
  /\ now < MaxTime
  /\ now' = now + 1
  /\ admitted' = [k \in WindowKeys |-> [u \in Ages |-> IF u = 0 THEN 0 ELSE admitted[k][u - 1]]]
  /\ UNCHANGED <<windows, opened>>

\* The process is replaced: its counters are gone.
ForgetWindows == windows' = <<>> /\ admitted' = Quiet /\ UNCHANGED <<now, opened>>

GuardsNext == (\E k \in WindowKeys : Admit(k) \/ TurnAway(k)) \/ Tick \/ ForgetWindows

GuardsSpec == GuardsInit /\ [][GuardsNext]_guardVars

-----------------------------------------------------------------------------
\* How much the limit limits: in no stretch of one window's length does a
\* process admit twice the limit or more of one method and address, however
\* the requests fall about the end of a window (rate-limit.guard.ts:50).
WindowBudget == \A k \in WindowKeys :
  MapThenSumSet(LAMBDA u : admitted[k][u], Ages) < 2 * Limit[k[1]]

\* "Bound memory" (:15-18): the map may outgrow MAX_WINDOWS, but whenever it
\* has, every window in it was still running when the newest was opened.
MemoryIsRecent ==
  Cardinality(DOMAIN windows) > MaxWindows =>
    \A k \in DOMAIN windows : windows[k].resetAt > opened
================================================================================
