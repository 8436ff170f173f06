----------------------------- MODULE SiteAccess -----------------------------
(***************************************************************************)
(* The switches of turtle_auth: whether new users may register, whether    *)
(* the site is closed for maintenance and whether a registration must pass *)
(* Turnstile.  They are one row of the database.  Every request of a user  *)
(* asks for them, so each process of Open WebUI keeps them for a moment;   *)
(* a registration reads the row itself.                                    *)
(*                                                                         *)
(* A configuration is known by its number: log[n] is the n-th one written, *)
(* log[saves] is the row, and `retired' says how long the others are gone. *)
(***************************************************************************)
EXTENDS Naturals, FiniteSets

CONSTANTS
    Sites,          \* processes of Open WebUI
    Owners,         \* administrators
    Visitors,       \* registrations
    Forms,          \* what an administrator may send, [registration, turnstile, secret]
    MaxSaves,       \* bound on the configurations written
    KeepTicks,      \* _PUBLIC_CONFIG_CACHE_SECONDS
    FetchTicks,     \* a read of the row ends within this time
    Founder,        \* an account of before
    NoSite

ASSUME SiteAssumption ==
    /\ IsFiniteSet(Sites) /\ NoSite \notin Sites
    /\ MaxSaves \in Nat /\ KeepTicks \in Nat \ {0} /\ FetchTicks \in Nat
    /\ Forms \subseteq [registration : BOOLEAN, turnstile : BOOLEAN, secret : BOOLEAN]

VARIABLES
    log, saves, retired,
    cached, kept,           \* _public_config_cache and the time it stays fresh
    fetch, reading,         \* the number read under _public_config_lock, the time since
    saving,                 \* the process whose PUT /admin/config has written the row
    accounts,               \* who has registered
    signup

rowVars == <<log, saves, retired>>
publicVars == <<cached, kept, fetch, reading>>
siteVars == <<rowVars, publicVars, saving, accounts, signup>>

Numbers == 0 .. MaxSaves
Horizon == KeepTicks + FetchTicks

Default == [registration |-> TRUE, turnstile |-> FALSE, secret |-> FALSE]
NoNumber == MaxSaves + 1
NoSignup == [pc |-> "none", at |-> NoSite, first |-> FALSE,
             open |-> FALSE, free |-> FALSE, passed |-> FALSE]

Config == [registration : BOOLEAN, turnstile : BOOLEAN, secret : BOOLEAN]

SiteTypeOK ==
    /\ log \in [Numbers -> Config] /\ saves \in Numbers
    /\ retired \in [Numbers -> 0 .. Horizon + 1]
    /\ cached \in [Sites -> Numbers] /\ kept \in [Sites -> 0 .. KeepTicks]
    /\ fetch \in [Sites -> Numbers \cup {NoNumber}]
    /\ reading \in [Sites -> 0 .. FetchTicks]
    /\ saving \in [Owners -> Sites \cup {NoSite}]
    /\ accounts \subseteq Visitors \cup {Founder}
    /\ signup \in [Visitors -> [pc : {"none", "begun", "allowed", "first", "over"},
                                at : Sites \cup {NoSite}, first : BOOLEAN, open : BOOLEAN,
                                free : BOOLEAN, passed : BOOLEAN]]

SiteInit ==
    /\ log = [n \in Numbers |-> Default] /\ saves = 0
    /\ retired = [n \in Numbers |-> 0]
    /\ cached = [w \in Sites |-> 0] /\ kept = [w \in Sites |-> 0]
    /\ fetch = [w \in Sites |-> NoNumber] /\ reading = [w \in Sites |-> 0]
    /\ saving = [a \in Owners |-> NoSite]
    /\ accounts \in {{}, {Founder}}
    /\ signup = [v \in Visitors |-> NoSignup]

-----------------------------------------------------------------------------
(***************************************************************************)
(* The row.  _edit_config() reads and writes it under an advisory lock;    *)
(* AUTH_SECURITY.load() reads it.                                          *)
(***************************************************************************)
CurrentRow == log[saves]

UnderWay(v) == signup[v].pc \in {"begun", "allowed"}

\* Who is registering now has lived through this configuration too.
Lived(attempt, config) ==
    [attempt EXCEPT !.open = @ \/ config.registration, !.free = @ \/ ~config.turnstile]

Witnessed(config) ==
    [v \in Visitors |-> IF UnderWay(v) THEN Lived(signup[v], config) ELSE signup[v]]

Edit(config) ==
    /\ saves < MaxSaves
    /\ saves' = saves + 1
    /\ log' = [log EXCEPT ![saves + 1] = config]
    /\ UNCHANGED retired

-----------------------------------------------------------------------------
(***************************************************************************)
(* public_auth_security_config(): one reader of a process at a time.  A    *)
(* reader that waited for it takes what it stored.                         *)
(***************************************************************************)
Fetch(w) ==
    /\ kept[w] = 0 /\ fetch[w] = NoNumber
    /\ fetch' = [fetch EXCEPT ![w] = saves]
    /\ UNCHANGED <<rowVars, cached, kept, reading, saving, accounts, signup>>

\* Fresh from the time the answer came, whatever was written since.
FetchStored(w) ==
    /\ fetch[w] # NoNumber
    /\ cached' = [cached EXCEPT ![w] = fetch[w]]
    /\ kept' = [kept EXCEPT ![w] = KeepTicks]
    /\ fetch' = [fetch EXCEPT ![w] = NoNumber] /\ reading' = [reading EXCEPT ![w] = 0]
    /\ UNCHANGED <<rowVars, saving, accounts, signup>>

\* The request that reads is cancelled.
FetchDropped(w) ==
    /\ fetch[w] # NoNumber
    /\ fetch' = [fetch EXCEPT ![w] = NoNumber] /\ reading' = [reading EXCEPT ![w] = 0]
    /\ UNCHANGED <<rowVars, cached, kept, saving, accounts, signup>>

\* invalidate_public_auth_security_cache(), of one process
Invalidated(w) ==
    kept' = [kept EXCEPT ![w] = 0] /\ cached' = [cached EXCEPT ![w] = 0]

-----------------------------------------------------------------------------
(* An administrator saves the form; a new secret was tried at Cloudflare. *)

\* A form without a secret keeps the one there is.
Merged(form) == [form EXCEPT !.secret = form.secret \/ CurrentRow.secret]

UpdateAdmin(a, w, form) ==
    /\ saving[a] = NoSite
    /\ form.turnstile => Merged(form).secret
    /\ Edit(Merged(form))
    /\ signup' = Witnessed(Merged(form))
    /\ saving' = [saving EXCEPT ![a] = w]
    /\ UNCHANGED <<publicVars, accounts>>

SaveEnds(a) ==
    /\ saving[a] # NoSite
    /\ Invalidated(saving[a])
    /\ saving' = [saving EXCEPT ![a] = NoSite]
    /\ UNCHANGED <<rowVars, fetch, reading, accounts, signup>>

\* Cancelled between the row and the cache.
SaveDropped(a) ==
    /\ saving[a] # NoSite
    /\ saving' = [saving EXCEPT ![a] = NoSite]
    /\ UNCHANGED <<rowVars, publicVars, accounts, signup>>

-----------------------------------------------------------------------------
(***************************************************************************)
(* A registration: are there users; enforce_signup_security(); the account *)
(* is made by Open WebUI, and the first one is an administrator's.         *)
(***************************************************************************)
At(v, step) == signup[v].pc = step

Begun(w) ==
    [NoSignup EXCEPT !.pc = "begun", !.at = w, !.first = accounts = {},
                     !.open = accounts = {} \/ CurrentRow.registration,
                     !.free = ~CurrentRow.turnstile]

BeginSignup(v, w) ==
    /\ signup[v] = NoSignup
    /\ signup' = [signup EXCEPT ![v] = Begun(w)]
    /\ UNCHANGED <<rowVars, publicVars, saving, accounts>>

\* Whom a configuration keeps out: registration is closed, or the visitor has
\* no token that Cloudflare takes.
Turned(v, config, passed) ==
    (~signup[v].first /\ ~config.registration) \/ (config.turnstile /\ ~passed)

TurnedAway == [NoSignup EXCEPT !.pc = "over"]
Allowed(attempt, passed) == [attempt EXCEPT !.pc = "allowed", !.passed = passed]

Enforced(v, config, passed) ==
    /\ At(v, "begun")
    /\ signup' = [signup EXCEPT ![v] = IF Turned(v, config, passed) THEN TurnedAway
                                       ELSE Allowed(@, passed)]
    /\ UNCHANGED <<rowVars, publicVars, saving, accounts>>

\* Mutant: the registration is content with what the process keeps.
EnforceAsShown(v, passed) ==
    Enforced(v, IF kept[signup[v].at] > 0 THEN log[cached[signup[v].at]] ELSE CurrentRow, passed)

EnforceSignup(v, passed) == Enforced(v, CurrentRow, passed)

InsertAccount(v) ==
    /\ At(v, "allowed")
    /\ accounts' = accounts \cup {v}
    /\ signup' = [signup EXCEPT ![v].pc = IF accounts = {} THEN "first" ELSE "over"]
    /\ UNCHANGED <<rowVars, publicVars, saving>>

\* disable_registration_after_first_admin()
CloseRegistration(v) ==
    LET config == [CurrentRow EXCEPT !.registration = FALSE]
    IN /\ At(v, "first")
       /\ Edit(config)
       /\ signup' = [Witnessed(config) EXCEPT ![v].pc = "over"]
       /\ Invalidated(signup[v].at)
       /\ UNCHANGED <<fetch, reading, saving, accounts>>

\* The visitor goes away, or the process dies: also between the account and
\* the switch, which stays as it is.
SignupDropped(v) ==
    /\ UnderWay(v) \/ At(v, "first")
    /\ signup' = [signup EXCEPT ![v] = IF At(v, "first") THEN [@ EXCEPT !.pc = "over"]
                                       ELSE TurnedAway]
    /\ UNCHANGED <<rowVars, publicVars, saving, accounts>>

-----------------------------------------------------------------------------
\* Time passes, for a read no longer than FetchTicks.  What is no longer fresh
\* is as good as forgotten.
SiteTick ==
    /\ \A w \in Sites : fetch[w] # NoNumber => reading[w] < FetchTicks
    /\ kept' = [w \in Sites |-> IF kept[w] > 0 THEN kept[w] - 1 ELSE 0]
    /\ cached' = [w \in Sites |-> IF kept[w] > 1 THEN cached[w] ELSE 0]
    /\ reading' = [w \in Sites |-> IF fetch[w] # NoNumber THEN reading[w] + 1 ELSE 0]
    /\ retired' = [n \in Numbers |-> IF n < saves /\ retired[n] <= Horizon
                                     THEN retired[n] + 1 ELSE retired[n]]
    /\ UNCHANGED <<log, saves, fetch, saving, accounts, signup>>

SiteNext ==
    \/ SiteTick
    \/ \E w \in Sites : Fetch(w) \/ FetchStored(w) \/ FetchDropped(w)
    \/ \E a \in Owners : \/ \E w \in Sites, form \in Forms : UpdateAdmin(a, w, form)
                         \/ SaveEnds(a) \/ SaveDropped(a)
    \/ \E v \in Visitors : \/ \E w \in Sites : BeginSignup(v, w)
                           \/ \E passed \in BOOLEAN : EnforceSignup(v, passed)
                           \/ InsertAccount(v) \/ CloseRegistration(v) \/ SignupDropped(v)

SiteSpec == SiteInit /\ [][SiteNext]_siteVars

-----------------------------------------------------------------------------
(***************************************************************************)
(* Properties.                                                             *)
(***************************************************************************)
\* What a process shows for the configuration was the row no longer ago than
\* a read and the two seconds take, although a save invalidates only its own
\* process and a read under way brings the old one back afterwards.
ShownIsRecent ==
    \A w \in Sites : kept[w] > 0 => retired[cached[w]] + kept[w] <= Horizon

\* Who has registered did so while registration was open, or nobody had yet,
\* at some moment of the registration, and has passed Turnstile unless it was
\* off at some moment of it.
RegisteredRightly ==
    \A v \in accounts \ {Founder} : signup[v].open /\ (signup[v].free \/ signup[v].passed)

\* However saves, registrations and readers of several processes interleave:
\* a switch is out of date for a bounded time only, nobody registers past a
\* closed one, and Turnstile is never on without its secret (turtle_auth
\* service.py 69-98 and 136-204, core.py 232-315).
AccessSafety ==
    /\ SiteTypeOK /\ ShownIsRecent /\ RegisteredRightly
    /\ CurrentRow.turnstile => CurrentRow.secret
=============================================================================
